----------------------------- MODULE AhciProofs -----------------------------
(***************************************************************************)
(* The proofs about init_ahci (module Ahci): for any controller, with any   *)
(* list of capabilities and any number of ports and slots, configuration    *)
(* registers are written only inside the MSI capability, no interrupt finds *)
(* its handler missing once the registers are mapped (nor before, unless    *)
(* the firmware left the interrupts enabled), and a command goes into a     *)
(* slot nobody uses.  And                                                   *)
(* about the scan before it (module Pci): on any tree of buses it makes one *)
(* structure for every function.                                            *)
(***************************************************************************)
EXTENDS Ahci, FiniteSetTheorems, TLAPS

(* A set of naturals that is not empty has a least element. *)
LEMMA LeastElement ==
  ASSUME NEW S \in SUBSET Nat, S # {}
  PROVE  \E m \in S : \A k \in S : m <= k
<1> DEFINE R == OpToRel(<, Nat)
<1>1. IsWellFoundedOn(R, Nat)
  BY NatLessThanWellFounded, Zenon
<1>2. \A k, m \in Nat : k < m => <<k, m>> \in R
  BY DEF OpToRel
<1> HIDE DEF R
<1>3. PICK m \in S : \A k \in S : ~(<<k, m>> \in R)
  BY <1>1, WFMin, Zenon
<1>4. \A k \in S : ~(k < m)
  BY <1>2, <1>3, Zenon
<1> QED
  BY <1>4


(* The registers that enable_msi has written after k steps. *)
Stage(k) ==
  CASE k = 0 -> {}
    [] k = 1 -> {cap + 3}
    [] k = 2 -> {cap + 3, cap + 1}
    [] k = 3 -> {cap + 3, cap + 1, cap + 2}
    [] k = 4 -> {cap + 3, cap + 1, cap + 2, cap}

Types ==
  /\ machine \in Machines
  /\ cap \in Nat
  /\ msi \subseteq Nat
  /\ p \in 0 .. Ports
  /\ port \in [0 .. (Ports - 1) -> ahci_port_t]

(* The walk through the capabilities, and the writes. *)
Walk ==
  /\ pc \in {"scan", "locate", "walk"} => msi = {}
  /\ pc \in {"walk", "enable"} => cap \in DOMAIN machine.caps
  /\ pc = "enable" => \E k \in 0 .. 4 : /\ msi = Stage(k)
                                        /\ get_register_value(cap).id \in {"msi", "msix"}
                                        /\ k > 0 => get_register_value(cap).id = "msi"

(* Where the registers of the controller are not mapped yet. *)
Early == {"scan", "locate", "walk", "enable"}

(* What has happened before the controller may interrupt. *)
Order ==
  /\ cap \in msi => cap .. (cap + 3) \subseteq msi
  /\ pc \notin Early \union Dead => msi = {} \/ handler
  /\ pc \notin Early \union Dead \union {"map"} => abar
  /\ ghcIe /\ pc \in Early \union {"map", "ghc"} => machine.ie

(* What send_cmd has done to the engines of the port. *)
Engines ==
  /\ pc \in {"st", "fre", "cr", "fr", "slot", "table", "spin", "issue", "poll"} => p < Ports
  /\ pc \in {"fre", "cr", "fr", "slot", "table", "spin", "issue"} => ~port[p].st
  /\ pc \in {"cr", "fr", "slot", "table", "spin", "issue"} => ~port[p].fre
  /\ pc \in {"fr", "slot", "table", "spin", "issue"} => ~port[p].cr
  /\ pc \in {"slot", "table", "spin", "issue"} => ~port[p].fr
  /\ pc \in {"table", "spin", "issue"} => slot \in Slots \ (port[p].ci \union port[p].sact)

AhciInv == Types /\ Walk /\ WritesOnlyMsi /\ Order /\ Engines

-----------------------------------------------------------------------------
(* The set of the registers written tells how many have been. *)
LEMMA StageSize ==
  ASSUME cap \in Nat, NEW k \in 0 .. 4
  PROVE  Cardinality(Stage(k)) = k
<1>1. IsFiniteSet({}) /\ Cardinality({}) = 0
  BY FS_EmptySet
<1>2. IsFiniteSet({cap + 3}) /\ Cardinality({cap + 3}) = 1
  BY FS_Singleton
<1>3. IsFiniteSet({cap + 3, cap + 1}) /\ Cardinality({cap + 3, cap + 1}) = 2
  <2>1. {cap + 3, cap + 1} = {cap + 3} \union {cap + 1} /\ cap + 1 \notin {cap + 3}
    OBVIOUS
  <2> QED
    BY <1>2, <2>1, FS_AddElement
<1>4. IsFiniteSet({cap + 3, cap + 1, cap + 2}) /\ Cardinality({cap + 3, cap + 1, cap + 2}) = 3
  <2>1. {cap + 3, cap + 1, cap + 2} = {cap + 3, cap + 1} \union {cap + 2} /\ cap + 2 \notin {cap + 3, cap + 1}
    OBVIOUS
  <2> QED
    BY <1>3, <2>1, FS_AddElement
<1>5. Cardinality({cap + 3, cap + 1, cap + 2, cap}) = 4
  <2>1. /\ {cap + 3, cap + 1, cap + 2, cap} = {cap + 3, cap + 1, cap + 2} \union {cap}
        /\ cap \notin {cap + 3, cap + 1, cap + 2}
    OBVIOUS
  <2> QED
    BY <1>4, <2>1, FS_AddElement
<1> QED
  BY <1>1, <1>2, <1>3, <1>4, <1>5 DEF Stage

(* One write leads from one stage to the next, within the capability. *)
LEMMA StageNext ==
  ASSUME cap \in Nat, NEW k \in 0 .. 3
  PROVE  /\ Stage(k) \union {(<<cap + 3, cap + 1, cap + 2, cap>>)[k + 1]} = Stage(k + 1)
         /\ (<<cap + 3, cap + 1, cap + 2, cap>>)[k + 1] \in cap .. (cap + 3)
<1>1. CASE k = 0
  BY <1>1 DEF Stage
<1>2. CASE k = 1
  BY <1>2 DEF Stage
<1>3. CASE k = 2
  BY <1>3 DEF Stage
<1>4. CASE k = 3
  BY <1>4 DEF Stage
<1> QED
  BY <1>1, <1>2, <1>3, <1>4

(* After four writes the whole capability is written. *)
LEMMA StageLast ==
  ASSUME cap \in Nat
  PROVE  Stage(4) = cap .. (cap + 3)
BY DEF Stage

(* What the registers of a capability read as. *)
LEMMA Register ==
  ASSUME Types, cap \in DOMAIN machine.caps
  PROVE  /\ get_register_value(cap) \in Capabilities
         /\ get_register_value(cap).next \in DOMAIN machine.caps \union {0}
         /\ get_register_value(cap).next \in Nat
         /\ get_register_value(cap).wide \in BOOLEAN
<1>1. get_register_value(cap) \in Capabilities
  BY CapsAssumption DEF Types, get_register_value
<1> QED
  BY <1>1, CapsAssumption DEF Types, get_register_value, Capabilities

-----------------------------------------------------------------------------
(* The initial states. *)
LEMMA AhciInit ==
  ASSUME Init
  PROVE  AhciInv
<1>1. Types
  BY PortsAssumption, SlotsAssumption DEF Init, InitPci, Types
<1> QED
  BY <1>1 DEF Init, AhciInv, Walk, WritesOnlyMsi, Order, Early, Dead, Engines

(* A step that leaves the capability alone leaves the walk alone. *)
SameCap == UNCHANGED <<machine, cap, msi>>

(* The steps of the scan. *)
LEMMA ScanStep ==
  ASSUME AhciInv, init_pci
  PROVE  AhciInv'
<1>1. SameCap /\ UNCHANGED <<handler, abar, ghcIe, port, p, slot>> /\ pc = "scan" /\ pc' \in {"scan", "locate"}
  BY Zenon DEF init_pci, SameCap, Unit, Scan, scan_pci_space, HostFunction, check_device, OtherFunction
<1>2. Types'
  BY <1>1 DEF AhciInv, Types, SameCap
<1>3. Walk' /\ Order' /\ Engines'
  BY <1>1 DEF AhciInv, Walk, Order, Early, Dead, Engines, SameCap
<1>4. WritesOnlyMsi'
  BY <1>1 DEF AhciInv, WritesOnlyMsi, MsiRegs, SameCap
<1> QED
  BY <1>2, <1>3, <1>4 DEF AhciInv

(* The controller is found. *)
LEMMA LocateStep ==
  ASSUME AhciInv, Locate
  PROVE  AhciInv'
<1>1. /\ UNCHANGED <<machine, msi, handler, abar, ghcIe, port, p, slot>> /\ pc = "locate"
      /\ \/ pc' = "returned" /\ cap' = cap
         \/ pc' = "map" /\ machine.first = 0 /\ cap' = 0
         \/ pc' = "walk" /\ machine.first # 0 /\ cap' = machine.first
  BY DEF Locate, Unit
<1>2. cap' \in Nat /\ (pc' = "walk" => cap' \in DOMAIN machine.caps)
  BY <1>1, CapsAssumption DEF AhciInv, Types
<1>3. Types'
  BY <1>1, <1>2 DEF AhciInv, Types
<1>4. Walk' /\ Order' /\ Engines'
  BY <1>1, <1>2, Zenon DEF AhciInv, Walk, Order, Early, Dead, Engines
<1>5. WritesOnlyMsi'
  BY <1>1 DEF AhciInv, WritesOnlyMsi, MsiRegs
<1> QED
  BY <1>3, <1>4, <1>5 DEF AhciInv

(* One capability is looked at. *)
LEMMA WalkStep ==
  ASSUME AhciInv, check_msi_capability
  PROVE  AhciInv'
<1>1. Types /\ msi = {} /\ cap \in DOMAIN machine.caps /\ cap \in Nat
  BY DEF AhciInv, Types, Walk, check_msi_capability
<1> DEFINE reg == get_register_value(cap)
<1>2. /\ UNCHANGED <<machine, msi, handler, abar, ghcIe, port, p, slot>> /\ pc = "walk"
      /\ \/ pc' = "enable" /\ cap' = cap /\ reg.id \in {"msi", "msix"}
         \/ pc' = "map" /\ cap' = reg.next
         \/ pc' = "walk" /\ cap' = reg.next /\ reg.next # 0
  BY DEF check_msi_capability, Unit
<1>3. cap' \in Nat /\ (pc' \in {"walk", "enable"} => cap' \in DOMAIN machine.caps)
  BY <1>1, <1>2, Register
<1>4. Types'
  BY <1>2, <1>3 DEF AhciInv, Types
<1>5. Walk'
  <2>1. pc' = "enable" => get_register_value(cap)' = reg
    BY <1>2 DEF get_register_value
  <2>2. msi' = Stage(0)'
    BY <1>1, <1>2 DEF Stage
  <2> QED
    BY <1>1, <1>2, <1>3, <2>1, <2>2 DEF Walk
<1>6. Order' /\ Engines'
  BY <1>1, <1>2 DEF AhciInv, Order, Early, Dead, Engines
<1>7. WritesOnlyMsi'
  BY <1>1, <1>2 DEF WritesOnlyMsi
<1> QED
  BY <1>4, <1>5, <1>6, <1>7 DEF AhciInv

(* One step of enable_msi. *)
LEMMA EnableStep ==
  ASSUME AhciInv, enable_msi
  PROVE  AhciInv'
<1> DEFINE reg   == get_register_value(cap)
           order == <<cap + 3, cap + 1, cap + 2, cap>>
<1>1. Types /\ cap \in DOMAIN machine.caps /\ cap \in Nat /\ pc = "enable"
  BY DEF AhciInv, Types, Walk, enable_msi
<1>2. PICK k \in 0 .. 4 : msi = Stage(k) /\ reg.id \in {"msi", "msix"} /\ (k > 0 => reg.id = "msi")
  BY DEF AhciInv, Walk, enable_msi
<1>3. Cardinality(msi) = k /\ reg.wide \in BOOLEAN
  BY <1>1, <1>2, StageSize, Register
<1>4. UNCHANGED <<machine, cap, abar, ghcIe, port, p, slot>>
  BY DEF enable_msi, Unit
<1>5. \/ reg.id = "msix" /\ pc' = "map" /\ UNCHANGED <<msi, handler>>
      \/ reg.id = "msi" /\ ~reg.wide /\ pc' = "aborted" /\ UNCHANGED <<msi, handler>>
      \/ reg.id = "msi" /\ k < 4 /\ msi' = msi \union {order[k + 1]} /\ UNCHANGED <<pc, handler>>
      \/ reg.id = "msi" /\ k = 4 /\ handler' = TRUE /\ pc' = "map" /\ UNCHANGED msi
  <2>1. CASE reg.id = "msix"
    BY <2>1 DEF enable_msi
  <2>2. CASE reg.id = "msi" /\ ~reg.wide
    BY <2>2, Zenon DEF enable_msi
  <2>3. CASE reg.id = "msi" /\ reg.wide /\ k < 4
    BY <1>3, <2>3, Zenon DEF enable_msi, set_register_value
  <2>4. CASE reg.id = "msi" /\ reg.wide /\ k = 4
    BY <1>3, <2>4 DEF enable_msi
  <2>5. k < 4 \/ k = 4
    OBVIOUS
  <2> QED
    BY <1>2, <2>1, <2>2, <2>3, <2>4, <2>5, Zenon
<1>6. reg' = reg /\ Stage(k)' = Stage(k) /\ Stage(k + 1)' = Stage(k + 1)
  BY <1>4 DEF get_register_value, Stage
<1>7. k < 4 => Stage(k) \union {order[k + 1]} = Stage(k + 1) /\ order[k + 1] \in cap .. (cap + 3)
  BY <1>1, StageNext
<1>8. Types'
  <2>1. msi' \subseteq Nat
    <3>1. msi \subseteq Nat /\ cap .. (cap + 3) \subseteq Nat
      BY <1>1 DEF Types
    <3> QED
      BY <1>5, <1>7, <3>1, Zenon
  <2> QED
    BY <1>1, <1>4, <2>1 DEF Types
<1>9. Walk'
  <2>1. CASE pc' # "enable"
    BY <1>5, <1>1, <2>1 DEF Walk
  <2>2. CASE pc' = "enable"
    <3>1. k < 4 /\ msi' = Stage(k + 1) /\ reg.id = "msi" /\ k + 1 \in 0 .. 4
      <4>1. reg.id = "msi" /\ k < 4 /\ msi' = msi \union {order[k + 1]}
        <5>1. pc' # "map" /\ pc' # "aborted"
          BY <2>2
        <5> QED
          BY <1>5, <5>1, Zenon
      <4>2. msi' = Stage(k + 1)
        BY <1>2, <1>7, <4>1, Zenon
      <4> QED
        BY <4>1, <4>2
    <3> QED
      BY <1>1, <1>4, <1>6, <2>2, <3>1, Zenon DEF Walk
  <2> QED
    BY <2>1, <2>2
<1>10. Order'
  <2>1. cap' \in msi' => cap' .. (cap' + 3) \subseteq msi'
    <3>1. CASE msi' = msi
      BY <1>4, <3>1 DEF AhciInv, Order
    <3>2. CASE k < 4 /\ msi' = Stage(k + 1)
      <4>1. k + 1 = 4 \/ cap \notin Stage(k + 1)
        BY <1>1, <3>2 DEF Stage
      <4> QED
        BY <1>1, <1>4, <3>2, <4>1, StageLast
    <3> QED
      BY <1>2, <1>5, <1>7, <3>1, <3>2
  <2>2. pc' = "map" => msi' = {} \/ handler'
    <3>1. k = 0 => msi = {}
      BY <1>2 DEF Stage
    <3> QED
      BY <1>1, <1>2, <1>5, <3>1
  <2>3. pc' \in {"enable", "map", "aborted"}
    BY <1>1, <1>5
  <2>4. ghcIe => machine.ie
    BY <1>1 DEF AhciInv, Order, Early
  <2> QED
    BY <1>1, <1>4, <2>1, <2>2, <2>3, <2>4, SMTT(30), SMTT(60) DEF Order, Early, Dead
<1>11. Engines'
  BY <1>1, <1>5 DEF Engines
<1>12. WritesOnlyMsi'
  <2> SUFFICES ASSUME {16, 17} \cap DOMAIN machine.caps = {} PROVE msi' \subseteq MsiRegs
    BY <1>4 DEF WritesOnlyMsi, MsiRegs
  <2>1. msi \subseteq MsiRegs
    BY DEF AhciInv, WritesOnlyMsi
  <2>2. reg = machine.caps[cap]
    BY <1>1 DEF get_register_value
  <2>3. reg.id = "msi" => cap .. (cap + 3) \subseteq MsiRegs
    BY <1>1, <2>2 DEF MsiRegs
  <2> QED
    BY <1>5, <1>7, <2>1, <2>3
<1> QED
  BY <1>8, <1>9, <1>10, <1>11, <1>12 DEF AhciInv

(* The registers are mapped, and then the controller may interrupt. *)
LEMMA ControllerSteps ==
  ASSUME AhciInv, Map \/ EnableController
  PROVE  AhciInv'
<1>1. SameCap /\ UNCHANGED <<handler, port, p, slot>>
  BY DEF Map, EnableController, SameCap, Unit
<1>2. \/ pc = "map" /\ pc' = "ghc" /\ abar' = TRUE /\ UNCHANGED ghcIe
      \/ pc = "ghc" /\ pc' = "port" /\ ghcIe' = TRUE /\ UNCHANGED abar
  BY DEF Map, EnableController
<1>3. Types' /\ Walk' /\ Engines'
  BY <1>1, <1>2 DEF AhciInv, Types, Walk, Engines, SameCap
<1>4. Order'
  BY <1>1, <1>2 DEF AhciInv, Order, Early, Dead, SameCap
<1>5. WritesOnlyMsi'
  BY <1>1 DEF AhciInv, WritesOnlyMsi, MsiRegs, SameCap
<1> QED
  BY <1>3, <1>4, <1>5 DEF AhciInv

-----------------------------------------------------------------------------
(* The steps on the ports leave what was set up before them. *)
SetUp == SameCap /\ UNCHANGED <<handler, abar, ghcIe>>

LaterPcs == {"port", "st", "fre", "cr", "fr", "slot", "table", "spin", "issue", "poll"}

(* A step past the set up of the controller leaves its part of the          *)
(* invariant.                                                               *)
LEMMA SetUpKept ==
  ASSUME AhciInv, SetUp, pc' = pc \/ pc' \in Dead \/ (pc \in LaterPcs /\ pc' \in LaterPcs)
  PROVE  Walk' /\ Order' /\ WritesOnlyMsi'
<1>1. Walk'
  BY DEF AhciInv, Walk, SetUp, SameCap, Stage, get_register_value, LaterPcs, Dead
<1>2. Order'
  BY DEF AhciInv, Order, Early, Dead, SetUp, SameCap, LaterPcs
<1>3. WritesOnlyMsi'
  BY DEF AhciInv, WritesOnlyMsi, MsiRegs, SetUp, SameCap
<1> QED
  BY <1>1, <1>2, <1>3, Zenon

(* Engines only ever stop, and slots are only ever released. *)
Quieter ==
  /\ port' \in [0 .. (Ports - 1) -> ahci_port_t]
  /\ \A q \in 0 .. (Ports - 1) :
       /\ port'[q].st => port[q].st
       /\ port'[q].fre => port[q].fre
       /\ port'[q].cr => port[q].cr
       /\ port'[q].fr => port[q].fr
       /\ port'[q].ci \subseteq port[q].ci
       /\ port'[q].sact \subseteq port[q].sact

(* A step of a port's registers at q that leaves the engines alone. *)
LEMMA QuieterAt ==
  ASSUME Types, NEW q \in 0 .. (Ports - 1), NEW r \in ahci_port_t, port' = [port EXCEPT ![q] = r],
         r.st => port[q].st, r.fre => port[q].fre, r.cr => port[q].cr, r.fr => port[q].fr,
         r.ci \subseteq port[q].ci, r.sact \subseteq port[q].sact
  PROVE  Quieter
BY DEF Types, Quieter

(* The controller. *)
LEMMA ControllerStep ==
  ASSUME AhciInv, NEW q \in 0 .. (Ports - 1), Controller(q)
  PROVE  AhciInv'
<1>1. Types /\ port[q] \in ahci_port_t
  BY DEF AhciInv, Types
<1>2. Quieter
  <2>1. CASE StopEngine(q)
    <3> DEFINE r == [port[q] EXCEPT !.cr = FALSE]
    <3>1. port' = [port EXCEPT ![q] = r]
      BY <2>1 DEF StopEngine
    <3>2. r \in ahci_port_t /\ r.st = port[q].st /\ r.fre = port[q].fre /\ r.cr = FALSE /\ r.fr = port[q].fr
          /\ r.ci = port[q].ci /\ r.sact = port[q].sact
      BY <1>1, Zenon DEF ahci_port_t
    <3> HIDE DEF r
    <3> QED
      BY <1>1, <3>1, <3>2, QuieterAt, Zenon
  <2>2. CASE StopReceive(q)
    <3> DEFINE r == [port[q] EXCEPT !.fr = FALSE]
    <3>1. port' = [port EXCEPT ![q] = r]
      BY <2>2 DEF StopReceive
    <3>2. r \in ahci_port_t /\ r.st = port[q].st /\ r.fre = port[q].fre /\ r.cr = port[q].cr /\ r.fr = FALSE
          /\ r.ci = port[q].ci /\ r.sact = port[q].sact
      BY <1>1, Zenon DEF ahci_port_t
    <3> HIDE DEF r
    <3> QED
      BY <1>1, <3>1, <3>2, QuieterAt, Zenon
  <2>3. CASE Complete(q)
    <3>1. PICK c \in port[q].ci : \E flag \in {"fis", "error"} :
            port' = [port EXCEPT ![q].ci = @ \ {c}, ![q].is = @ \union {flag}, ![q].busy = FALSE]
      BY <2>3, Zenon DEF Complete
    <3>2. PICK flag \in {"fis", "error"} :
            port' = [port EXCEPT ![q].ci = @ \ {c}, ![q].is = @ \union {flag}, ![q].busy = FALSE]
      BY <3>1, Zenon
    <3> DEFINE r == [port[q] EXCEPT !.ci = @ \ {c}, !.is = @ \union {flag}, !.busy = FALSE]
    <3>3. port' = [port EXCEPT ![q] = r]
      BY <1>1, <3>2, Zenon DEF Types
    <3>4. r \in ahci_port_t /\ r.st = port[q].st /\ r.fre = port[q].fre /\ r.cr = port[q].cr /\ r.fr = port[q].fr
          /\ r.ci = port[q].ci \ {c} /\ r.sact = port[q].sact
      BY <1>1, Zenon DEF ahci_port_t
    <3> HIDE DEF r
    <3> QED
      BY <1>1, <3>3, <3>4, QuieterAt, Zenon
  <2>4. CASE GetReady(q)
    <3> DEFINE r == [port[q] EXCEPT !.busy = FALSE]
    <3>1. port' = [port EXCEPT ![q] = r]
      BY <2>4 DEF GetReady
    <3>2. r \in ahci_port_t /\ r.st = port[q].st /\ r.fre = port[q].fre /\ r.cr = port[q].cr /\ r.fr = port[q].fr
          /\ r.ci = port[q].ci /\ r.sact = port[q].sact
      BY <1>1, Zenon DEF ahci_port_t
    <3> HIDE DEF r
    <3> QED
      BY <1>1, <3>1, <3>2, QuieterAt, Zenon
  <2> QED
    BY <2>1, <2>2, <2>3, <2>4 DEF Controller
<1>3. UNCHANGED kernelVars
  BY Zenon DEF Controller, StopEngine, StopReceive, Complete, GetReady
<1>4. SetUp /\ UNCHANGED <<pc, p, slot, machine, cap, msi>>
  BY <1>3 DEF kernelVars, SetUp, SameCap
<1>5. Types'
  BY <1>1, <1>2, <1>4 DEF Types, Quieter
<1>6. Engines'
  <2>1. p \in 0 .. Ports /\ Engines
    BY DEF AhciInv, Types
  <2> QED
    BY <1>2, <1>4, <2>1, SlotsAssumption DEF Engines, Quieter
<1> QED
  BY <1>4, <1>5, <1>6, SetUpKept DEF AhciInv

(* The loop over the ports, and init_port. *)
LEMMA PortStep ==
  ASSUME AhciInv, enumerate_ahci_devices \/ init_port
  PROVE  AhciInv'
<1>1. SetUp /\ UNCHANGED <<port, slot, machine, cap, msi>> /\ pc = "port"
  BY DEF enumerate_ahci_devices, init_port, SetUp, SameCap, Unit
<1>2. \/ p' = p /\ pc' \in {"returned", "panicked"}
      \/ p' = p /\ p < Ports /\ pc' = "st"
      \/ p' = p + 1 /\ p < Ports /\ pc' = "port"
  BY <1>1 DEF enumerate_ahci_devices, init_port
<1>3. Types'
  <2>1. p' \in 0 .. Ports
    BY <1>2, SlotsAssumption DEF AhciInv, Types
  <2> QED
    BY <1>1, <2>1 DEF AhciInv, Types
<1>4. Engines'
  BY <1>1, <1>2 DEF Engines
<1> QED
  BY <1>1, <1>2, <1>3, <1>4, SetUpKept, SMTT(30), SMTT(60) DEF AhciInv, LaterPcs, Dead

(* send_cmd, from stop_cmd to the choice of the slot. *)
LEMMA StopStep ==
  ASSUME AhciInv, ClearST \/ ClearFRE \/ WaitCR \/ WaitFR \/ TakeSlot
  PROVE  AhciInv'
<1>1. SetUp /\ UNCHANGED <<p, machine, cap, msi>>
  BY DEF ClearST, ClearFRE, WaitCR, WaitFR, TakeSlot, SendVars, SetUp, SameCap, Unit
<1>2. Types /\ p \in 0 .. (Ports - 1) /\ p < Ports /\ port[p] \in ahci_port_t /\ Engines
  BY SlotsAssumption, SMTT(30), SMTT(60) DEF AhciInv, Types, Engines, ClearST, ClearFRE, WaitCR, WaitFR, TakeSlot
<1>3. CASE ClearST
  <2> DEFINE r == [port[p] EXCEPT !.st = FALSE, !.ci = {}, !.sact = {}]
  <2>1. port' = [port EXCEPT ![p] = r]
    BY <1>2, <1>3, Zenon DEF ClearST, Types
  <2>2. r \in ahci_port_t /\ r.st = FALSE
    BY <1>2, Zenon DEF ahci_port_t
  <2> HIDE DEF r
  <2>3. port' \in [0 .. (Ports - 1) -> ahci_port_t] /\ ~port'[p].st /\ pc = "st" /\ pc' = "fre"
    BY <1>2, <1>3, <2>1, <2>2, ZenonT(60) DEF Types, ClearST
  <2>4. Types' /\ Engines'
    BY SlotsAssumption, <1>1, <1>2, <2>3 DEF Types, Engines
  <2> QED
    BY <1>1, <2>3, <2>4, SetUpKept DEF AhciInv, LaterPcs, Dead
<1>4. CASE ClearFRE
  <2> DEFINE r == [port[p] EXCEPT !.fre = FALSE]
  <2>1. port' = [port EXCEPT ![p] = r]
    BY <1>4 DEF ClearFRE
  <2>2. r \in ahci_port_t /\ r.fre = FALSE /\ r.st = port[p].st
    BY <1>2, Zenon DEF ahci_port_t
  <2> HIDE DEF r
  <2>3. ~port[p].st
    BY <1>2, <1>4 DEF ClearFRE, Engines
  <2>4. port' \in [0 .. (Ports - 1) -> ahci_port_t] /\ ~port'[p].fre /\ ~port'[p].st /\ pc = "fre" /\ pc' = "cr"
    BY <1>2, <1>4, <2>1, <2>2, <2>3, Zenon DEF Types, ClearFRE
  <2>5. Types' /\ Engines'
    BY SlotsAssumption, <1>1, <1>2, <2>4, SMTT(30), SMTT(60) DEF Types, Engines
  <2> QED
    BY <1>1, <2>4, <2>5, SetUpKept DEF AhciInv, LaterPcs, Dead
<1>5. CASE WaitCR \/ WaitFR
  <2>1. /\ UNCHANGED <<port, slot>>
        /\ \/ pc = "cr" /\ ~port[p].cr /\ pc' = "fr"
           \/ pc = "fr" /\ pc' = "cr"
           \/ pc = "fr" /\ ~port[p].fr /\ pc' = "slot"
    BY <1>5 DEF WaitCR, WaitFR
  <2>2. Types' /\ Engines'
    BY SlotsAssumption, <1>1, <1>2, <2>1 DEF Types, Engines
  <2> QED
    BY <1>1, <2>1, <2>2, SetUpKept DEF AhciInv, LaterPcs, Dead
<1>6. CASE TakeSlot
  <2> DEFINE r == [port[p] EXCEPT !.ie = TRUE]
  <2>1. port' = [port EXCEPT ![p] = r]
    BY <1>6 DEF TakeSlot
  <2>2. /\ r \in ahci_port_t /\ r.fre = port[p].fre /\ r.st = port[p].st /\ r.cr = port[p].cr /\ r.fr = port[p].fr
        /\ r.ci = port[p].ci /\ r.sact = port[p].sact
    BY <1>2, Zenon DEF ahci_port_t
  <2> HIDE DEF r
  <2>3. ~port[p].st /\ ~port[p].fre /\ ~port[p].cr /\ ~port[p].fr
    BY <1>2, <1>6 DEF TakeSlot, Engines
  <2>4. pc' = "aborted" \/ (pc = "slot" /\ pc' = "table" /\ slot' \in Slots \ (port[p].ci \union port[p].sact))
    <3>1. find_cmdslot # -1 => find_cmdslot \in Slots \ (port[p].sact \union port[p].ci)
      <4> DEFINE free == Slots \ (port[p].sact \union port[p].ci)
      <4>1. free # {} => (CHOOSE s \in free : \A t \in free : s <= t) \in free
        <5> HAVE free # {}
        <5>1. free \subseteq Nat
          BY DEF Slots
        <5>2. PICK n \in free : \A k \in free : n <= k
          BY <5>1, LeastElement, Zenon
        <5> QED
          BY <5>2
      <4> QED
        BY <4>1 DEF find_cmdslot
    <3> QED
      BY <1>6, <3>1 DEF TakeSlot
  <2>5. /\ port' \in [0 .. (Ports - 1) -> ahci_port_t]
        /\ ~port'[p].fre /\ ~port'[p].st /\ ~port'[p].cr /\ ~port'[p].fr
        /\ port'[p].ci = port[p].ci /\ port'[p].sact = port[p].sact
    BY <1>2, <2>1, <2>2, <2>3, Zenon DEF Types
  <2>6. Types' /\ Engines'
    BY SlotsAssumption, <1>1, <1>2, <2>4, <2>5 DEF Types, Engines
  <2> QED
    BY <1>1, <2>4, <2>6, SetUpKept DEF AhciInv, LaterPcs, Dead
<1> QED
  BY <1>3, <1>4, <1>5, <1>6

(* send_cmd, from the table of the command to the end of the poll. *)
LEMMA SendStep ==
  ASSUME AhciInv, get_cmd_table \/ Spin \/ Issue \/ Poll
  PROVE  AhciInv'
<1>1. SetUp /\ UNCHANGED <<slot, machine, cap, msi>>
  BY DEF get_cmd_table, Spin, Issue, Poll, SendVars, SetUp, SameCap, Unit
<1>2. Types /\ p \in 0 .. (Ports - 1) /\ p < Ports /\ port[p] \in ahci_port_t /\ Engines
  BY SlotsAssumption DEF AhciInv, Types, Engines, get_cmd_table, Spin, Issue, Poll
<1>3. CASE get_cmd_table \/ Spin
  <2>1. UNCHANGED <<port, p>> /\ pc \in {"table", "spin"} /\ pc' \in {"spin", "issue", "aborted"}
    BY <1>3 DEF get_cmd_table, Spin, SendVars
  <2>2. Types' /\ Engines'
    BY SlotsAssumption, <1>1, <1>2, <2>1 DEF Types, Engines
  <2> QED
    BY <1>1, <2>1, <2>2, SetUpKept DEF AhciInv, LaterPcs, Dead
<1>4. CASE Issue
  <2>1. PICK ci \in {{slot}, {}} : port' = [port EXCEPT ![p].ci = @ \union ci]
    BY <1>4, Zenon DEF Issue
  <2>2. pc = "issue" /\ pc' = "poll" /\ p' = p
    BY <1>4 DEF Issue, SendVars
  <2>3. slot \in Slots
    BY <1>4 DEF AhciInv, Engines, Issue
  <2> DEFINE r == [port[p] EXCEPT !.ci = @ \union ci]
  <2>4. r \in ahci_port_t
    BY <1>2, <2>1, <2>3 DEF ahci_port_t
  <2>5. Types' /\ Engines'
    BY SlotsAssumption, <1>1, <1>2, <2>1, <2>2, <2>4 DEF Types, Engines
  <2> QED
    BY <1>1, <2>2, <2>5, SetUpKept DEF AhciInv, LaterPcs, Dead
<1>5. CASE Poll
  <2>1. UNCHANGED port /\ ((p' = p + 1 /\ pc = "poll" /\ pc' = "port") \/ (p' = p /\ pc' = "halted"))
    BY <1>5 DEF Poll
  <2>2. Types' /\ Engines'
    BY SlotsAssumption, <1>1, <1>2, <2>1 DEF Types, Engines
  <2> QED
    BY <1>1, <2>1, <2>2, SetUpKept DEF AhciInv, LaterPcs, Dead
<1> QED
  BY <1>3, <1>4, <1>5

(* Every step keeps the invariant. *)
LEMMA AhciNext ==
  ASSUME AhciInv, [Next]_vars
  PROVE  AhciInv'
<1>1. CASE UNCHANGED vars
  <2>1. SetUp /\ UNCHANGED <<pc, p, port, slot, machine, cap, msi>>
    BY <1>1 DEF vars, SetUp, SameCap
  <2>2. Types' /\ Engines'
    BY <2>1 DEF AhciInv, Types, Engines
  <2> QED
    BY <2>1, <2>2, SetUpKept DEF AhciInv
<1>2. CASE ahci_irq
  <2>1. SetUp /\ UNCHANGED <<p, port, slot, machine, cap, msi>> /\ pc' \in {"panicked", "halted"}
    BY <1>2 DEF ahci_irq, SetUp, SameCap, Unit
  <2>2. Types' /\ Engines'
    BY <2>1 DEF AhciInv, Types, Engines
  <2> QED
    BY <2>1, <2>2, SetUpKept DEF AhciInv, LaterPcs, Dead
<1>3. CASE Kernel
  BY <1>3, ScanStep, LocateStep, WalkStep, EnableStep, ControllerSteps, PortStep, StopStep, SendStep, Zenon DEF Kernel
<1>4. CASE \E q \in 0 .. (Ports - 1) : Controller(q)
  BY <1>4, ControllerStep
<1> QED
  BY <1>1, <1>2, <1>3, <1>4 DEF Next

(* What the runs check follows. *)
LEMMA AhciImplies ==
  ASSUME AhciInv
  PROVE  WritesOnlyMsi /\ HandlerIsReady /\ IssuesIntoFreeSlot
<1>1. HandlerIsReady
  BY DEF AhciInv, Walk, Order, Early, Dead, HandlerIsReady, Interrupts
<1>2. IssuesIntoFreeSlot
  BY DEF AhciInv, Engines, IssuesIntoFreeSlot
<1> QED
  BY <1>1, <1>2 DEF AhciInv

(* On every machine: enable_msi writes only registers of an MSI capability; *)
(* when the controller interrupts, its message is complete, and ahci_irq is *)
(* registered and its registers are mapped unless the firmware left the     *)
(* interrupts enabled and init_ahci has not come to the mapping yet; and    *)
(* send_cmd issues into a free slot of a port whose engines stand still.    *)
THEOREM AhciSafety == Spec => [](WritesOnlyMsi /\ HandlerIsReady /\ IssuesIntoFreeSlot)
<1>1. Init => AhciInv
  BY AhciInit
<1>2. AhciInv /\ [Next]_vars => AhciInv'
  BY AhciNext
<1>3. AhciInv => WritesOnlyMsi /\ HandlerIsReady /\ IssuesIntoFreeSlot
  BY AhciImplies
<1> QED
  BY <1>1, <1>2, <1>3, PTL DEF Spec

-----------------------------------------------------------------------------
(* The scan (module Pci). *)

(* The function at a place is still to be looked at by a call of the scan. *)
Pends(list, frame, at) ==
  /\ at[1] = list[frame.bus].index
  /\ \/ frame.kind \in {"start", "bus"} /\ at[2] >= frame.dev
     \/ frame.kind = "device" /\ at[2] = frame.dev /\ at[3] >= frame.fn

Pending(list, calls) == {at \in DOMAIN machine.fns : \E k \in DOMAIN calls : Pends(list, calls[k], at)}

(* No function is looked at twice. *)
Single(list, calls) ==
  \A at \in DOMAIN machine.fns : \A k, l \in DOMAIN calls :
    Pends(list, calls[k], at) /\ Pends(list, calls[l], at) => k = l

Frame(nbuses, ndevices) ==
  {frame \in [kind : {"start", "bus", "device"}, bus : Nat, dev : 0 .. DevSlots, fn : 0 .. FnSlots, self : Nat] :
     frame.bus \in 1 .. nbuses /\ (frame.kind = "device" => frame.self \in 1 .. ndevices)}

Bus == [index : Nat, dev_list : Seq(Nat)]
Structure == [at : DOMAIN machine.fns, functions : Seq(Nat)]

Numbered == {buses[k].index : k \in DOMAIN buses}
Bridges == {at \in DOMAIN machine.fns : machine.fns[at].class = Bridge}

(* What has been found, what is pending, and the buses that have structures. *)
Coverage(found, pending, numbers) ==
  /\ found \intersect pending = {}
  /\ found \subseteq DOMAIN machine.fns
  /\ \A at \in DOMAIN machine.fns : at[1] \in numbers <=> at \in found \union pending
  /\ \A at \in found \intersect Bridges : machine.fns[at].secondary \in numbers
  /\ \A n \in numbers : n = 0 \/ \E at \in found \intersect Bridges : machine.fns[at].secondary = n
  /\ 0 \in numbers /\ numbers \subseteq Reached(0)

Starts(calls) == \A k \in DOMAIN calls : calls[k].kind = "start" => Len(calls) = 1 /\ calls[k].bus = 1 /\ calls[k].dev = 0
Distinct(list) == \A k, l \in DOMAIN list : list[k].at = list[l].at => k = l

PciInv ==
  /\ buses \in Seq(Bus) /\ devices \in Seq(Structure) /\ scan \in Seq(Frame(Len(buses), Len(devices)))
  /\ Starts(scan)
  /\ Single(buses, scan)
  /\ Distinct(devices)
  /\ Coverage(Locations, Pending(buses, scan), Numbered)

(* What is left of a non-empty list of calls when the last one returns. *)
LEMMA OuterFacts ==
  ASSUME NEW F, NEW calls \in Seq(F), calls # <<>>
  PROVE  /\ Len(calls) \in Nat /\ Len(calls) > 0 /\ Innermost(calls) = calls[Len(calls)] /\ Innermost(calls) \in F
         /\ Outer(calls) \in Seq(F) /\ Len(Outer(calls)) = Len(calls) - 1
         /\ \A k \in 1 .. (Len(calls) - 1) : Outer(calls)[k] = calls[k]
<1>1. Len(calls) \in Nat /\ Len(calls) > 0
  OBVIOUS
<1>2. Outer(calls) \in Seq(F) /\ Len(Outer(calls)) = Len(calls) - 1
  <2>1. Outer(calls) \in Seq(F)
    BY <1>1 DEF Outer
  <2>2. Len(Outer(calls)) = Len(calls) - 1
    <3> DEFINE n == Len(calls) - 1
    <3>1. n \in Nat /\ n <= Len(calls)
      BY <1>1
    <3> HIDE DEF n
    <3>2. Len(SubSeq(calls, 1, n)) = n
      BY <3>1
    <3> QED
      BY <3>2, Zenon DEF Outer, n
  <2> QED
    BY <2>1, <2>2
<1>3. \A k \in 1 .. (Len(calls) - 1) : Outer(calls)[k] = calls[k]
  BY <1>1 DEF Outer
<1> QED
  BY <1>1, <1>2, <1>3 DEF Innermost

(* The call on top is replaced by one that is to look at less. *)
LEMMA Replaced ==
  ASSUME NEW list, NEW F, NEW calls \in Seq(F), calls # <<>>, NEW frame, Single(list, calls),
         \A at \in DOMAIN machine.fns : Pends(list, frame, at) => Pends(list, Innermost(calls), at)
  PROVE  LET new == Append(Outer(calls), frame)
         IN  /\ Single(list, new)
             /\ \A at \in DOMAIN machine.fns :
                  at \in Pending(list, new) <=>
                    at \in Pending(list, calls) /\ (Pends(list, Innermost(calls), at) => Pends(list, frame, at))
<1> DEFINE n == Len(calls)
           new == Append(Outer(calls), frame)
<1>1. n \in Nat /\ n > 0 /\ DOMAIN calls = 1 .. n /\ Innermost(calls) = calls[n]
  BY DEF Innermost
<1>2. DOMAIN new = 1 .. n /\ new[n] = frame /\ \A k \in 1 .. (n - 1) : new[k] = calls[k]
  <2>1. /\ Outer(calls) \in Seq(F \union {frame}) /\ Len(Outer(calls)) = n - 1
        /\ \A k \in 1 .. (n - 1) : Outer(calls)[k] = calls[k]
    BY OuterFacts
  <2> HIDE DEF n
  <2> QED
    BY <1>1, <2>1
<1> HIDE DEF n, new
<1>3. Single(list, new)
  <2> SUFFICES ASSUME NEW at \in DOMAIN machine.fns, NEW k \in 1 .. n, NEW l \in 1 .. n,
                      Pends(list, new[k], at), Pends(list, new[l], at)
               PROVE  k = l
    BY <1>2 DEF Single
  <2>1. \A m \in 1 .. n : Pends(list, new[m], at) => Pends(list, calls[m], at)
    BY <1>1, <1>2
  <2> QED
    BY <1>1, <2>1 DEF Single
<1>4. ASSUME NEW at \in DOMAIN machine.fns
      PROVE  at \in Pending(list, new) <=>
               at \in Pending(list, calls) /\ (Pends(list, Innermost(calls), at) => Pends(list, frame, at))
  <2>1. at \in Pending(list, new) <=> Pends(list, frame, at) \/ \E k \in 1 .. (n - 1) : Pends(list, calls[k], at)
    BY <1>1, <1>2 DEF Pending
  <2>2. at \in Pending(list, calls) <=> Pends(list, calls[n], at) \/ \E k \in 1 .. (n - 1) : Pends(list, calls[k], at)
    BY <1>1 DEF Pending
  <2>3. ASSUME NEW k \in 1 .. (n - 1), Pends(list, calls[k], at) PROVE ~Pends(list, calls[n], at)
    BY <1>1, <2>3 DEF Single
  <2> QED
    BY <1>1, <2>1, <2>2, <2>3
<1> QED
  BY <1>3, <1>4 DEF new

(* A call that is to look at what no other will is pushed. *)
LEMMA Pushed ==
  ASSUME NEW list, NEW F, NEW calls \in Seq(F), NEW frame, Single(list, calls),
         \A at \in DOMAIN machine.fns : Pends(list, frame, at) => at \notin Pending(list, calls)
  PROVE  LET new == Append(calls, frame)
         IN  /\ Single(list, new)
             /\ \A at \in DOMAIN machine.fns :
                  at \in Pending(list, new) <=> at \in Pending(list, calls) \/ Pends(list, frame, at)
<1> DEFINE n == Len(calls)
           new == Append(calls, frame)
<1>1. n \in Nat /\ DOMAIN calls = 1 .. n
  OBVIOUS
<1>2. DOMAIN new = 1 .. (n + 1) /\ new[n + 1] = frame /\ \A k \in 1 .. n : new[k] = calls[k]
  BY <1>1
<1> HIDE DEF n, new
<1>3. Single(list, new)
  <2> SUFFICES ASSUME NEW at \in DOMAIN machine.fns, NEW k \in 1 .. (n + 1), NEW l \in 1 .. (n + 1),
                      Pends(list, new[k], at), Pends(list, new[l], at)
               PROVE  k = l
    BY <1>2 DEF Single
  <2>1. CASE k \in 1 .. n /\ l \in 1 .. n
    BY <1>1, <1>2, <2>1, SMTT(30), SMTT(60) DEF Single
  <2>2. \A m \in 1 .. n : Pends(list, new[m], at) => at \in Pending(list, calls)
    BY <1>1, <1>2 DEF Pending
  <2> QED
    BY <1>1, <1>2, <2>1, <2>2, SMTT(30), SMTT(60)
<1>4. ASSUME NEW at \in DOMAIN machine.fns
      PROVE  at \in Pending(list, new) <=> at \in Pending(list, calls) \/ Pends(list, frame, at)
  BY <1>1, <1>2 DEF Pending
<1> QED
  BY <1>3, <1>4 DEF new

(* A call that has nothing left to look at returns. *)
LEMMA Popped ==
  ASSUME NEW list, NEW F, NEW calls \in Seq(F), calls # <<>>, Single(list, calls),
         \A at \in DOMAIN machine.fns : ~Pends(list, Innermost(calls), at)
  PROVE  Single(list, Outer(calls)) /\ Pending(list, Outer(calls)) = Pending(list, calls)
<1> DEFINE n == Len(calls)
           new == Outer(calls)
<1>1. n \in Nat /\ n > 0 /\ DOMAIN calls = 1 .. n /\ Innermost(calls) = calls[n]
  BY DEF Innermost
<1>2. DOMAIN new = 1 .. (n - 1) /\ \A k \in 1 .. (n - 1) : new[k] = calls[k]
  BY <1>1 DEF Outer
<1> HIDE DEF n, new
<1>3. Single(list, new)
  BY <1>1, <1>2 DEF Single
<1>4. Pending(list, new) = Pending(list, calls)
  <2>1. ASSUME NEW at \in DOMAIN machine.fns, NEW k \in 1 .. n, Pends(list, calls[k], at)
        PROVE  k \in 1 .. (n - 1)
    BY <1>1, <2>1
  <2> QED
    BY <1>1, <1>2, <2>1 DEF Pending
<1> QED
  BY <1>3, <1>4 DEF new

SameNumbers(list, other, n) == \A k \in 1 .. n : other[k].index = list[k].index

(* The lists of buses that agree on the numbers of the calls' buses. *)
LEMMA SamePending ==
  ASSUME NEW list, NEW other, NEW n \in Nat, NEW m, NEW calls \in Seq(Frame(n, m)),
         SameNumbers(list, other, n)
  PROVE  (Single(list, calls) <=> Single(other, calls)) /\ Pending(list, calls) = Pending(other, calls)
<1>1. \A k \in DOMAIN calls : calls[k].bus \in 1 .. n
  BY DEF Frame
<1>2. \A k \in DOMAIN calls : \A at : Pends(list, calls[k], at) <=> Pends(other, calls[k], at)
  BY <1>1, SMTT(30), SMTT(60) DEF Pends, SameNumbers
<1> QED
  BY <1>2 DEF Single, Pending

(* Every machine is one, and stays it. *)
Tree == machine \in Machines

(* What TopologyAssumption says of the machine the scan runs on. *)
LEMMA Places ==
  ASSUME Tree
  PROVE  /\ \A at \in DOMAIN machine.fns :
              /\ at = <<at[1], at[2], at[3]>> /\ at[1] \in Nat
              /\ at[2] \in 0 .. (DevSlots - 1) /\ at[3] \in 0 .. (FnSlots - 1)
              /\ machine.fns[at].secondary \in Nat
              /\ at[3] > 0 => <<at[1], at[2], 0>> \in DOMAIN machine.fns /\ machine.fns[<<at[1], at[2], 0>>].multi
         /\ <<0, 0, 0>> \in DOMAIN machine.fns
         /\ \A a, b \in Bridges : machine.fns[a].secondary # 0 /\ (machine.fns[a].secondary = machine.fns[b].secondary => a = b)
<1> DEFINE D == DOMAIN machine.fns
<1>1. /\ D \subseteq Nat \X (0 .. (DevSlots - 1)) \X (0 .. (FnSlots - 1))
      /\ <<0, 0, 0>> \in D
      /\ machine.fns \in [D -> [class : STRING, multi : BOOLEAN, secondary : Nat]]
      /\ \A at \in D : at[3] > 0 => <<at[1], at[2], 0>> \in D /\ machine.fns[<<at[1], at[2], 0>>].multi
      /\ \A a, b \in Bridges : machine.fns[a].secondary # 0 /\ (machine.fns[a].secondary = machine.fns[b].secondary => a = b)
  BY TopologyAssumption DEF Tree, Bridges
<1> QED
  BY <1>1, SpaceAssumption, SMTT(30), SMTT(60)

(* A function is found: the abstract step. *)
LEMMA FoundOne ==
  ASSUME Tree, NEW found, NEW pending, NEW numbers, Coverage(found, pending, numbers),
         NEW at \in pending, at \in DOMAIN machine.fns, NEW p2, NEW n2,
         n2 = numbers \union (IF at \in Bridges THEN {machine.fns[at].secondary} ELSE {}),
         \A x : x \in p2 <=> x \in DOMAIN machine.fns
                             /\ ((x \in pending /\ x # at) \/ (at \in Bridges /\ x[1] = machine.fns[at].secondary))
  PROVE  Coverage(found \union {at}, p2, n2)
<1> DEFINE sec == machine.fns[at].secondary
<1>1. at \notin found /\ at[1] \in numbers
  BY SMTT(30), SMTT(60) DEF Coverage
<1>2. ASSUME at \in Bridges PROVE sec \notin numbers /\ sec # 0
  BY <1>1, <1>2, Places, SMTT(30), SMTT(60) DEF Coverage
<1>3. (found \union {at}) \intersect p2 = {}
  BY <1>1, <1>2, SMTT(30), SMTT(60) DEF Coverage
<1>4. found \union {at} \subseteq DOMAIN machine.fns
  BY SMTT(30), SMTT(60) DEF Coverage
<1>5. ASSUME NEW x \in DOMAIN machine.fns
      PROVE  x[1] \in n2 <=> x \in found \union {at} \union p2
  BY <1>1, <1>2, SMTT(30), SMTT(60) DEF Coverage
<1>6. \A x \in (found \union {at}) \intersect Bridges : machine.fns[x].secondary \in n2
  BY DEF Coverage
<1>7. \A n \in n2 : n = 0 \/ \E x \in (found \union {at}) \intersect Bridges : machine.fns[x].secondary = n
  BY DEF Coverage
<1>8. 0 \in n2
  BY DEF Coverage
<1>9. n2 \subseteq Reached(0)
  <2>1. numbers \subseteq Reached(0)
    BY DEF Coverage
  <2>2. ASSUME at \in Bridges PROVE sec \in Reached(0)
    BY <1>1, <2>1, <2>2, Zenon DEF Reached, Bridges
  <2> QED
    BY <2>1, <2>2, SMTT(30), SMTT(60)
<1> QED
  BY <1>3, <1>4, <1>5, <1>6, <1>7, <1>8, <1>9, ZenonT(60) DEF Coverage

(* A call that is sound stays sound when the lists grow. *)
LEMMA FrameGrows ==
  ASSUME NEW n \in Nat, NEW m \in Nat, NEW n2 \in Nat, NEW m2 \in Nat, n <= n2, m <= m2
  PROVE  Frame(n, m) \subseteq Frame(n2, m2)
BY DEF Frame

(* The lists of buses: a device put in front of a bus's list, and the bus   *)
(* behind a bridge.                                                         *)
LEMMA DeviceOnBus ==
  ASSUME NEW list \in Seq(Bus), NEW b \in DOMAIN list, NEW id \in Nat
  PROVE  /\ new_device(list, b, id) \in Seq(Bus) /\ Len(new_device(list, b, id)) = Len(list)
         /\ \A k \in 1 .. Len(list) : new_device(list, b, id)[k].index = list[k].index
<1>1. list[b] \in Bus /\ list \in [1 .. Len(list) -> Bus] /\ Len(list) \in Nat
  OBVIOUS
<1>2. <<id>> \o list[b].dev_list \in Seq(Nat)
  BY <1>1 DEF Bus
<1>3. [list[b] EXCEPT !.dev_list = <<id>> \o @] \in Bus
  BY <1>1, <1>2, Zenon DEF Bus
<1>4. new_device(list, b, id) = [list EXCEPT ![b] = [list[b] EXCEPT !.dev_list = <<id>> \o @]]
  BY DEF new_device
<1>5. [list[b] EXCEPT !.dev_list = <<id>> \o @].index = list[b].index
  BY <1>1 DEF Bus
<1>6. new_device(list, b, id) \in [1 .. Len(list) -> Bus]
  BY <1>1, <1>3, <1>4
<1>7. new_device(list, b, id) \in Seq(Bus) /\ Len(new_device(list, b, id)) = Len(list)
  BY <1>1, <1>6, SMTT(30), SMTT(60)
<1> QED
  BY <1>1, <1>4, <1>5, <1>7, SMTT(30), SMTT(60)

(* check_function gives a bridge's secondary bus a structure, and changes   *)
(* no other bus's number.                                                   *)
LEMMA BusBehind ==
  ASSUME Tree, NEW list \in Seq(Bus), NEW at \in DOMAIN machine.fns
  PROVE  /\ list \o Behind(at) \in Seq(Bus)
         /\ Len(list \o Behind(at)) = (IF at \in Bridges THEN Len(list) + 1 ELSE Len(list))
         /\ at \in Bridges => (list \o Behind(at))[Len(list) + 1].index = machine.fns[at].secondary
         /\ \A k \in 1 .. Len(list) : (list \o Behind(at))[k].index = list[k].index
<1>1. CASE at \in Bridges
  <2> DEFINE bus == new_bus(machine.fns[at].secondary)
  <2>1. bus \in Bus /\ bus.index = machine.fns[at].secondary
    <3>1. machine.fns[at].secondary \in Nat
      BY Places, Zenon
    <3> QED
      BY <3>1 DEF new_bus, Bus
  <2>2. Behind(at) = <<bus>>
    BY <1>1 DEF Behind, Bridges, get_device_descriptor
  <2> HIDE DEF bus
  <2>3. list \o <<bus>> = Append(list, bus)
    BY <2>1
  <2> QED
    BY <1>1, <2>1, <2>2, <2>3, SMTT(30), SMTT(60)
<1>2. CASE at \notin Bridges
  <2>1. Behind(at) = <<>>
    BY <1>2 DEF Behind, Bridges, get_device_descriptor
  <2>2. list \o <<>> = list
    OBVIOUS
  <2> QED
    BY <1>2, <2>1, <2>2, SMTT(30), SMTT(60)
<1> QED
  BY <1>1, <1>2, SMTT(30), SMTT(60)

(* The structure of a new function, and the one it is linked to. *)
LEMMA NewDevice ==
  ASSUME NEW list \in Seq(Structure), NEW at \in DOMAIN machine.fns
  PROVE  LET new == Append(list, Device(at))
         IN  /\ new \in Seq(Structure) /\ Len(new) = Len(list) + 1 /\ new[Len(list) + 1].at = at
             /\ \A k \in 1 .. Len(list) : new[k].at = list[k].at
<1>1. Device(at) \in Structure /\ Device(at).at = at
  BY DEF Device, Structure
<1> QED
  BY <1>1

(* new_function adds one structure and changes the place of none. *)
LEMMA NewFunction ==
  ASSUME NEW list \in Seq(Structure), NEW at \in DOMAIN machine.fns, NEW d \in DOMAIN list
  PROVE  LET new == new_function(list, d, at)
         IN  /\ new \in Seq(Structure) /\ Len(new) = Len(list) + 1 /\ new[Len(list) + 1].at = at
             /\ \A k \in 1 .. Len(list) : new[k].at = list[k].at
<1> DEFINE linked == [list EXCEPT ![d].functions = <<Len(list) + 1>> \o @]
           owner  == [list[d] EXCEPT !.functions = <<Len(list) + 1>> \o @]
<1>1. list[d] \in Structure /\ list \in [1 .. Len(list) -> Structure] /\ Len(list) \in Nat
  OBVIOUS
<1>2. <<Len(list) + 1>> \o list[d].functions \in Seq(Nat)
  BY <1>1 DEF Structure
<1>3. owner \in Structure /\ owner.at = list[d].at
  BY <1>1, <1>2, Zenon DEF Structure
<1>4. linked = [list EXCEPT ![d] = owner]
  OBVIOUS
<1> HIDE DEF owner
<1>5. linked \in [1 .. Len(list) -> Structure]
  BY <1>1, <1>3, <1>4, SMTT(30), SMTT(60)
<1>6. linked \in Seq(Structure) /\ Len(linked) = Len(list)
  BY <1>1, <1>5
<1>7. \A k \in 1 .. Len(list) : linked[k].at = list[k].at
  BY <1>1, <1>3, <1>4
<1>8. new_function(list, d, at) = Append(linked, Device(at))
  BY DEF new_function
<1> HIDE DEF linked
<1> PICK new : new = Append(linked, Device(at))
  BY Zenon
<1>9. /\ new \in Seq(Structure) /\ Len(new) = Len(linked) + 1 /\ new[Len(linked) + 1].at = at
      /\ \A k \in 1 .. Len(linked) : new[k].at = linked[k].at
  BY <1>6, NewDevice, Zenon
<1>10. \A k \in 1 .. Len(list) : new[k].at = list[k].at
  BY <1>6, <1>7, <1>9
<1> QED
  BY <1>6, <1>8, <1>9, <1>10, Zenon


(* What a step adds to the lists that has found a function. *)
Lists ==
  /\ buses \in Seq(Bus) /\ devices \in Seq(Structure)
  /\ Len(buses) \in Nat /\ Len(devices) \in Nat
  /\ DOMAIN buses = 1 .. Len(buses) /\ DOMAIN devices = 1 .. Len(devices)

AddsDevice(at) ==
  /\ Len(devices') = Len(devices) + 1 /\ devices'[Len(devices) + 1].at = at
  /\ \A k \in 1 .. Len(devices) : devices'[k].at = devices[k].at

AddsBus(at) ==
  /\ Len(buses') = (IF at \in Bridges THEN Len(buses) + 1 ELSE Len(buses))
  /\ at \in Bridges => buses'[Len(buses) + 1].index = machine.fns[at].secondary
  /\ SameNumbers(buses, buses', Len(buses))

(* The calls without the function that was looked at. *)
Looked(calls, at) ==
  /\ Single(buses, calls)
  /\ \A x \in DOMAIN machine.fns : x \in Pending(buses, calls) <=> x \in Pending(buses, scan) /\ x # at
  /\ \A k \in DOMAIN calls : calls[k].kind # "start"

OnNumbered(places) == \A x \in places : x[1] \in Numbered

(* A new structure adds its place to the ones found, and none is found      *)
(* twice.                                                                   *)
LEMMA AddedDevice ==
  ASSUME Lists, Lists', UNCHANGED machine, NEW at, AddsDevice(at), at \notin Locations, Distinct(devices)
  PROVE  Locations' = Locations \union {at} /\ Distinct(devices')
<1>1. Locations' = Locations \union {at}
  <2> DEFINE n == Len(devices)
  <2>1. n \in Nat /\ DOMAIN devices = 1 .. n /\ DOMAIN devices' = 1 .. (n + 1)
    BY DEF Lists, AddsDevice
  <2>2. devices'[n + 1].at = at /\ \A k \in 1 .. n : devices'[k].at = devices[k].at
    BY DEF AddsDevice
  <2> HIDE DEF n
  <2>3. ASSUME NEW x \in Locations' PROVE x \in Locations \union {at}
    <3>1. PICK k \in 1 .. (n + 1) : x = devices'[k].at
      BY <2>1, <2>3, SMTT(30), SMTT(60) DEF Locations
    <3> QED
      BY <2>1, <2>2, <3>1, SMTT(30), SMTT(60) DEF Locations
  <2>4. ASSUME NEW x \in Locations \union {at} PROVE x \in Locations'
    <3>1. n + 1 \in DOMAIN devices' /\ 1 .. n \subseteq DOMAIN devices'
      BY <2>1
    <3> QED
      BY <2>1, <2>2, <3>1, <2>4, SMTT(30), SMTT(60) DEF Locations
  <2> QED
    BY <2>3, <2>4
<1>2. \A k \in 1 .. Len(devices) : devices[k].at # at
  BY SMTT(30), Zenon DEF Locations, Lists
<1>3. Distinct(devices')
  <2> DEFINE n == Len(devices)
  <2>1. n \in Nat /\ DOMAIN devices = 1 .. n /\ DOMAIN devices' = 1 .. (n + 1)
    BY DEF Lists, AddsDevice
  <2>2. devices'[n + 1].at = at /\ \A k \in 1 .. n : devices'[k].at = devices[k].at /\ devices[k].at # at
    BY <1>2 DEF AddsDevice
  <2>3. \A k, l \in 1 .. n : devices[k].at = devices[l].at => k = l
    BY <2>1 DEF Distinct
  <2> HIDE DEF n
  <2>4. \A k \in 1 .. (n + 1) : k \in 1 .. n \/ k = n + 1
    BY <2>1
  <2>5. \A k, l \in 1 .. (n + 1) : devices'[k].at = devices'[l].at => k = l
    BY <2>2, <2>3, <2>4, SMTT(30), SMTT(60)
  <2> QED
    BY <2>1, <2>5 DEF Distinct
<1> QED
  BY <1>1, <1>3

(* A new bus structure adds its number to the numbered buses. *)
LEMMA AddedBus ==
  ASSUME Lists, Lists', NEW at, AddsBus(at)
  PROVE  Numbered' = Numbered \union (IF at \in Bridges THEN {machine.fns[at].secondary} ELSE {})
<1> DEFINE n == Len(buses)
           N == Numbered \union (IF at \in Bridges THEN {machine.fns[at].secondary} ELSE {})
<1>1. n \in Nat /\ DOMAIN buses = 1 .. n /\ DOMAIN buses' = 1 .. (IF at \in Bridges THEN n + 1 ELSE n)
  BY DEF Lists, AddsBus
<1>2. /\ at \in Bridges => buses'[n + 1].index = machine.fns[at].secondary
      /\ \A k \in 1 .. n : buses'[k].index = buses[k].index
  BY DEF AddsBus, SameNumbers
<1> HIDE DEF n
<1>3. ASSUME NEW x \in Numbered' PROVE x \in N
  <2>1. PICK k \in DOMAIN buses' : x = buses'[k].index
    BY <1>3 DEF Numbered
  <2>2. k \in 1 .. n \/ (at \in Bridges /\ k = n + 1)
    BY <1>1
  <2> QED
    BY <1>1, <1>2, <2>1, <2>2, Zenon DEF Numbered
<1>4. ASSUME NEW x \in N PROVE x \in Numbered'
  <2>1. 1 .. n \subseteq DOMAIN buses' /\ (at \in Bridges => n + 1 \in DOMAIN buses')
    BY <1>1, SMTT(30), SMTT(60)
  <2> QED
    BY <1>1, <1>2, <2>1, <1>4, Zenon DEF Numbered
<1> QED
  BY <1>3, <1>4, SMTT(30), SMTT(60)

(* The bus behind a bridge that is still to be looked at has no structure   *)
(* yet.                                                                     *)
LEMMA BusIsNew ==
  ASSUME Tree, NEW pending, Coverage(Locations, pending, Numbered), NEW at \in pending \intersect Bridges
  PROVE  machine.fns[at].secondary \notin Numbered
<1>1. at \notin Locations
  BY DEF Coverage
<1>2. \A n \in Numbered : n = 0 \/ \E x \in Locations \intersect Bridges : machine.fns[x].secondary = n
  BY DEF Coverage
<1>3. \A a, b \in Bridges : machine.fns[a].secondary # 0 /\ (machine.fns[a].secondary = machine.fns[b].secondary => a = b)
  BY Places, Zenon
<1> QED
  BY <1>1, <1>2, <1>3, SMTT(30), SMTT(60)

(* What is pending after a function was found. *)
NowPending(calls, at) ==
  \A x : x \in Pending(buses', calls) <=>
    x \in DOMAIN machine.fns
    /\ ((x \in Pending(buses, scan) /\ x # at) \/ (at \in Bridges /\ x[1] = machine.fns[at].secondary))

NoStart(calls) == \A k \in DOMAIN calls : calls[k].kind # "start"

(* The call that looks at the new bus. *)
LEMMA BusIsPushed ==
  ASSUME Tree, Lists, Lists', NEW at \in Bridges, AddsBus(at), machine.fns[at].secondary \notin Numbered,
         NEW m \in Nat, NEW calls \in Seq(Frame(Len(buses), m)), Looked(calls, at),
         OnNumbered(Pending(buses, scan)), NEW new, new = Append(calls, Call("bus", Len(buses) + 1, 0, 0, 0))
  PROVE  /\ new \in Seq(Frame(Len(buses'), m)) /\ Single(buses', new)
         /\ NowPending(new, at) /\ NoStart(new)
<1> DEFINE frame == Call("bus", Len(buses) + 1, 0, 0, 0)
           sec == machine.fns[at].secondary
<1>1. Len(buses) \in Nat /\ Len(buses') = Len(buses) + 1
  BY SMTT(30), SMTT(60) DEF Lists, AddsBus
<1>2. frame \in Frame(Len(buses'), m) /\ frame.kind = "bus" /\ frame.bus = Len(buses) + 1 /\ frame.dev = 0
  BY <1>1, SpaceAssumption, SMTT(30), SMTT(60) DEF Frame, Call
<1>3. buses'[Len(buses) + 1].index = sec
  BY DEF AddsBus
<1> HIDE DEF frame
<1>4. \A x \in DOMAIN machine.fns : Pends(buses', frame, x) <=> x[1] = sec
  <2> SUFFICES ASSUME NEW x \in DOMAIN machine.fns PROVE Pends(buses', frame, x) <=> x[1] = sec
    OBVIOUS
  <2>1. x[2] \in 0 .. (DevSlots - 1)
    BY Places, Zenon
  <2>2. x[2] >= 0
    BY <2>1, SpaceAssumption, SMTT(30), SMTT(60)
  <2> QED
    BY <1>2, <1>3, <2>2, ZenonT(60) DEF Pends
<1>5. Single(buses', calls) /\ Pending(buses', calls) = Pending(buses, calls)
  <2>1. SameNumbers(buses, buses', Len(buses))
    BY SMTT(30), SMTT(60) DEF AddsBus
  <2> QED
    BY <1>1, <2>1, SamePending, ZenonT(60) DEF Looked
<1>6. \A x \in DOMAIN machine.fns : Pends(buses', frame, x) => x \notin Pending(buses', calls)
  BY <1>4, <1>5, SMTT(30), SMTT(60) DEF Looked, OnNumbered
<1>7. Single(buses', new) /\ \A x \in DOMAIN machine.fns :
        x \in Pending(buses', new) <=> x \in Pending(buses', calls) \/ Pends(buses', frame, x)
  BY <1>5, <1>6, Pushed, SMTT(30), SMTT(60) DEF frame
<1>8. calls \in Seq(Frame(Len(buses'), m))
  <2>1. Frame(Len(buses), m) \subseteq Frame(Len(buses'), m)
    BY <1>1, FrameGrows, SMTT(30), SMTT(60)
  <2> HIDE DEF Lists
  <2> QED
    BY <2>1, SMTT(30), SMTT(60)
<1>9. new \in Seq(Frame(Len(buses'), m))
  BY <1>2, <1>8, SMTT(30), SMTT(60) DEF frame
<1>10. \A x : x \in Pending(buses', new) <=>
              x \in DOMAIN machine.fns
              /\ ((x \in Pending(buses, scan) /\ x # at) \/ (at \in Bridges /\ x[1] = sec))
  <2>1. \A x \in Pending(buses', new) : x \in DOMAIN machine.fns
    BY SMTT(30), SMTT(60) DEF Pending
  <2> QED
    BY <1>4, <1>5, <1>7, <2>1, ZenonT(60) DEF Looked
<1>11. \A k \in DOMAIN new : new[k].kind # "start"
  BY <1>2, SMTT(30) DEF Looked, frame
<1> QED
  BY <1>7, <1>9, <1>10, <1>11, ZenonT(60) DEF NowPending, NoStart

(* The conjuncts of the invariant after a step, over the primed lists. *)
LEMMA InvNext ==
  ASSUME UNCHANGED machine, buses' \in Seq(Bus), devices' \in Seq(Structure),
         scan' \in Seq(Frame(Len(buses'), Len(devices'))), Starts(scan'), Single(buses', scan'), Distinct(devices'),
         Coverage(Locations', Pending(buses', scan'), Numbered')
  PROVE  PciInv'
<1>1. /\ buses' \in Seq(Bus') /\ devices' \in Seq(Structure')
      /\ scan' \in Seq(Frame(Len(buses), Len(devices))')
  BY DEF Bus, Structure, Frame
<1>2. Single(buses, scan)'
  BY Zenon DEF Single, Pends
<1>3. Pending(buses, scan)' = Pending(buses', scan')
  BY Zenon DEF Pending, Pends
<1>4. Bridges' = Bridges /\ Reached(0)' = Reached(0)
  BY DEF Bridges, Reached
<1>5. Coverage(Locations, Pending(buses, scan), Numbered)'
  BY <1>3, <1>4, Zenon DEF Coverage
<1> QED
  BY <1>1, <1>2, <1>5, Zenon DEF PciInv, Starts, Distinct

(* A function is found. *)
LEMMA FindKeeps ==
  ASSUME Tree, PciInv, UNCHANGED machine, Lists', devices' \in Seq(Structure),
         NEW at \in Pending(buses, scan), AddsDevice(at), AddsBus(at),
         NEW calls \in Seq(Frame(Len(buses), Len(devices'))), Looked(calls, at),
         scan' = calls \o check_bus(Behind(at), Len(buses) + 1)
  PROVE  PciInv'
<1>0. Lists
  BY SMTT(30), SMTT(60) DEF PciInv, Lists
<1>1. Coverage(Locations, Pending(buses, scan), Numbered)
  BY SMTT(30), SMTT(60) DEF PciInv
<1>2. at \in DOMAIN machine.fns /\ at \notin Locations
  BY <1>1 DEF Coverage, Pending
<1>3. Locations' = Locations \union {at} /\ Distinct(devices')
  BY <1>0, <1>2, AddedDevice, Zenon DEF PciInv
<1>4. Numbered' = Numbered \union (IF at \in Bridges THEN {machine.fns[at].secondary} ELSE {})
  BY <1>0, AddedBus, ZenonT(60)
<1>5. OnNumbered(Pending(buses, scan))
  BY <1>1, SMTT(30), SMTT(60) DEF Coverage, Pending, OnNumbered
<1>6. Len(devices') \in Nat /\ buses' \in Seq(Bus)
  BY DEF Lists, Bus
<1> DEFINE m == Len(devices')
<1> HIDE DEF m
<1>7. /\ scan' \in Seq(Frame(Len(buses'), m)) /\ Single(buses', scan')
      /\ NowPending(scan', at) /\ NoStart(scan')
  <2>1. CASE at \in Bridges
    <3>1. Behind(at) # <<>>
      BY <2>1, SMTT(30), SMTT(60) DEF Behind, Bridges, get_device_descriptor
    <3>2. scan' = Append(calls, Call("bus", Len(buses) + 1, 0, 0, 0))
      BY <3>1 DEF check_bus
    <3>3. machine.fns[at].secondary \notin Numbered
      BY <1>1, <2>1, BusIsNew, Zenon
    <3>4. calls \in Seq(Frame(Len(buses), m)) /\ m \in Nat
      BY <1>6, SMTT(30), SMTT(60) DEF m
    <3> QED
      BY <1>0, <1>5, <2>1, <3>2, <3>3, <3>4, BusIsPushed, ZenonT(60)
  <2>2. CASE at \notin Bridges
    <3>1. Behind(at) = <<>>
      BY <1>2, <2>2, Zenon DEF Behind, Bridges, get_device_descriptor
    <3>2. scan' = calls
      BY <3>1, SMTT(30) DEF check_bus
    <3>3. Len(buses') = Len(buses) /\ Len(buses) \in Nat /\ SameNumbers(buses, buses', Len(buses))
      BY <1>0, <2>2, Zenon DEF AddsBus, Lists
    <3>4. calls \in Seq(Frame(Len(buses), m))
      BY DEF m
    <3>5. Single(buses', calls) /\ Pending(buses', calls) = Pending(buses, calls)
      BY <3>3, <3>4, SamePending, ZenonT(60) DEF Looked
    <3>6. \A x \in Pending(buses, calls) : x \in DOMAIN machine.fns
      BY SMTT(30), Zenon DEF Pending
    <3> QED
      BY <2>2, <3>2, <3>3, <3>4, <3>5, <3>6, ZenonT(60) DEF Looked, NowPending, NoStart
  <2> QED
    BY <2>1, <2>2
<1>8. Starts(scan')
  BY <1>7, SMTT(30), SMTT(60) DEF Starts, NoStart
<1>9. Coverage(Locations', Pending(buses', scan'), Numbered')
  BY <1>1, <1>2, <1>3, <1>4, <1>7, FoundOne, ZenonT(60) DEF NowPending
<1> QED
  BY <1>3, <1>6, <1>7, <1>8, <1>9, InvNext, ZenonT(60) DEF m

(* Nothing is found, and nothing is looked over. *)
LEMMA PassKeeps ==
  ASSUME PciInv, UNCHANGED <<machine, buses, devices>>, scan' \in Seq(Frame(Len(buses), Len(devices))), Starts(scan'),
         Single(buses, scan'), \A x \in DOMAIN machine.fns : x \in Pending(buses, scan') <=> x \in Pending(buses, scan)
  PROVE  PciInv'
<1>1. Pending(buses', scan') = Pending(buses, scan)
  BY SMTT(30), SMTT(60) DEF Pending
<1>2. Locations' = Locations /\ Numbered' = Numbered
  BY SMTT(30), SMTT(60) DEF Locations, Numbered
<1> QED
  BY <1>1, <1>2, InvNext, ZenonT(60) DEF PciInv

(* The call that runs, and what the scan makes of it. *)
LEMMA RunningFacts ==
  ASSUME PciInv, scan # <<>>
  PROVE  /\ Running \in Frame(Len(buses), Len(devices)) /\ Running = Innermost(scan)
         /\ Running.bus \in DOMAIN buses /\ Running.dev \in 0 .. DevSlots /\ Running.fn \in 0 .. FnSlots
         /\ Running.kind \in {"start", "bus", "device"}
         /\ Running.kind = "device" => Running.self \in DOMAIN devices
         /\ Running.kind # "start" => NoStart(scan)
<1>1. scan \in Seq(Frame(Len(buses), Len(devices))) /\ buses \in Seq(Bus) /\ devices \in Seq(Structure)
  BY DEF PciInv
<1>2. Running = Innermost(scan)
  BY DEF Running
<1> HIDE DEF Running
<1>3. /\ Len(scan) \in Nat /\ Len(scan) > 0 /\ Innermost(scan) = scan[Len(scan)]
      /\ Innermost(scan) \in Frame(Len(buses), Len(devices))
  BY <1>1, OuterFacts, SMTT(30), SMTT(60)
<1>4. /\ Running.bus \in 1 .. Len(buses) /\ Running.dev \in 0 .. DevSlots /\ Running.fn \in 0 .. FnSlots
      /\ Running.kind \in {"start", "bus", "device"}
      /\ Running.kind = "device" => Running.self \in 1 .. Len(devices)
  BY <1>2, <1>3 DEF Frame
<1>5. DOMAIN buses = 1 .. Len(buses) /\ DOMAIN devices = 1 .. Len(devices) /\ DOMAIN scan = 1 .. Len(scan)
  BY <1>1
<1>6. Running.kind # "start" => NoStart(scan)
  <2> SUFFICES ASSUME NEW k \in DOMAIN scan, scan[k].kind = "start" PROVE Running.kind = "start"
    BY DEF NoStart
  <2>1. Len(scan) = 1
    BY DEF PciInv, Starts
  <2>2. k = Len(scan)
    BY <1>3, <1>5, <2>1, SMTT(30), SMTT(60)
  <2> QED
    BY <1>2, <1>3, <2>2, SMTT(30), SMTT(60)
<1> QED
  BY <1>2, <1>3, <1>4, <1>5, <1>6, SMTT(30), SMTT(60)

(* The call that runs goes on with the next place: what it has passed is    *)
(* all that is no longer pending.                                           *)
LEMMA GoesOn ==
  ASSUME PciInv, scan # <<>>, Running.kind # "start", NEW m \in Nat, Len(devices) <= m,
         NEW frame \in Frame(Len(buses), m), frame.kind = Running.kind,
         \A x \in DOMAIN machine.fns : Pends(buses, frame, x) => Pends(buses, Running, x)
  PROVE  /\ Advanced(frame) \in Seq(Frame(Len(buses), m)) /\ NoStart(Advanced(frame))
         /\ Single(buses, Advanced(frame))
         /\ \A x \in DOMAIN machine.fns :
              x \in Pending(buses, Advanced(frame)) <=>
                x \in Pending(buses, scan) /\ (Pends(buses, Running, x) => Pends(buses, frame, x))
<1>1. scan \in Seq(Frame(Len(buses), Len(devices))) /\ Len(buses) \in Nat /\ Len(devices) \in Nat /\ Single(buses, scan)
  BY SMTT(30), SMTT(60) DEF PciInv
<1>2. Running = Innermost(scan) /\ NoStart(scan)
  BY RunningFacts
<1>3. Advanced(frame) = Append(Outer(scan), frame)
  BY DEF Advanced
<1>4. /\ Single(buses, Advanced(frame))
      /\ \A x \in DOMAIN machine.fns :
           x \in Pending(buses, Advanced(frame)) <=>
             x \in Pending(buses, scan) /\ (Pends(buses, Running, x) => Pends(buses, frame, x))
  BY <1>1, <1>2, <1>3, Replaced, ZenonT(60)
<1>5. /\ Outer(scan) \in Seq(Frame(Len(buses), Len(devices))) /\ Len(Outer(scan)) = Len(scan) - 1
      /\ \A k \in 1 .. (Len(scan) - 1) : Outer(scan)[k] = scan[k]
  BY <1>1, OuterFacts, SMTT(30), SMTT(60)
<1> DEFINE rest == Outer(scan)
<1> HIDE DEF rest
<1>6. rest \in Seq(Frame(Len(buses), m))
  <2>1. Frame(Len(buses), Len(devices)) \subseteq Frame(Len(buses), m)
    BY <1>1, FrameGrows, SMTT(30), SMTT(60)
  <2> QED
    BY <1>5, <2>1, SMTT(30), SMTT(60) DEF rest
<1>7. Append(rest, frame) \in Seq(Frame(Len(buses), m))
  BY <1>6, SMTT(30), SMTT(60)
<1>8. NoStart(rest)
  <2>1. DOMAIN rest = 1 .. (Len(scan) - 1) /\ DOMAIN scan = 1 .. Len(scan) /\ Len(scan) \in Nat
    BY <1>1, <1>5, SMTT(30), SMTT(60) DEF rest
  <2> QED
    BY <1>2, <1>5, <2>1, SMTT(30), SMTT(60) DEF NoStart, rest
<1>9. NoStart(Append(rest, frame))
  BY <1>6, <1>8, SMTT(30), SMTT(60) DEF NoStart
<1> QED
  BY <1>3, <1>4, <1>7, <1>9, Zenon DEF rest

(* A call that has nothing left to look at returns and keeps the invariant. *)
LEMMA ReturnKeeps ==
  ASSUME PciInv, scan # <<>>, Running.kind # "start", UNCHANGED <<machine, buses, devices>>, scan' = Returned,
         \A x \in DOMAIN machine.fns : ~Pends(buses, Running, x)
  PROVE  PciInv'
<1>1. scan \in Seq(Frame(Len(buses), Len(devices))) /\ Single(buses, scan)
  BY SMTT(30), SMTT(60) DEF PciInv
<1>2. Running = Innermost(scan) /\ NoStart(scan)
  BY RunningFacts, SMTT(30), SMTT(60)
<1>3. scan' = Outer(scan)
  BY DEF Returned
<1>4. Single(buses, scan') /\ Pending(buses, scan') = Pending(buses, scan)
  BY <1>1, <1>2, <1>3, Popped, ZenonT(60)
<1>5. /\ scan' \in Seq(Frame(Len(buses), Len(devices))) /\ Len(scan') = Len(scan) - 1
      /\ \A k \in 1 .. (Len(scan) - 1) : scan'[k] = scan[k]
  BY <1>1, <1>3, OuterFacts, ZenonT(60)
<1>6. Starts(scan')
  <2>1. DOMAIN scan' = 1 .. (Len(scan) - 1) /\ DOMAIN scan = 1 .. Len(scan) /\ Len(scan) \in Nat
    BY <1>1, <1>5, SMTT(30), SMTT(60)
  <2> QED
    BY <1>2, <1>5, <2>1, SMTT(30), SMTT(60) DEF NoStart, Starts
<1> QED
  BY <1>4, <1>5, <1>6, PassKeeps, ZenonT(60)

(* Another function of a device exists only where its function 0 says so    *)
(* (header type bit 7).                                                     *)
LEMMA SameDevice ==
  ASSUME Tree, NEW b, NEW d, NEW x \in DOMAIN machine.fns, x[1] = b, x[2] = d, x # <<b, d, 0>>
  PROVE  <<b, d, 0>> \in DOMAIN machine.fns /\ machine.fns[<<b, d, 0>>].multi /\ x[3] \in Nat /\ x[3] >= 1
<1>1. /\ x = <<x[1], x[2], x[3]>> /\ x[3] \in 0 .. (FnSlots - 1)
      /\ x[3] > 0 => <<x[1], x[2], 0>> \in DOMAIN machine.fns /\ machine.fns[<<x[1], x[2], 0>>].multi
  BY Places, SMTT(30), SMTT(60)
<1>2. x[3] # 0
  BY <1>1
<1> QED
  BY <1>1, <1>2, SpaceAssumption, SMTT(30), SMTT(60)

DeviceAt == <<buses[Running.bus].index, Running.dev, 0>>

DeviceCalls ==
  Advanced([Running EXCEPT !.dev = @ + 1])
  \o (IF machine.fns[DeviceAt].multi THEN <<Call("device", Running.bus, Running.dev, 1, Len(devices) + 1)>> ELSE <<>>)

(* A device that answers: its function 0 is found, and its others are       *)
(* pending when it has several.                                             *)
LEMMA DeviceLooked ==
  ASSUME Tree, PciInv, scan # <<>>, Running.kind = "bus", Running.dev < DevSlots, DeviceAt \in DOMAIN machine.fns,
         NEW at, at = DeviceAt, NEW calls, calls = DeviceCalls
  PROVE  at \in Pending(buses, scan) /\ calls \in Seq(Frame(Len(buses), Len(devices) + 1)) /\ Looked(calls, at)
<1> PICK run : run = Running
  BY SMTT(30), SMTT(60)
<1> DEFINE frame == [run EXCEPT !.dev = @ + 1]
           next  == Advanced(frame)
           more  == Call("device", run.bus, run.dev, 1, Len(devices) + 1)
           m     == Len(devices) + 1
           b     == buses[run.bus].index
           d     == run.dev
<1>0. Len(devices) \in Nat /\ m \in Nat /\ Len(devices) <= m /\ Len(buses) \in Nat
  BY SMTT(30), SMTT(60) DEF PciInv
<1>1. /\ run \in Frame(Len(buses), Len(devices)) /\ run = Innermost(scan) /\ d \in 0 .. DevSlots
      /\ run.bus \in 1 .. Len(buses)
  BY RunningFacts DEF Frame
<1>2. frame \in Frame(Len(buses), m) /\ frame.kind = "bus" /\ frame.bus = run.bus /\ frame.dev = d + 1
  BY <1>0, <1>1, SpaceAssumption, SMTT(30), SMTT(60) DEF Frame
<1>3. more \in Frame(Len(buses), m) /\ more.kind = "device" /\ more.bus = run.bus /\ more.dev = d /\ more.fn = 1
  BY <1>0, <1>1, SpaceAssumption, SMTT(30), SMTT(60) DEF Frame, Call
<1> HIDE DEF frame, more
<1>4. ASSUME NEW x \in DOMAIN machine.fns
      PROVE  /\ Pends(buses, run, x) <=> x[1] = b /\ x[2] >= d
             /\ Pends(buses, frame, x) <=> x[1] = b /\ x[2] >= d + 1
             /\ Pends(buses, more, x) <=> x[1] = b /\ x[2] = d /\ x[3] >= 1
             /\ x[2] \in Nat /\ x[3] \in Nat
  <2>1. x[2] \in 0 .. (DevSlots - 1) /\ x[3] \in 0 .. (FnSlots - 1)
    BY Places, Zenon
  <2> QED
    BY <1>2, <1>3, <2>1, SpaceAssumption, SMTT(30), SMTT(60) DEF Pends
<1>5. d \in Nat
  BY <1>1, SMTT(30), SMTT(60)
<1>6. at = <<b, d, 0>> /\ at[1] = b /\ at[2] = d /\ at[3] = 0
  BY DEF DeviceAt
<1> HIDE DEF b, d, m
<1>7. /\ next \in Seq(Frame(Len(buses), m)) /\ NoStart(next) /\ Single(buses, next)
      /\ \A x \in DOMAIN machine.fns :
           x \in Pending(buses, next) <=>
             x \in Pending(buses, scan) /\ (Pends(buses, run, x) => Pends(buses, frame, x))
  <2>1. \A x \in DOMAIN machine.fns : Pends(buses, frame, x) => Pends(buses, run, x)
    BY <1>4, <1>5, SMTT(30), SMTT(60)
  <2> QED
    BY <1>0, <1>2, <2>1, GoesOn, ZenonT(60)
<1> HIDE DEF next
<1>8. \A x \in DOMAIN machine.fns : Pends(buses, run, x) => x \in Pending(buses, scan)
  <2>1. scan \in Seq(Frame(Len(buses), Len(devices)))
    BY SMTT(30), SMTT(60) DEF PciInv
  <2>2. Len(scan) \in DOMAIN scan /\ run = scan[Len(scan)]
    BY <1>1, <2>1, OuterFacts, SMTT(30), SMTT(60)
  <2> QED
    BY <2>2, SMTT(30), SMTT(60) DEF Pending
<1>9. at \in Pending(buses, scan)
  BY <1>4, <1>5, <1>6, <1>8, SMTT(30), SMTT(60)
<1>10. ASSUME NEW x \in DOMAIN machine.fns
       PROVE  x \in Pending(buses, next) <=> x \in Pending(buses, scan) /\ ~(x[1] = b /\ x[2] = d)
  BY <1>4, <1>5, <1>7, SMTT(30), SMTT(60)
<1>11. CASE ~machine.fns[at].multi
  <2>1. calls = next
    BY <1>7, <1>11, SMTT(30), SMTT(60) DEF next, frame, DeviceCalls
  <2>2. \A x \in DOMAIN machine.fns : x[1] = b /\ x[2] = d <=> x = at
    BY <1>6, <1>11, SameDevice, Zenon
  <2>3. Looked(calls, at)
    BY <1>7, <1>10, <2>1, <2>2, Zenon DEF Looked, NoStart
  <2> QED
    BY <1>7, <1>9, <2>1, <2>3, ZenonT(60) DEF m
<1>12. CASE machine.fns[at].multi
  <2>1. calls = Append(next, more)
    BY <1>7, <1>12, SMTT(30), SMTT(60) DEF next, frame, more, DeviceCalls
  <2>2. \A x \in DOMAIN machine.fns : Pends(buses, more, x) => x \notin Pending(buses, next)
    BY <1>4, <1>10, Zenon
  <2>3. Single(buses, calls) /\ \A x \in DOMAIN machine.fns :
          x \in Pending(buses, calls) <=> x \in Pending(buses, next) \/ Pends(buses, more, x)
    BY <1>7, <2>1, <2>2, Pushed, ZenonT(60)
  <2>4. calls \in Seq(Frame(Len(buses), m))
    BY <1>3, <1>7, <2>1, SMTT(30), SMTT(60)
  <2>5. \A k \in DOMAIN calls : calls[k].kind # "start"
    BY <1>3, <1>7, <2>1, SMTT(30), SMTT(60) DEF NoStart
  <2>6. \A x \in DOMAIN machine.fns : x[1] = b /\ x[2] = d => x = at \/ x[3] >= 1
    BY <1>6, SameDevice, Zenon
  <2>7. ASSUME NEW x \in DOMAIN machine.fns
        PROVE  x \in Pending(buses, calls) <=> x \in Pending(buses, scan) /\ x # at
    <3>1. x \in Pending(buses, calls) <=>
            (x \in Pending(buses, scan) /\ ~(x[1] = b /\ x[2] = d)) \/ (x[1] = b /\ x[2] = d /\ x[3] >= 1)
      BY <1>4, <1>10, <2>3, ZenonT(60)
    <3>2. x[1] = b /\ x[2] = d => x \in Pending(buses, scan)
      BY <1>4, <1>5, <1>8, SMTT(30), SMTT(60)
    <3>3. x = at => x[1] = b /\ x[2] = d /\ ~(x[3] >= 1)
      BY <1>6
    <3> QED
      BY <2>6, <3>1, <3>2, <3>3, Zenon
  <2>8. Looked(calls, at)
    BY <2>3, <2>5, <2>7, Zenon DEF Looked
  <2> QED
    BY <1>9, <2>4, <2>8, Zenon DEF m
<1> QED
  BY <1>11, <1>12, ZenonT(60)

FunctionAt == <<buses[Running.bus].index, Running.dev, Running.fn>>

FunctionCalls == Advanced([Running EXCEPT !.fn = @ + 1])

(* The next function of a device that has several. *)
LEMMA FunctionLooked ==
  ASSUME Tree, PciInv, scan # <<>>, Running.kind = "device", Running.fn < FnSlots,
         NEW at, at = FunctionAt, NEW calls, calls = FunctionCalls
  PROVE  /\ calls \in Seq(Frame(Len(buses), Len(devices)))
         /\ Looked(calls, at)
         /\ at \in DOMAIN machine.fns => at \in Pending(buses, scan)
<1> PICK run : run = Running
  OBVIOUS
<1> DEFINE frame == [run EXCEPT !.fn = @ + 1]
           next  == Advanced(frame)
           b     == buses[run.bus].index
           d     == run.dev
           f     == run.fn
<1>0. Len(devices) \in Nat /\ Len(buses) \in Nat
  BY SMTT(30), SMTT(60) DEF PciInv
<1>1. /\ run \in Frame(Len(buses), Len(devices)) /\ run = Innermost(scan) /\ d \in 0 .. DevSlots /\ f \in 0 .. FnSlots
      /\ run.bus \in 1 .. Len(buses)
  BY RunningFacts DEF Frame
<1>2. frame \in Frame(Len(buses), Len(devices)) /\ frame.kind = "device" /\ frame.bus = run.bus /\ frame.dev = d /\ frame.fn = f + 1
  BY <1>0, <1>1, SpaceAssumption, SMTT(30), SMTT(60) DEF Frame
<1> HIDE DEF frame
<1>4. ASSUME NEW x \in DOMAIN machine.fns
      PROVE  /\ Pends(buses, run, x) <=> x[1] = b /\ x[2] = d /\ x[3] >= f
             /\ Pends(buses, frame, x) <=> x[1] = b /\ x[2] = d /\ x[3] >= f + 1
             /\ x[2] \in Nat /\ x[3] \in Nat /\ x = <<x[1], x[2], x[3]>>
  <2>1. x[2] \in 0 .. (DevSlots - 1) /\ x[3] \in 0 .. (FnSlots - 1) /\ x = <<x[1], x[2], x[3]>>
    BY Places, Zenon
  <2>2. Pends(buses, run, x) <=> x[1] = b /\ x[2] = d /\ x[3] >= f
    BY SMTT(30), SMTT(60) DEF Pends
  <2>3. Pends(buses, frame, x) <=> x[1] = b /\ x[2] = d /\ x[3] >= f + 1
    BY <1>2, SMTT(30), SMTT(60) DEF Pends
  <2> QED
    BY <2>1, <2>2, <2>3, SpaceAssumption, SMTT(30), SMTT(60)
<1>5. d \in Nat /\ f \in Nat
  BY <1>1, SpaceAssumption, SMTT(30), SMTT(60)
<1>6. at = <<b, d, f>> /\ at[1] = b /\ at[2] = d /\ at[3] = f
  BY SMTT(30), SMTT(60) DEF FunctionAt
<1> HIDE DEF b, d, f
<1>7. /\ next \in Seq(Frame(Len(buses), Len(devices))) /\ NoStart(next) /\ Single(buses, next)
      /\ \A x \in DOMAIN machine.fns :
           x \in Pending(buses, next) <=>
             x \in Pending(buses, scan) /\ (Pends(buses, run, x) => Pends(buses, frame, x))
  <2>1. \A x \in DOMAIN machine.fns : Pends(buses, frame, x) => Pends(buses, run, x)
    BY <1>4, <1>5, SMTT(30), SMTT(60)
  <2> QED
    BY <1>0, <1>2, <2>1, GoesOn, SMTT(30), SMTT(60)
<1> HIDE DEF next
<1>8. \A x \in DOMAIN machine.fns : Pends(buses, run, x) => x \in Pending(buses, scan)
  <2>1. scan \in Seq(Frame(Len(buses), Len(devices)))
    BY SMTT(30), SMTT(60) DEF PciInv
  <2>2. Len(scan) \in DOMAIN scan /\ run = scan[Len(scan)]
    BY <1>1, <2>1, OuterFacts, SMTT(30), SMTT(60)
  <2> QED
    BY <2>2, SMTT(30), SMTT(60) DEF Pending
<1>9. at \in DOMAIN machine.fns => at \in Pending(buses, scan)
  BY <1>4, <1>5, <1>6, <1>8, SMTT(30), SMTT(60)
<1>10. ASSUME NEW x \in DOMAIN machine.fns
       PROVE  x \in Pending(buses, next) <=> x \in Pending(buses, scan) /\ x # at
  <2>1. Pends(buses, run, x) /\ ~Pends(buses, frame, x) <=> x = at
    BY <1>4, <1>5, <1>6, SMTT(30), SMTT(60)
  <2> QED
    BY <1>7, <2>1, ZenonT(60)
<1>11. calls = next
  BY DEF next, frame, FunctionCalls
<1>12. Looked(calls, at)
  BY <1>7, <1>10, <1>11, ZenonT(60) DEF Looked, NoStart
<1> QED
  BY <1>7, <1>9, <1>11, <1>12, Zenon

(* The loop over the functions of a device (check_device) keeps the         *)
(* invariant.                                                               *)
LEMMA OtherFunctionKeeps ==
  ASSUME Tree, PciInv, OtherFunction
  PROVE  PciInv'
<1> PICK at : at = FunctionAt
  OBVIOUS
<1> PICK calls : calls = FunctionCalls
  OBVIOUS
<1> PICK self : self = Running.self
  OBVIOUS
<1>1. scan # <<>> /\ Running.kind = "device" /\ UNCHANGED machine
  BY SMTT(30), SMTT(60) DEF OtherFunction
<1>2. Running.fn \in 0 .. FnSlots /\ self \in DOMAIN devices
  BY <1>1, RunningFacts
<1>3. CASE Running.fn = FnSlots
  <2>1. scan' = Returned /\ UNCHANGED <<machine, buses, devices>>
    <3>1. ~(Running.fn < FnSlots)
      BY <1>3, SpaceAssumption, SMTT(30), SMTT(60)
    <3> QED
      BY <1>3, <3>1, Zenon DEF OtherFunction
  <2>2. ASSUME NEW x \in DOMAIN machine.fns PROVE ~Pends(buses, Running, x)
    <3>1. x[3] \in 0 .. (FnSlots - 1)
      BY Places, Zenon
    <3> QED
      BY <1>1, <1>3, <3>1, SpaceAssumption, SMTT(30), SMTT(60) DEF Pends
  <2> QED
    BY <1>1, <2>1, <2>2, ReturnKeeps, Zenon
<1>4. CASE Running.fn < FnSlots /\ at \notin DOMAIN machine.fns
  <2>1. Running.fn # FnSlots /\ ~Present(FunctionAt)
    BY <1>2, <1>4, SpaceAssumption, SMTT(30), SMTT(60) DEF Present
  <2>2. scan' = calls /\ UNCHANGED <<machine, buses, devices>>
    BY <1>4, <2>1, Zenon DEF OtherFunction, FunctionCalls, FunctionAt
  <2>3. calls \in Seq(Frame(Len(buses), Len(devices))) /\ Looked(calls, at)
    BY <1>1, <1>4, FunctionLooked, Zenon
  <2>4. \A x \in DOMAIN machine.fns : x \in Pending(buses, calls) <=> x \in Pending(buses, scan)
    BY <1>4, <2>3, ZenonT(60) DEF Looked
  <2>5. Starts(calls) /\ Single(buses, calls)
    BY <2>3, SMTT(30), SMTT(60) DEF Starts, Looked
  <2> QED
    BY <2>2, <2>3, <2>4, <2>5, PassKeeps, ZenonT(60)
<1>5. CASE Running.fn < FnSlots /\ at \in DOMAIN machine.fns
  <2>1. Running.fn # FnSlots /\ Present(FunctionAt)
    BY <1>2, <1>5, SpaceAssumption, SMTT(30), SMTT(60) DEF Present
  <2>2. /\ devices' = new_function(devices, self, at) /\ buses' = buses \o Behind(at)
        /\ scan' = calls \o check_bus(Behind(at), Len(buses) + 1)
    BY <1>5, <2>1, Zenon DEF OtherFunction, FunctionCalls, FunctionAt
  <2>3. /\ calls \in Seq(Frame(Len(buses), Len(devices))) /\ Looked(calls, at) /\ at \in Pending(buses, scan)
    BY <1>1, <1>5, FunctionLooked, Zenon
  <2>4. buses \in Seq(Bus) /\ devices \in Seq(Structure)
    BY DEF PciInv
  <2>5. /\ devices' \in Seq(Structure) /\ Len(devices') = Len(devices) + 1 /\ devices'[Len(devices) + 1].at = at
        /\ \A k \in 1 .. Len(devices) : devices'[k].at = devices[k].at
    <3> PICK new : new = new_function(devices, self, at)
      BY SMTT(30)
    <3>1. /\ new \in Seq(Structure) /\ Len(new) = Len(devices) + 1 /\ new[Len(devices) + 1].at = at
          /\ \A k \in 1 .. Len(devices) : new[k].at = devices[k].at
      BY <1>2, <1>5, <2>4, NewFunction, ZenonT(60)
    <3>2. devices' = new
      BY <2>2, Zenon
    <3> QED
      BY <3>1, <3>2, Zenon
  <2>6. /\ buses' \in Seq(Bus)
        /\ Len(buses') = (IF at \in Bridges THEN Len(buses) + 1 ELSE Len(buses))
        /\ at \in Bridges => buses'[Len(buses) + 1].index = machine.fns[at].secondary
        /\ \A k \in 1 .. Len(buses) : buses'[k].index = buses[k].index
    BY <1>5, <2>2, <2>4, BusBehind, Zenon
  <2>7. AddsDevice(at) /\ AddsBus(at)
    BY <2>5, <2>6, Zenon DEF AddsDevice, AddsBus, SameNumbers
  <2>8. Lists'
    BY <1>1, <2>5, <2>6, SMTT(30), SMTT(60) DEF Lists, Bus, Structure
  <2>9. calls \in Seq(Frame(Len(buses), Len(devices')))
    <3>1. Len(buses) \in Nat /\ Len(devices) \in Nat
      BY <2>4, SMTT(30), SMTT(60)
    <3>2. Frame(Len(buses), Len(devices)) \subseteq Frame(Len(buses), Len(devices'))
      BY <2>5, <3>1, FrameGrows, SMTT(30), SMTT(60)
    <3> QED
      BY <2>3, <3>2, SMTT(30), SMTT(60)
  <2> QED
    BY <1>1, <2>2, <2>3, <2>5, <2>7, <2>8, <2>9, FindKeeps, ZenonT(60)
<1> QED
  BY <1>2, <1>3, <1>4, <1>5, SpaceAssumption, SMTT(30), SMTT(60)

(* The visit of one device of a bus (check_device) keeps the invariant. *)
LEMMA check_deviceKeeps ==
  ASSUME Tree, PciInv, check_device
  PROVE  PciInv'
<1> PICK at : at = DeviceAt
  OBVIOUS
<1> PICK calls : calls = DeviceCalls
  OBVIOUS
<1> PICK bus : bus = Running.bus
  OBVIOUS
<1> PICK id : id = Len(devices) + 1
  BY SMTT(30), SMTT(60)
<1>1. scan # <<>> /\ Running.kind = "bus" /\ UNCHANGED machine
  BY SMTT(30), SMTT(60) DEF check_device
<1>2. Running.dev \in 0 .. DevSlots /\ bus \in DOMAIN buses /\ Running.bus \in 1 .. Len(buses)
  BY <1>1, RunningFacts DEF Frame
<1>3. CASE Running.dev = DevSlots
  <2>1. scan' = Returned /\ UNCHANGED <<machine, buses, devices>>
    <3>1. ~(Running.dev < DevSlots)
      BY <1>3, SpaceAssumption, SMTT(30), SMTT(60)
    <3> QED
      BY <1>3, <3>1, Zenon DEF check_device
  <2>2. ASSUME NEW x \in DOMAIN machine.fns PROVE ~Pends(buses, Running, x)
    <3>1. x[2] \in 0 .. (DevSlots - 1)
      BY Places, Zenon
    <3> QED
      BY <1>1, <1>3, <3>1, SpaceAssumption, SMTT(30), SMTT(60) DEF Pends
  <2> QED
    BY <1>1, <2>1, <2>2, ReturnKeeps, Zenon
<1>4. CASE Running.dev < DevSlots /\ at \notin DOMAIN machine.fns
  <2> DEFINE frame == [Running EXCEPT !.dev = @ + 1]
  <2>1. Running.dev # DevSlots /\ ~Present(DeviceAt)
    BY <1>2, <1>4, SpaceAssumption, SMTT(30), SMTT(60) DEF Present
  <2>2. scan' = Advanced(frame) /\ UNCHANGED <<machine, buses, devices>>
    BY <1>4, <2>1, ZenonT(60) DEF check_device, DeviceAt
  <2>3. Running \in Frame(Len(buses), Len(devices)) /\ Len(devices) \in Nat
    BY <1>1, RunningFacts, SMTT(30), SMTT(60) DEF PciInv
  <2>4. /\ frame \in Frame(Len(buses), Len(devices)) /\ frame.kind = "bus" /\ frame.bus = Running.bus
        /\ frame.dev = Running.dev + 1
    BY <1>1, <1>2, <1>4, <2>3, SpaceAssumption, SMTT(30), SMTT(60) DEF Frame
  <2> HIDE DEF frame
  <2>5. ASSUME NEW x \in DOMAIN machine.fns
        PROVE  Pends(buses, frame, x) <=> Pends(buses, Running, x)
    <3>1. x[2] \in 0 .. (DevSlots - 1)
      BY Places, Zenon
    <3>2. Pends(buses, Running, x) <=> x[1] = buses[Running.bus].index /\ x[2] >= Running.dev
      BY <1>1, SMTT(30), SMTT(60) DEF Pends
    <3>3. Pends(buses, frame, x) <=> x[1] = buses[Running.bus].index /\ x[2] >= Running.dev + 1
      BY <2>4, SMTT(30) DEF Pends
    <3>4. x[1] = buses[Running.bus].index => x[2] # Running.dev
      BY <1>4, SameDevice, ZenonT(60) DEF DeviceAt
    <3> QED
      BY <1>2, <3>1, <3>2, <3>3, <3>4, SpaceAssumption, SMTT(30), SMTT(60)
  <2>6. /\ Advanced(frame) \in Seq(Frame(Len(buses), Len(devices))) /\ NoStart(Advanced(frame))
        /\ Single(buses, Advanced(frame))
        /\ \A x \in DOMAIN machine.fns :
             x \in Pending(buses, Advanced(frame)) <=>
               x \in Pending(buses, scan) /\ (Pends(buses, Running, x) => Pends(buses, frame, x))
    BY <1>1, <2>3, <2>4, <2>5, GoesOn, SMTT(30), SMTT(60)
  <2>7. Starts(scan') /\ \A x \in DOMAIN machine.fns : x \in Pending(buses, scan') <=> x \in Pending(buses, scan)
    BY <2>2, <2>5, <2>6, Zenon DEF Starts, NoStart
  <2> QED
    BY <2>2, <2>6, <2>7, PassKeeps, ZenonT(60)
<1>5. CASE Running.dev < DevSlots /\ at \in DOMAIN machine.fns
  <2>1. Running.dev # DevSlots /\ Present(DeviceAt)
    BY <1>2, <1>5, SpaceAssumption, SMTT(30), SMTT(60) DEF Present
  <2>2. /\ devices' = Append(devices, Device(at)) /\ buses' = new_device(buses, bus, id) \o Behind(at)
        /\ scan' = calls \o check_bus(Behind(at), Len(buses) + 1)
    BY <1>5, <2>1, Zenon DEF check_device, DeviceCalls, DeviceAt, get_device_descriptor
  <2>3. /\ calls \in Seq(Frame(Len(buses), Len(devices) + 1)) /\ Looked(calls, at) /\ at \in Pending(buses, scan)
    BY <1>1, <1>5, DeviceLooked, ZenonT(60)
  <2>4. buses \in Seq(Bus) /\ devices \in Seq(Structure) /\ Len(devices) \in Nat /\ Len(buses) \in Nat
    BY DEF PciInv
  <2>5. /\ devices' \in Seq(Structure) /\ Len(devices') = Len(devices) + 1 /\ devices'[Len(devices) + 1].at = at
        /\ \A k \in 1 .. Len(devices) : devices'[k].at = devices[k].at
    BY <1>5, <2>2, <2>4, NewDevice, ZenonT(60)
  <2> DEFINE list == new_device(buses, bus, id)
  <2>6. list \in Seq(Bus) /\ Len(list) = Len(buses) /\ \A k \in 1 .. Len(buses) : list[k].index = buses[k].index
    <3>1. id \in Nat
      BY <2>4, SMTT(30), SMTT(60)
    <3> QED
      BY <1>2, <2>4, <3>1, DeviceOnBus, ZenonT(60)
  <2> HIDE DEF list
  <2>7. /\ buses' \in Seq(Bus)
        /\ Len(buses') = (IF at \in Bridges THEN Len(buses) + 1 ELSE Len(buses))
        /\ at \in Bridges => buses'[Len(buses) + 1].index = machine.fns[at].secondary
        /\ \A k \in 1 .. Len(buses) : buses'[k].index = buses[k].index
    <3>1. buses' = list \o Behind(at)
      BY <2>2, SMTT(30) DEF list
    <3>2. /\ list \o Behind(at) \in Seq(Bus)
          /\ Len(list \o Behind(at)) = (IF at \in Bridges THEN Len(list) + 1 ELSE Len(list))
          /\ at \in Bridges => (list \o Behind(at))[Len(list) + 1].index = machine.fns[at].secondary
          /\ \A k \in 1 .. Len(list) : (list \o Behind(at))[k].index = list[k].index
      BY <1>5, <2>6, BusBehind, Zenon
    <3> QED
      BY <2>6, <3>1, <3>2, ZenonT(60)
  <2>8. AddsDevice(at) /\ AddsBus(at)
    BY <2>5, <2>7, ZenonT(60) DEF AddsDevice, AddsBus, SameNumbers
  <2>9. Lists'
    BY <1>1, <2>5, <2>7, SMTT(30), SMTT(60) DEF Lists, Bus, Structure
  <2> QED
    BY <1>1, <2>2, <2>3, <2>5, <2>8, <2>9, FindKeeps, ZenonT(60)
<1> QED
  BY <1>2, <1>3, <1>4, <1>5, SpaceAssumption, SMTT(30), SMTT(60)

(* The start of the scan on a host bridge of one function keeps the         *)
(* invariant.                                                               *)
LEMMA scan_pci_spaceKeeps ==
  ASSUME Tree, PciInv, scan_pci_space, ~machine.fns[<<0, 0, 0>>].multi
  PROVE  PciInv'
<1> DEFINE frame == Call("bus", 1, 0, 0, 0)
<1>1. scan # <<>> /\ Running.kind = "start" /\ UNCHANGED <<machine, buses, devices>> /\ scan' = <<frame>>
  BY SMTT(30), SMTT(60) DEF scan_pci_space, get_device_descriptor
<1>2. /\ Running = Innermost(scan) /\ Running \in Frame(Len(buses), Len(devices))
      /\ scan \in Seq(Frame(Len(buses), Len(devices))) /\ Len(buses) \in Nat /\ Len(devices) \in Nat
  BY <1>1, RunningFacts, SMTT(30), SMTT(60) DEF PciInv
<1>3. Len(scan) \in Nat /\ Len(scan) > 0 /\ Innermost(scan) = scan[Len(scan)]
  BY <1>1, <1>2, OuterFacts, ZenonT(60)
<1>4. Len(scan) \in DOMAIN scan
  BY <1>2, <1>3, SMTT(30), SMTT(60)
<1>5. Len(scan) = 1 /\ scan[1].kind = "start" /\ scan[1].bus = 1 /\ scan[1].dev = 0 /\ DOMAIN scan = {1}
  <2>1. Len(scan) = 1 /\ scan[Len(scan)].bus = 1 /\ scan[Len(scan)].dev = 0
    BY <1>1, <1>2, <1>3, <1>4, ZenonT(60) DEF PciInv, Starts
  <2> QED
    BY <1>1, <1>2, <1>3, <2>1, SMTT(30), SMTT(60)
<1>6. frame \in Frame(Len(buses), Len(devices)) /\ frame.kind = "bus" /\ frame.bus = 1 /\ frame.dev = 0
  <2>1. 1 \in 1 .. Len(buses)
    BY <1>2, <1>3, <1>5, ZenonT(60) DEF Frame
  <2> QED
    BY <2>1, SpaceAssumption, SMTT(30), SMTT(60) DEF Frame, Call
<1> HIDE DEF frame
<1>7. scan' \in Seq(Frame(Len(buses), Len(devices))) /\ DOMAIN scan' = {1} /\ scan'[1] = frame
  BY <1>1, <1>6, SMTT(30), SMTT(60)
<1>8. Starts(scan') /\ Single(buses, scan')
  BY <1>6, <1>7, Zenon DEF Starts, Single
<1>9. \A x : Pends(buses, frame, x) <=> Pends(buses, scan[1], x)
  BY <1>5, <1>6, Zenon DEF Pends
<1>10. \A x \in DOMAIN machine.fns : x \in Pending(buses, scan') <=> x \in Pending(buses, scan)
  BY <1>5, <1>7, <1>9, Zenon DEF Pending
<1> QED
  BY <1>1, <1>7, <1>8, <1>10, PassKeeps, ZenonT(60)

(* The invariant holds before the scan. *)
LEMMA PciStarts == InitPci => Tree /\ PciInv
<1> SUFFICES ASSUME InitPci PROVE Tree /\ PciInv
  BY SMTT(30), SMTT(60)
<1> DEFINE start == [kind |-> "start", bus |-> 1, dev |-> 0, fn |-> 0, self |-> 0]
           first == new_bus(0)
<1>1. buses = <<first>> /\ devices = <<>> /\ scan = <<start>> /\ Tree
  BY DEF InitPci, Tree
<1>2. first \in Bus /\ first.index = 0
  BY SMTT(30), SMTT(60) DEF new_bus, Bus
<1>3. start \in Frame(1, 0) /\ start.kind = "start" /\ start.bus = 1 /\ start.dev = 0
  BY SpaceAssumption, SMTT(30), SMTT(60) DEF Frame
<1> HIDE DEF first, start
<1>4. /\ buses \in Seq(Bus) /\ Len(buses) = 1 /\ DOMAIN buses = {1} /\ buses[1].index = 0
      /\ devices \in Seq(Structure) /\ Len(devices) = 0 /\ DOMAIN devices = {}
  BY <1>1, <1>2, SMTT(30), SMTT(60)
<1>5. scan \in Seq(Frame(1, 0)) /\ Len(scan) = 1 /\ DOMAIN scan = {1} /\ scan[1] = start
  BY <1>1, <1>3, SMTT(30), SMTT(60)
<1>6. Starts(scan) /\ Single(buses, scan) /\ Distinct(devices)
  BY <1>3, <1>4, <1>5, Zenon DEF Starts, Single, Distinct
<1>7. Locations = {} /\ Numbered = {0}
  BY <1>4, Zenon DEF Locations, Numbered
<1>8. ASSUME NEW x \in DOMAIN machine.fns PROVE x \in Pending(buses, scan) <=> x[1] = 0
  <2>1. x[2] \in 0 .. (DevSlots - 1)
    BY <1>1, Places, ZenonT(60)
  <2>2. Pends(buses, start, x) <=> x[1] = 0
    BY <1>3, <1>4, <2>1, SpaceAssumption, SMTT(30), SMTT(60) DEF Pends
  <2> QED
    BY <1>5, <2>2, SMTT(30), SMTT(60) DEF Pending
<1>9. 0 \in Reached(0)
  BY SMTT(30), SMTT(60) DEF Reached
<1>10. Coverage(Locations, Pending(buses, scan), Numbered)
  BY <1>7, <1>8, <1>9, SMTT(30), SMTT(60) DEF Coverage
<1> QED
  BY <1>1, <1>4, <1>5, <1>6, <1>10, ZenonT(60) DEF PciInv

(* Every step of the scan keeps the invariant. *)
LEMMA ScanKeeps ==
  ASSUME Tree, PciInv, ~machine.fns[<<0, 0, 0>>].multi, Scan
  PROVE  PciInv'
<1>1. ~HostFunction
  BY RunningFacts, SMTT(30), SMTT(60) DEF HostFunction
<1> QED
  BY <1>1, scan_pci_spaceKeeps, check_deviceKeeps, OtherFunctionKeeps, ZenonT(60) DEF Scan

(* The invariant implies that no function is found twice and, when the scan *)
(* has ended, that none is missed.                                          *)
LEMMA PciImplies ==
  ASSUME Tree, PciInv
  PROVE  /\ \A i, j \in DOMAIN devices : devices[i].at = devices[j].at => i = j
         /\ scan = <<>> => Locations = Under(0)
<1>1. \A i, j \in DOMAIN devices : devices[i].at = devices[j].at => i = j
  BY SMTT(30), SMTT(60) DEF PciInv, Distinct
<1>2. ASSUME scan = <<>> PROVE Locations = Under(0)
  <2>1. Coverage(Locations, Pending(buses, scan), Numbered)
    BY DEF PciInv
  <2>2. Pending(buses, scan) = {}
    BY <1>2, SMTT(30), SMTT(60) DEF Pending
  <2>3. \A x \in DOMAIN machine.fns : x[1] \in Numbered <=> x \in Locations
    BY <2>1, <2>2, SMTT(30), SMTT(60) DEF Coverage
  <2> DEFINE numbers == {0} \union {machine.fns[at].secondary : at \in DOMAIN machine.fns}
  <2>4. Numbered \in SUBSET numbers
    BY <2>1, SMTT(30), SMTT(60) DEF Coverage, Bridges
  <2>5. 0 \in Numbered /\ \A at \in DOMAIN machine.fns :
          at[1] \in Numbered /\ machine.fns[at].class = Bridge => machine.fns[at].secondary \in Numbered
    BY <2>1, <2>3, SMTT(30), SMTT(60) DEF Coverage, Bridges
  <2>6. Reached(0) \subseteq Numbered
    BY <2>4, <2>5, SMTT(30), SMTT(60) DEF Reached
  <2>7. Reached(0) = Numbered
    BY <2>1, <2>6, ZenonT(60) DEF Coverage
  <2> QED
    BY <2>1, <2>3, <2>7, SMTT(30), SMTT(60) DEF Under, Coverage
<1> QED
  BY <1>1, <1>2, SMTT(30), SMTT(60)

(* The scan, for the machines whose host bridge has one function. *)
ScanInv == Tree /\ (~machine.fns[<<0, 0, 0>>].multi => PciInv)

(* The scan, and any step that leaves its lists alone, keep the invariant. *)
LEMMA ScanInvNext ==
  ASSUME ScanInv, Scan \/ UNCHANGED pciVars
  PROVE  ScanInv'
<1>1. UNCHANGED machine
  BY Zenon DEF Scan, scan_pci_space, HostFunction, check_device, OtherFunction, pciVars
<1>2. Tree'
  BY <1>1, SMTT(30), SMTT(60) DEF ScanInv, Tree
<1>3. ASSUME ~machine.fns[<<0, 0, 0>>].multi PROVE PciInv'
  <2>1. CASE Scan
    BY <1>3, <2>1, ScanKeeps, ZenonT(60) DEF ScanInv
  <2>2. CASE UNCHANGED pciVars
    <3>1. UNCHANGED <<machine, buses, devices, scan>> /\ PciInv
      BY <1>3, <2>2, SMTT(30), SMTT(60) DEF pciVars, ScanInv
    <3>2. scan' \in Seq(Frame(Len(buses), Len(devices))) /\ Starts(scan') /\ Single(buses, scan')
      BY <3>1 DEF PciInv
    <3> QED
      BY <3>1, <3>2, PassKeeps, SMTT(30), SMTT(60)
  <2> QED
    BY <2>1, <2>2, SMTT(30), SMTT(60)
<1> QED
  BY <1>1, <1>2, <1>3, SMTT(30), SMTT(60) DEF ScanInv

(* A step of init_ahci is a step of the scan or leaves its lists alone. *)
LEMMA KernelScans ==
  ASSUME [Next]_vars
  PROVE  Scan \/ UNCHANGED pciVars
<1>1. CASE UNCHANGED vars
  BY <1>1, SMTT(30), SMTT(60) DEF vars, pciVars
<1>2. CASE ahci_irq
  BY <1>2, SMTT(30), SMTT(60) DEF ahci_irq, Unit, pciVars
<1>3. CASE init_pci
  BY <1>3, SMTT(30), SMTT(60) DEF init_pci, Unit, pciVars
<1>4. CASE Locate
  BY <1>4, SMTT(30), SMTT(60) DEF Locate, Unit, pciVars
<1>5. CASE check_msi_capability
  BY <1>5 DEF check_msi_capability, Unit, pciVars
<1>6. CASE enable_msi
  BY <1>6, SMTT(30), SMTT(60) DEF enable_msi, Unit, pciVars
<1>7. CASE Map
  BY <1>7, SMTT(30), SMTT(60) DEF Map, Unit, pciVars
<1>8. CASE EnableController
  BY <1>8, SMTT(30), SMTT(60) DEF EnableController, Unit, pciVars
<1>9. CASE enumerate_ahci_devices
  BY <1>9, SMTT(30), SMTT(60) DEF enumerate_ahci_devices, Unit, pciVars
<1>10. CASE init_port
  BY <1>10, SMTT(30), SMTT(60) DEF init_port, Unit, pciVars
<1>11. CASE Poll
  BY <1>11 DEF Poll, Unit, pciVars
<1>12. CASE ClearST
  BY <1>12 DEF ClearST, Unit, SendVars, pciVars
<1>13. CASE ClearFRE
  BY <1>13, SMTT(30), SMTT(60) DEF ClearFRE, Unit, SendVars, pciVars
<1>14. CASE WaitCR
  BY <1>14, SMTT(30), SMTT(60) DEF WaitCR, Unit, SendVars, pciVars
<1>15. CASE WaitFR
  BY <1>15 DEF WaitFR, Unit, SendVars, pciVars
<1>16. CASE TakeSlot
  BY <1>16, SMTT(30), SMTT(60) DEF TakeSlot, Unit, SendVars, pciVars
<1>17. CASE get_cmd_table
  BY <1>17, SMTT(30), SMTT(60) DEF get_cmd_table, Unit, SendVars, pciVars
<1>18. CASE Spin
  BY <1>18 DEF Spin, Unit, SendVars, pciVars
<1>19. CASE Issue
  BY <1>19, SMTT(30), SMTT(60) DEF Issue, Unit, SendVars, pciVars
<1>20. ASSUME NEW q \in 0 .. (Ports - 1), Controller(q) PROVE UNCHANGED pciVars
  <2>1. UNCHANGED kernelVars
    BY <1>20, Zenon DEF Controller, StopEngine, StopReceive, Complete, GetReady
  <2> QED
    BY <2>1 DEF kernelVars, pciVars
<1> QED
  BY <1>1, <1>2, <1>3, <1>4, <1>5, <1>6, <1>7, <1>8, <1>9, <1>10,
     <1>11, <1>12, <1>13, <1>14, <1>15, <1>16, <1>17, <1>18, <1>19,
     <1>20, ZenonT(60) DEF Next, Kernel

(* On every machine whose buses form a tree and whose host bridge has one   *)
(* function, the scan makes one structure for every function and misses     *)
(* none, behind however many bridges (scan_pci_space, check_device,         *)
(* check_function).                                                         *)
THEOREM ScanSafety == Spec => []EachFunctionOnce
<1>1. Init => ScanInv
  BY PciStarts DEF Init, ScanInv
<1>2. ScanInv /\ [Next]_vars => ScanInv'
  BY KernelScans, ScanInvNext, SMTT(30), SMTT(60)
<1>3. ScanInv => EachFunctionOnce
  BY PciImplies DEF ScanInv, EachFunctionOnce
<1> QED
  BY <1>1, <1>2, <1>3, PTL DEF Spec
=============================================================================
