-------------------------------- MODULE Pci --------------------------------
(***************************************************************************)
(* pci.c: the scan of the configuration space at boot, which builds the     *)
(* lists of buses, devices and functions, the search of these lists, and    *)
(* the registers of a device, some of which are read from a copy.           *)
(*                                                                         *)
(* The recursion of the scan is a stack; one step probes one function.      *)
(***************************************************************************)
EXTENDS Integers, Sequences, FiniteSets

CONSTANTS
  Machines,   \* the machines considered
  DevSlots,   \* 32 devices on a bus
  FnSlots     \* 8 functions of a device

Bridge == "bridge"

ASSUME SpaceAssumption == DevSlots \in Nat \ {0} /\ FnSlots \in Nat \ {0}

(* What answers on a bus: a host bridge, and functions other than 0 only on *)
(* devices that have several.  The buses form a tree: a bus is behind one   *)
(* bridge, and bus 0 behind none.                                           *)
ASSUME TopologyAssumption ==
  \A m \in Machines :
    LET fns     == m.fns
        bridges == {at \in DOMAIN fns : fns[at].class = Bridge}
    IN  /\ DOMAIN fns \subseteq Nat \X (0 .. (DevSlots - 1)) \X (0 .. (FnSlots - 1))
        /\ <<0, 0, 0>> \in DOMAIN fns
        /\ fns \in [DOMAIN fns -> [class : STRING, multi : BOOLEAN, secondary : Nat]]
        /\ \A at \in DOMAIN fns : at[3] > 0 =>
             <<at[1], at[2], 0>> \in DOMAIN fns /\ fns[<<at[1], at[2], 0>>].multi
        /\ \A a, b \in bridges : fns[a].secondary # 0 /\ (fns[a].secondary = fns[b].secondary => a = b)

VARIABLES
  machine,   \* [fns: <<bus, device, function>> -> [class, multi, secondary], ...]
  buses,     \* the bus structures: [index, dev_list]; 1 is root_bus()
  devices,   \* the device structures: [at, functions]
  scan       \* the calls of the scan in progress, the running one last

pciVars == <<machine, buses, devices, scan>>

(* Functions answer to their address; the others read as all ones. *)
Present(at) == at \in DOMAIN machine.fns
get_device_descriptor(at) == machine.fns[at]

(* New structures go in front of the list they belong to. *)
new_bus(index) == [index |-> index, dev_list |-> <<>>]
Device(at) == [at |-> at, functions |-> <<>>]
new_device(list, bus, id) == [list EXCEPT ![bus].dev_list = <<id>> \o @]
new_function(list, device, at) ==
  Append([list EXCEPT ![device].functions = <<Len(list) + 1>> \o @], Device(at))

InitPci ==
  /\ machine \in Machines
  /\ buses = <<new_bus(0)>>
  /\ devices = <<>>
  /\ scan = <<[kind |-> "start", bus |-> 1, dev |-> 0, fn |-> 0, self |-> 0]>>

Call(kind, bus, dev, fn, self) == [kind |-> kind, bus |-> bus, dev |-> dev, fn |-> fn, self |-> self]

(* The call that is running, and those it returns to. *)
Innermost(calls) == calls[Len(calls)]
Outer(calls) == SubSeq(calls, 1, Len(calls) - 1)

Running == Innermost(scan)
Advanced(frame) == Append(Outer(scan), frame)
Returned == Outer(scan)

(* Variant: the bus a bridge is on is taken for the bus behind it. *)
Behind_Primary(at) == IF get_device_descriptor(at).class = Bridge THEN <<new_bus(at[1])>> ELSE <<>>

(* check_function: the bus behind a bridge, which is scanned at once. *)
Behind(at) ==
  LET desc == get_device_descriptor(at)
  IN  IF desc.class = Bridge THEN <<new_bus(desc.secondary)>> ELSE <<>>

check_bus(new, bus) == IF new = <<>> THEN <<>> ELSE <<Call("bus", bus, 0, 0, 0)>>

(* scan_pci_space: a host bridge of several functions has one bus each. *)
scan_pci_space ==
  /\ scan # <<>> /\ Running.kind = "start"
  /\ scan' = <<Call(IF get_device_descriptor(<<0, 0, 0>>).multi THEN "host" ELSE "bus", 1, 0, 0, 0)>>
  /\ UNCHANGED <<machine, buses, devices>>

root_device == IF devices = <<>> THEN <<Device(<<0, 0, 0>>)>> ELSE devices

(* Its loop over the functions: the first that is missing ends it.          *)
(* root_device() is created with the first.                                 *)
HostFunction ==
  LET at == <<0, 0, Running.fn>>
  IN  /\ scan # <<>> /\ Running.kind = "host"
      /\ IF Running.fn = FnSlots \/ ~Present(at)
         THEN scan' = Returned /\ UNCHANGED <<buses, devices>>
         ELSE /\ devices' = new_function(root_device, 1, at)
              /\ buses' = Append(IF devices = <<>> THEN new_device(buses, 1, 1) ELSE buses, new_bus(Running.fn))
              /\ scan' = Append(Advanced([Running EXCEPT !.fn = @ + 1]),
                                Call("bus", Len(buses) + 1, 0, 0, 0))
      /\ UNCHANGED machine

(* check_device, up to the loop over the other functions. *)
check_device ==
  LET at   == <<buses[Running.bus].index, Running.dev, 0>>
      id   == Len(devices) + 1
      new  == Behind(at)
      more == IF get_device_descriptor(at).multi THEN <<Call("device", Running.bus, Running.dev, 1, id)>> ELSE <<>>
  IN  /\ scan # <<>> /\ Running.kind = "bus"
      /\ CASE Running.dev = DevSlots -> scan' = Returned /\ UNCHANGED <<buses, devices>>
           [] Running.dev < DevSlots /\ ~Present(at) ->
                scan' = Advanced([Running EXCEPT !.dev = @ + 1]) /\ UNCHANGED <<buses, devices>>
           [] Running.dev < DevSlots /\ Present(at) ->
                /\ devices' = Append(devices, Device(at))
                /\ buses' = new_device(buses, Running.bus, id) \o new
                /\ scan' = Advanced([Running EXCEPT !.dev = @ + 1]) \o more \o check_bus(new, Len(buses) + 1)
      /\ UNCHANGED machine

OtherFunction ==
  LET at  == <<buses[Running.bus].index, Running.dev, Running.fn>>
      new == Behind(at)
  IN  /\ scan # <<>> /\ Running.kind = "device"
      /\ CASE Running.fn = FnSlots -> scan' = Returned /\ UNCHANGED <<buses, devices>>
           [] Running.fn < FnSlots /\ ~Present(at) ->
                scan' = Advanced([Running EXCEPT !.fn = @ + 1]) /\ UNCHANGED <<buses, devices>>
           [] Running.fn < FnSlots /\ Present(at) ->
                /\ devices' = new_function(devices, Running.self, at)
                /\ buses' = buses \o new
                /\ scan' = Advanced([Running EXCEPT !.fn = @ + 1]) \o check_bus(new, Len(buses) + 1)
      /\ UNCHANGED machine

Scan == scan_pci_space \/ HostFunction \/ check_device \/ OtherFunction
-----------------------------------------------------------------------------
(* search_bus_for_match: the structure found, or 0, and the skip count      *)
(* that is left.                                                            *)
search_bus_for_match(list, class, skip) ==
  LET search[l \in Seq(Nat), s \in Int] ==
        IF l = <<>> THEN [found |-> 0, skip |-> s]
        ELSE LET d     == Head(l)
                 match == get_device_descriptor(devices[d].at).class = class
                 sub   == search[devices[d].functions, IF match THEN s - 1 ELSE s]
             IN  CASE match /\ s = 0 -> [found |-> d, skip |-> 0]
                   [] ~(match /\ s = 0) /\ sub.found # 0 /\ sub.skip = 0 -> sub
                   [] OTHER -> search[Tail(l), IF sub.found # 0 THEN sub.skip - 1 ELSE sub.skip]
  IN  search[list, skip]

(* Variant: the functions of a device are not looked at. *)
locate_pci_device_Devices(class, skip) ==
  LET hits == SelectSeq(buses[1].dev_list, LAMBDA d : machine.fns[devices[d].at].class = class)
  IN  IF skip < Len(hits) THEN hits[skip + 1] ELSE 0

(* search_for_match goes through the buses linked to the root bus; the scan *)
(* links none.                                                              *)
locate_pci_device(class, skip) == search_bus_for_match(buses[1].dev_list, class, skip).found

(* Variant: the copy is taken to be larger than it is. *)
get_register_value_Copy(reg) ==
  IF reg < 20 /\ reg > 15 THEN machine.stale ELSE machine.caps[reg]

(* Compares the header type of the controller. *)
pci_compare_value(value) == machine.header = value

(* A register of the controller's capabilities.  Registers up to 0x11 are   *)
(* read from the copy that get_device_descriptor made, which holds nothing  *)
(* for 0x10 and 0x11 (the controller has header type 0).                    *)
get_register_value(reg) == IF reg \in {16, 17} THEN machine.stale ELSE machine.caps[reg]
-----------------------------------------------------------------------------
(* The buses behind the bridges of a bus: the least set that has the bus    *)
(* and, with a bus, those behind its bridges.                               *)
Reached(bus) ==
  LET fns       == machine.fns
      numbers   == {bus} \union {fns[at].secondary : at \in DOMAIN fns}
      closed(X) == bus \in X /\ \A at \in DOMAIN fns : at[1] \in X /\ fns[at].class = Bridge => fns[at].secondary \in X
  IN  {b \in numbers : \A X \in SUBSET numbers : closed(X) => b \in X}

(* The functions on them. *)
Under(bus) == {at \in DOMAIN machine.fns : at[1] \in Reached(bus)}

Locations == {devices[i].at : i \in DOMAIN devices}

(* The scan finds every function of the machine, behind however many        *)
(* bridges, and makes one structure for each.  (With a host bridge of       *)
(* several functions the host itself gets several.)                         *)
EachFunctionOnce ==
  ~machine.fns[<<0, 0, 0>>].multi =>
    /\ \A i, j \in DOMAIN devices : devices[i].at = devices[j].at => i = j
    /\ scan = <<>> => Locations = Under(0)
=============================================================================
