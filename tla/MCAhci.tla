------------------------------- MODULE MCAhci -------------------------------
(* Machines with up to four bridges, and a controller with two ports.  Some *)
(* firmware leaves the interrupts of a port enabled.                        *)
EXTENDS Ahci, SequencesExt

Classes == {"none", "ahci", Bridge}

(* The bus behind the bridge at a place. *)
Secondary(at) ==
  CASE at = <<0, 1, 0>> -> 1 [] at = <<0, 1, 1>> -> 2 [] at = <<0, 2, 0>> -> 3 [] at = <<1, 0, 0>> -> 4
    [] OTHER -> 0

Places == {<<0, 1, 0>>, <<0, 1, 1>>, <<0, 2, 0>>, <<1, 0, 0>>}

(* The buses behind the bridges: bus 1 holds what is chosen for it, the     *)
(* others one device of two functions.                                      *)
Exists(c, at) ==
  CASE at = <<0, 0, 0>> -> TRUE
    [] at \in {<<0, 1, 0>>, <<0, 2, 0>>} -> c[at] # "none"
    [] at = <<0, 1, 1>> -> c[at] # "none" /\ c[<<0, 1, 0>>] # "none"
    [] at = <<1, 0, 0>> -> c[at] # "none" /\ c[<<0, 1, 0>>] = Bridge
    [] at \in {<<2, 2, 0>>, <<2, 2, 1>>} -> c[<<0, 1, 1>>] = Bridge /\ c[<<0, 1, 0>>] # "none"
    [] at = <<3, 0, 0>> -> c[<<0, 2, 0>>] = Bridge
    [] at = <<4, 1, 0>> -> c[<<0, 1, 0>>] = Bridge /\ c[<<1, 0, 0>>] = Bridge
    [] OTHER -> FALSE

AllPlaces == {<<0, 0, 0>>, <<2, 2, 0>>, <<2, 2, 1>>, <<3, 0, 0>>, <<4, 1, 0>>} \union Places

Topology(c, host) ==
  [at \in {a \in AllPlaces : Exists(c, a)} |->
     [class     |-> IF at \in Places THEN c[at] ELSE "other",
      multi     |-> IF at = <<0, 0, 0>> THEN host ELSE Exists(c, <<at[1], at[2], 1>>),
      secondary |-> Secondary(at)]]

Topologies == {Topology(c, host) : c \in [Places -> Classes], host \in BOOLEAN}

Cap(id, next) == [id |-> id, next |-> next, wide |-> TRUE]
NoCaps == [r \in {} |-> Cap("other", 0)]
At1(r, c) == [x \in {r} |-> c]
At2(r, c, s, d) == [x \in {r, s} |-> IF x = r THEN c ELSE d]

(* The lists of capabilities, and where they begin. *)
CapLists ==
  {<<0, NoCaps>>, <<20, At1(20, Cap("msi", 0))>>, <<18, At2(18, Cap("other", 24), 24, Cap("msi", 0))>>,
   <<24, At2(24, Cap("msix", 20), 20, Cap("msi", 0))>>, <<20, At1(20, [Cap("msi", 0) EXCEPT !.wide = FALSE])>>,
   <<16, At2(16, Cap("other", 24), 24, Cap("msi", 0))>>, <<20, At1(20, Cap("other", 0))>>}

Stale == {Cap("other", 0), Cap("msi", 0), Cap("other", 24)}

Absent == [impl |-> FALSE, up |-> FALSE, ata |-> FALSE, st |-> FALSE, fre |-> FALSE, cr |-> FALSE, fr |-> FALSE,
           busy |-> FALSE, ie |-> FALSE, ci |-> {}, sact |-> {}, is |-> {}, aligned |-> TRUE, mapped |-> FALSE]
Disk == [Absent EXCEPT !.impl = TRUE, !.up = TRUE, !.ata = TRUE]

Disks ==
  {[Disk EXCEPT !.st = st, !.cr = st, !.fre = fre, !.fr = fre, !.busy = busy, !.is = is,
                !.ci = IF st /\ busy THEN {0} ELSE {}, !.sact = IF st /\ fre THEN {1} ELSE {}] :
     st \in BOOLEAN, fre \in BOOLEAN, busy \in BOOLEAN, is \in {{}, {"fis"}, {"error"}}}

Seconds == {[Absent EXCEPT !.impl = TRUE], [Disk EXCEPT !.ata = FALSE], [Disk EXCEPT !.st = TRUE, !.cr = TRUE],
            [Disk EXCEPT !.mapped = TRUE], [Disk EXCEPT !.aligned = FALSE]}

Machine(fns, header, list, stale, first, second) ==
  [fns |-> fns, header |-> header, first |-> list[1], caps |-> list[2], stale |-> stale, ie |-> first.ie,
   ports |-> [q \in {0, 1} |-> IF q = 0 THEN first ELSE second]]

Plain == [at \in {<<0, 0, 0>>, <<0, 1, 0>>} |->
            [class |-> IF at[2] = 1 THEN "ahci" ELSE "other", multi |-> FALSE, secondary |-> 0]]

MCMachines ==
  {Machine(fns, header, <<0, NoCaps>>, Cap("other", 0), Absent, Absent) : fns \in Topologies, header \in {0, 1}}
  \union {Machine(Plain, 0, list, stale, first, second) :
            list \in CapLists, stale \in Stale, first \in Disks, second \in Seconds}
  \union {Machine(Plain, 0, list, Cap("other", 0), [first EXCEPT !.ie = TRUE], Absent) :
            list \in CapLists, first \in Disks}
-----------------------------------------------------------------------------
(* After the scan locate_pci_device(class, n) is the (n + 1)-th function of *)
(* that class on bus 0 in the order of the lists, for every n, and nothing  *)
(* beyond the last: the skip count that is handed through the recursion     *)
(* counts every match once.                                                 *)
LocatesInOrder ==
  scan = <<>> /\ ~machine.fns[<<0, 0, 0>>].multi =>
    LET order == FlattenSeq([i \in DOMAIN buses[1].dev_list |->
                               <<buses[1].dev_list[i]>> \o devices[buses[1].dev_list[i]].functions])
    IN  \A class \in {Bridge, "ahci"} :
          LET hits == SelectSeq(order, LAMBDA d : machine.fns[devices[d].at].class = class)
          IN  /\ \A n \in 0 .. 3 : locate_pci_device(class, n) = (IF n < Len(hits) THEN hits[n + 1] ELSE 0)
              /\ Len(hits) = Cardinality({at \in DOMAIN machine.fns : at[1] = 0 /\ machine.fns[at].class = class})
=============================================================================
