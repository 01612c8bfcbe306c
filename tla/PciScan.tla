------------------------------ MODULE PciScan ------------------------------
(***************************************************************************)
(* How the kernel finds the PCI devices (src/kernel/pci.cpp): a search     *)
(* through the buses, depth first over the bridges, into a table of fixed  *)
(* size. The recursion of ScanBus, ScanDevice and ScanFunction is a stack  *)
(* of the places that the loops under way have reached.                    *)
(*                                                                         *)
(* A machine is what its configuration space tells: a function from the    *)
(* places <<bus, device, function>> that answer with a vendor ID to what   *)
(* else can be read there. An operator named _Mutant is what a plausible   *)
(* slip would have made of the definition after it; nothing refers to it.  *)
(***************************************************************************)
EXTENDS Integers, FiniteSets, Sequences

CONSTANTS
  Devices,    \* devices of a bus: 32
  Functions,  \* functions of a device: 8
  TableSize,  \* entries of the table: 32
  Machines    \* place -> [class, vendor, multi, secondary]

\* What can be read is what it should be. Device 0 of bus 0 is a host bridge, and so
\* is every other function of it.
ASSUME PciScanAssumption ==
  /\ {Devices, Functions, TableSize} \subseteq Nat \ {0}
  /\ \A m \in Machines :
       /\ DOMAIN m \subseteq Nat \X (0..(Devices - 1)) \X (0..(Functions - 1))
       /\ IsFiniteSet(DOMAIN m)
       /\ \A p \in DOMAIN m : m[p].multi \in BOOLEAN /\ m[p].secondary \in Nat
       /\ <<0, 0, 0>> \in DOMAIN m
       /\ \A f \in 0..(Functions - 1) :
            <<0, 0, f>> \in DOMAIN m => m[<<0, 0, f>>].class = "host"

VARIABLES
  machine,     \* the configuration space, empty before the kernel runs
  scan,        \* "idle", "scanning", "done", or "failed" with kFull
  host,        \* next function of device 0 of bus 0 to be taken for a host bridge
  scan_stack,  \* places to look at next, of the innermost ScanBus first
  devices      \* the table, as far as it is filled

pci_vars == <<machine, scan, host, scan_stack, devices>>

PciInit ==
  /\ machine = <<>>
  /\ scan = "idle"
  /\ host = 0
  /\ scan_stack = <<>>
  /\ devices = <<>>

\* The kernel is up, on one machine or another.
PciFound ==
  /\ machine' \in Machines
  /\ UNCHANGED <<scan, host, scan_stack, devices>>

\* ReadVendorId is not 0xffff.
Answers(place) == place \in DOMAIN machine

IsSingleFunctionDevice(place) == ~machine[place].multi

BusBegin(bus) == <<bus, 0, 0>>

\* ScanAllBus looks at the header of the host bridge: bus 0, or a bus for each.
ScanAllBus ==
  /\ scan = "idle"
  /\ scan' = "scanning"
  /\ IF IsSingleFunctionDevice(<<0, 0, 0>>)
       THEN host' = Functions /\ scan_stack' = <<BusBegin(0)>>
       ELSE host' = 0 /\ scan_stack' = <<>>
  /\ UNCHANGED <<machine, devices>>

ScanNextHost ==
  /\ scan = "scanning" /\ scan_stack = <<>> /\ host < Functions
  /\ host' = host + 1
  /\ scan_stack' = IF Answers(<<0, 0, host>>) THEN <<BusBegin(host)>> ELSE <<>>
  /\ UNCHANGED <<machine, scan, devices>>

FinishScan ==
  /\ scan = "scanning" /\ scan_stack = <<>> /\ host = Functions
  /\ scan' = "done"
  /\ UNCHANGED <<machine, host, scan_stack, devices>>

Here == Head(scan_stack)

\* The place that the loops of ScanDevice and ScanBus go on to: the functions
\* beyond the first are looked at only of a device that is there and has them.
NextPlace_Mutant(place) == <<place[1], place[2] + 1, 0>>

NextPlace(place) ==
  IF \/ place[3] = 0 /\ (~Answers(place) \/ IsSingleFunctionDevice(place))
     \/ place[3] = Functions - 1
    THEN <<place[1], place[2] + 1, 0>>
    ELSE <<place[1], place[2], place[3] + 1>>

Scanning == scan = "scanning" /\ scan_stack # <<>>

ReturnFromBus ==
  /\ Scanning /\ Here[2] = Devices
  /\ scan_stack' = Tail(scan_stack)
  /\ UNCHANGED <<machine, scan, host, devices>>

SkipPlace ==
  /\ Scanning /\ Here[2] < Devices
  /\ ~Answers(Here)
  /\ scan_stack' = <<NextPlace(Here)>> \o Tail(scan_stack)
  /\ UNCHANGED <<machine, scan, host, devices>>

\* A full table ends the search, through all of its levels. A bridge has the bus
\* behind it searched before the next place.
AddDevice ==
  IF Len(devices) = TableSize
    THEN /\ scan' = "failed"
         /\ scan_stack' = <<>>
         /\ UNCHANGED devices
    ELSE /\ devices' = Append(devices, Here)
         /\ scan_stack' =
              LET rest == <<NextPlace(Here)>> \o Tail(scan_stack)
              IN  IF machine[Here].class = "bridge"
                    THEN <<BusBegin(machine[Here].secondary)>> \o rest ELSE rest
         /\ UNCHANGED scan

ScanFunction ==
  /\ Scanning /\ Here[2] < Devices
  /\ Answers(Here)
  /\ AddDevice
  /\ UNCHANGED <<machine, host>>

PciNext ==
  ScanAllBus \/ ScanNextHost \/ FinishScan \/ ReturnFromBus \/ SkipPlace \/ ScanFunction

-----------------------------------------------------------------------------
(* Properties.                                                             *)

\* What shows on its bus: the functions of a device with a function 0, and the
\* others only if that says there are several.
Shown ==
  {p \in DOMAIN machine :
     /\ <<p[1], p[2], 0>> \in DOMAIN machine
     /\ p[3] = 0 \/ machine[<<p[1], p[2], 0>>].multi}

RootBuses ==
  IF machine[<<0, 0, 0>>].multi
    THEN {f \in 0..(Functions - 1) : <<0, 0, f>> \in DOMAIN machine} ELSE {0}

Bridges == {p \in DOMAIN machine : machine[p].class = "bridge"}
Buses == RootBuses \cup {machine[p].secondary : p \in Bridges}

\* Sets with the buses of the host bridges and those behind their own bridges.
ClosedSets ==
  {S \in SUBSET Buses :
     /\ RootBuses \subseteq S
     /\ \A p \in Bridges \cap Shown : p[1] \in S => machine[p].secondary \in S}

Reachable == {p \in Shown : \A S \in ClosedSets : p[1] \in S}

\* No bus is behind two bridges, or behind one and in front of it.
IsTree ==
  \A p \in Bridges :
    /\ machine[p].secondary \notin RootBuses
    /\ machine[p].secondary # p[1]
    /\ \A q \in Bridges \ {p} : machine[q].secondary # machine[p].secondary

Found == {devices[i] : i \in DOMAIN devices}

\* The search finds the functions of all buses that can be reached, each once,
\* and gives up only if they are more than the table has entries.
FindsEachOnce ==
  scan # "idle" /\ IsTree =>
    /\ Len(devices) = Cardinality(Found)
    /\ scan = "done" => Found = Reachable
    /\ scan = "failed" => Found \subseteq Reachable /\ Cardinality(Reachable) > TableSize

=============================================================================
