----------------------------- MODULE XhciStart -----------------------------
(***************************************************************************)
(* How the kernel brings up the USB controller (Initialize in              *)
(* src/kernel/usb/xhci/xhci.cpp): it picks one among the PCI devices, has  *)
(* its interrupts sent as messages, takes it over from the firmware,       *)
(* halts, resets and programs it and sets it running. The controller and   *)
(* the firmware act on their own between the accesses to the registers.    *)
(* What becomes of the ports then is the matter of XhciPorts.              *)
(*                                                                         *)
(* An operator named _Mutant is what a plausible slip would have made of   *)
(* the definition after it; nothing refers to it.                          *)
(***************************************************************************)
EXTENDS PciScan, PciMsi, UsbMemory

CONSTANTS
  Slots,            \* kDeviceSize
  RingBytes,        \* a ring of 32 TRBs
  EntryBytes,       \* an entry of the segment table
  Page,             \* 4096
  Segment,          \* 64 * 1024
  Line,             \* 64
  ScratchpadCounts  \* what HCSPARAMS2 may ask for

ASSUME XhciStartAssumption ==
  /\ {Slots, RingBytes, EntryBytes, Page, Segment, Line} \subseteq Nat \ {0}
  /\ Page % Line = 0 /\ Segment % Line = 0
  /\ ScratchpadCounts \subseteq Nat

VARIABLES
  start,       \* what the driver does next, "running", or "stopped" by exit(1)
  xhc,         \* the controller picked, a place; <<>> if none
  ehci_ports,  \* whether ports are still routed to an EHCI controller
  owner,       \* USBLEGSUP: [bios, os], the semaphores; both FALSE if not there
  legacy,      \* whether the controller has USBLEGSUP
  op,          \* the registers the driver programs
  run_stop,    \* bits of USBCMD
  reset,
  halted,      \* bits of USBSTS
  not_ready,
  scratchpads, \* buffers that the controller asks for
  filled,      \* scratchpad buffers in the array so far
  given        \* what the driver has allocated so far, by purpose

registers == <<op, run_stop, reset, halted, not_ready>>
driver_vars == <<start, xhc, ehci_ports, filled, given>>
controller_vars == <<owner, legacy, registers, scratchpads>>
start_vars == <<driver_vars, controller_vars>>

OpRegister == {"CONFIG", "DCBAAP", "CRCR", "ERSTSZ", "ERDP", "ERSTBA", "IMAN", "INTE"}

\* Left behind by the firmware, and by a reset.
FirmwareValue == [r \in OpRegister |-> -2]
ResetValue == [r \in OpRegister |-> 0]

Purpose == {"devices", "contexts", "array", "commands", "events", "table"}

StartInit ==
  /\ PciInit /\ MsiInit /\ MemoryInit
  /\ start = "off" /\ xhc = <<>>
  /\ ehci_ports = TRUE
  /\ legacy = FALSE
  /\ owner = [bios |-> FALSE, os |-> FALSE]
  /\ op = FirmwareValue
  /\ run_stop = FALSE /\ halted = TRUE
  /\ reset = FALSE /\ not_ready = FALSE
  /\ scratchpads = 0 /\ filled = 0
  /\ given = [p \in Purpose |-> Null]

At(from, to) == start = from /\ start' = to

\* KernelMainNewStack, as far as InitializePCI: the kernel is up, on a machine.
KernelMain ==
  /\ At("off", "scan")
  /\ PciFound
  /\ UNCHANGED <<xhc, ehci_ports, filled, given, controller_vars, msi_vars, pool>>

\* A controller as the driver finds it: the firmware may own it, or have given it up,
\* to whoever asks or to the operating system at once, and have left it running. Nobody
\* has asked for it before the kernel and gone on without an answer.
ControllerFound ==
  /\ legacy' \in BOOLEAN
  /\ owner' \in [bios: BOOLEAN, os: BOOLEAN]
  /\ owner'.bios \/ owner'.os => legacy'
  /\ ~(owner'.bios /\ owner'.os)
  /\ run_stop' \in BOOLEAN /\ halted' = ~run_stop'
  /\ scratchpads' \in ScratchpadCounts
  /\ UNCHANGED <<op, reset, not_ready>>

-----------------------------------------------------------------------------
(* The controller and the firmware.                                        *)

\* As long as the controller is the firmware's, that sets it up and runs it as
\* it likes.
FirmwareUses ==
  /\ owner.bios
  /\ op' = FirmwareValue
  /\ run_stop' = TRUE
  /\ UNCHANGED <<owner, legacy, reset, halted, not_ready, scratchpads>>

\* Not in the middle of a start or a stop.
FirmwareLetsGo ==
  /\ owner.bios /\ owner.os
  /\ halted = ~run_stop
  /\ owner' = [owner EXCEPT !.bios = FALSE]
  /\ UNCHANGED <<legacy, registers, scratchpads>>

Halt ==
  /\ ~run_stop /\ ~halted
  /\ halted' = TRUE
  /\ UNCHANGED <<owner, legacy, op, run_stop, reset, not_ready, scratchpads>>

Start ==
  /\ run_stop /\ halted /\ ~reset
  /\ halted' = FALSE
  /\ UNCHANGED <<owner, legacy, op, run_stop, reset, not_ready, scratchpads>>

\* After a reset the controller may still have some time to itself.
FinishReset ==
  /\ reset
  /\ op' = ResetValue
  /\ run_stop' = FALSE /\ halted' = TRUE /\ reset' = FALSE
  /\ not_ready' \in BOOLEAN
  /\ UNCHANGED <<owner, legacy, scratchpads>>

GetReady ==
  /\ not_ready
  /\ not_ready' = FALSE
  /\ UNCHANGED <<owner, legacy, op, run_stop, reset, halted, scratchpads>>

Controller ==
  /\ FirmwareUses \/ FirmwareLetsGo \/ Halt \/ Start \/ FinishReset \/ GetReady
  /\ UNCHANGED <<driver_vars, pci_vars, msi_vars, pool>>

\* What is written to a controller that is being reset or is not ready is lost.
WriteOp(values) ==
  op' = IF reset \/ not_ready THEN op ELSE [r \in OpRegister |->
          IF r \in DOMAIN values THEN values[r] ELSE op[r]]

-----------------------------------------------------------------------------
(* The driver.                                                             *)

ScanBuses ==
  /\ start = "scan"
  /\ PciNext
  /\ start' = CASE scan' = "done" -> "pick" [] scan' = "failed" -> "stopped" [] OTHER -> "scan"
  /\ UNCHANGED <<xhc, ehci_ports, filled, given, controller_vars, msi_vars, pool>>

Of(class) == {i \in DOMAIN devices : machine[devices[i]].class = class}
OfIntel(class) == {i \in Of(class) : machine[devices[i]].vendor = "intel"}

\* The first xHCI controller of Intel's, or else the last of all.
PickController ==
  /\ start = "pick"
  /\ IF Of("xhci") = {}
       THEN start' = "stopped" /\ UNCHANGED <<xhc, controller_vars, pool>>
       ELSE /\ start' = "message"
            /\ ControllerFound /\ MemoryFound
            /\ \E i \in Of("xhci") :
                 /\ IF OfIntel("xhci") # {}
                      THEN i \in OfIntel("xhci") /\ \A j \in OfIntel("xhci") : i <= j
                      ELSE \A j \in Of("xhci") : j <= i
                 /\ xhc' = devices[i]
  /\ UNCHANGED <<ehci_ports, filled, given, pci_vars, msi_vars>>

\* Whatever comes of it.
ConfigureMessages ==
  /\ start = "message"
  /\ MsiNext
  /\ start' = IF msi' \in {"idle", "walking"} THEN "message" ELSE "switch"
  /\ UNCHANGED <<xhc, ehci_ports, filled, given, controller_vars, pci_vars, pool>>

\* From here on the PCI devices are left alone.
Programming(from, to) == At(from, to) /\ UNCHANGED <<xhc, pci_vars, msi_vars>>

\* Ports shared with an EHCI controller are routed to the new one, if both are
\* Intel's.
SwitchEhci2Xhci ==
  /\ Programming("switch", "devices")
  /\ ehci_ports' = (ehci_ports /\ ~(machine[xhc].vendor = "intel" /\ OfIntel("ehci") # {}))
  /\ UNCHANGED <<filled, given, controller_vars, pool>>

\* Memory for a purpose; if there is none, Initialize fails and the kernel stops.
Allocate(from, to, purpose, size, alignment, boundary) ==
  /\ start = from
  /\ AllocMem(size, alignment, boundary)
  /\ start' = IF Allocated(size, alignment, boundary) = Null THEN "stopped" ELSE to
  /\ given' = [given EXCEPT ![purpose] = Allocated(size, alignment, boundary)]
  /\ UNCHANGED <<xhc, pci_vars, msi_vars, ehci_ports, filled>>

\* DeviceManager::Initialize.
AllocateDevices ==
  /\ Allocate("devices", "contexts", "devices", Slots + 1, 0, 0)
  /\ UNCHANGED controller_vars

AllocateContexts ==
  /\ Allocate("contexts", "own", "contexts", Slots + 1, Line, Page)
  /\ UNCHANGED controller_vars

\* A controller that is the operating system's already is not waited for.
RequestHCOwnership ==
  /\ \/ Programming("own", "halt") /\ (~legacy \/ owner.os) /\ UNCHANGED owner
     \/ Programming("own", "wait_owned") /\ legacy /\ ~owner.os
        /\ owner' = [owner EXCEPT !.os = TRUE]
  /\ UNCHANGED <<ehci_ports, filled, given, legacy, registers, scratchpads, pool>>

WaitOwned ==
  /\ Programming("wait_owned", "halt")
  /\ ~owner.bios /\ owner.os
  /\ UNCHANGED <<ehci_ports, filled, given, controller_vars, pool>>

\* The run bit is written back as it was read.
StopController_Mutant ==
  /\ Programming("halt", "wait_halted")
  /\ WriteOp([r \in {"INTE"} |-> 0])
  /\ UNCHANGED <<ehci_ports, filled, given, owner, legacy, run_stop, reset, halted, not_ready, scratchpads, pool>>

\* USBCMD read, its interrupt bits cleared, and its run bit if the controller is
\* not halted; written back.
StopController ==
  /\ Programming("halt", "wait_halted")
  /\ run_stop' = (run_stop /\ halted)
  /\ WriteOp([r \in {"INTE"} |-> 0])
  /\ UNCHANGED <<ehci_ports, filled, given, owner, legacy, reset, halted, not_ready, scratchpads, pool>>

\* The reset does not wait for the halt.
WaitHalted_Mutant ==
  /\ Programming("wait_halted", "reset")
  /\ UNCHANGED <<ehci_ports, filled, given, controller_vars, pool>>

WaitHalted ==
  /\ Programming("wait_halted", "reset")
  /\ halted
  /\ UNCHANGED <<ehci_ports, filled, given, controller_vars, pool>>

ResetController ==
  /\ Programming("reset", "wait_reset")
  /\ reset' = TRUE
  /\ UNCHANGED <<ehci_ports, filled, given, owner, legacy, op, run_stop, halted, not_ready, scratchpads, pool>>

\* The end of the reset is taken for the end of it all.
WaitReset_Mutant ==
  /\ Programming("wait_reset", "config")
  /\ ~reset
  /\ UNCHANGED <<ehci_ports, filled, given, controller_vars, pool>>

WaitReset ==
  /\ Programming("wait_reset", "wait_ready")
  /\ ~reset
  /\ UNCHANGED <<ehci_ports, filled, given, controller_vars, pool>>

WaitReady ==
  /\ Programming("wait_ready", "config")
  /\ ~not_ready
  /\ UNCHANGED <<ehci_ports, filled, given, controller_vars, pool>>

\* A register is written.
Program(from, to, values) ==
  /\ Programming(from, to)
  /\ WriteOp(values)
  /\ UNCHANGED <<ehci_ports, filled, given, owner, legacy, run_stop, reset, halted, not_ready, scratchpads, pool>>

EnableSlots ==
  Program("config", IF scratchpads > 0 THEN "array" ELSE "dcbaap", [r \in {"CONFIG"} |-> Slots])

\* Neither the array nor a buffer is looked at before it is used: without memory
\* it is the one at address 0.
AllocateArray ==
  /\ Programming("array", "buffers")
  /\ AllocMem(scratchpads, Line, Page)
  /\ given' = [given EXCEPT !["array"] = Allocated(scratchpads, Line, Page)]
  /\ UNCHANGED <<ehci_ports, filled, controller_vars>>

AllocateScratchpad ==
  /\ filled < scratchpads
  /\ Programming("buffers", IF filled + 1 = scratchpads THEN "dcbaap" ELSE "buffers")
  /\ AllocMem(Page, Page, Page)
  /\ filled' = filled + 1
  /\ UNCHANGED <<ehci_ports, given, controller_vars>>

PointToContexts == Program("dcbaap", "commands", [r \in {"DCBAAP"} |-> given["contexts"]])

AllocateCommandRing ==
  /\ Allocate("commands", "crcr", "commands", RingBytes, Line, Segment)
  /\ UNCHANGED controller_vars

RegisterCommandRing == Program("crcr", "events", [r \in {"CRCR"} |-> given["commands"]])

\* EventRing::Initialize; the register with the table is the one that makes the
\* controller look at it, and comes last.
AllocateEventRing ==
  /\ Allocate("events", "table", "events", RingBytes, Line, Segment)
  /\ UNCHANGED controller_vars

AllocateTable ==
  /\ Allocate("table", "erstsz", "table", EntryBytes, Line, Segment)
  /\ UNCHANGED controller_vars

WriteTableSize == Program("erstsz", "erdp", [r \in {"ERSTSZ"} |-> 1])
WriteDequeuePointer == Program("erdp", "erstba", [r \in {"ERDP"} |-> given["events"]])
WriteTable == Program("erstba", "iman", [r \in {"ERSTBA"} |-> given["table"]])
EnableInterrupter == Program("iman", "inte", [r \in {"IMAN"} |-> 1])
EnableController == Program("inte", "run", [r \in {"INTE"} |-> 1])

Run ==
  /\ Programming("run", "wait_running")
  /\ run_stop' = TRUE
  /\ UNCHANGED <<ehci_ports, filled, given, owner, legacy, op, reset, halted, not_ready, scratchpads, pool>>

WaitRunning ==
  /\ Programming("wait_running", "running")
  /\ ~halted
  /\ UNCHANGED <<ehci_ports, filled, given, controller_vars, pool>>

Driver ==
  \/ ScanBuses \/ PickController \/ ConfigureMessages \/ SwitchEhci2Xhci
  \/ AllocateDevices \/ AllocateContexts \/ RequestHCOwnership \/ WaitOwned
  \/ StopController \/ WaitHalted \/ ResetController \/ WaitReset \/ WaitReady
  \/ EnableSlots \/ AllocateArray \/ AllocateScratchpad \/ PointToContexts
  \/ AllocateCommandRing \/ RegisterCommandRing \/ AllocateEventRing \/ AllocateTable
  \/ WriteTableSize \/ WriteDequeuePointer \/ WriteTable \/ EnableInterrupter
  \/ EnableController \/ Run \/ WaitRunning

StartNext == KernelMain \/ Driver \/ Controller

-----------------------------------------------------------------------------
(* Properties.                                                             *)

\* The controller is halted when it is reset, as the xHCI standard demands,
\* whatever the firmware was doing with it.
ResetWhenHalted == [][reset' /\ ~reset => halted]_start_vars

\* When it is set running it has what the driver wrote: nothing got lost in a
\* reset or was overwritten by the firmware, and the structures its registers point
\* to, the contexts, both rings and the table, are such as have been allocated for it.
\* The scratchpad is not among them, whose lack the driver does not notice.
RunsAsProgrammed ==
  start \in {"wait_running", "running"} =>
    /\ op = [CONFIG |-> Slots, DCBAAP |-> given["contexts"], CRCR |-> given["commands"],
             ERSTSZ |-> 1, ERDP |-> given["events"], ERSTBA |-> given["table"],
             IMAN |-> 1, INTE |-> 1]
    /\ \A p \in {"contexts", "commands", "events", "table"} : \E b \in blocks : b.at = given[p]

=============================================================================
