--------------------------- MODULE XhciController ---------------------------
(***************************************************************************)
(* The world around src/kernel/usb/xhci: the host controller, which        *)
(* executes commands, completes transfers and reports port changes in its  *)
(* own time, and the user, who plugs devices in and pulls them out. It is  *)
(* hardware, modelled by what the driver in src/ relies on; module         *)
(* XhciPorts is the driver that runs against it.                           *)
(***************************************************************************)
EXTENDS Integers, Sequences

CONSTANTS
  MaxPorts,     \* HCSPARAMS1.max_ports
  MaxSlots,     \* kDeviceSize, the number of device slots enabled in CONFIG
  Unsupported,  \* ports whose device NewClassDriver has no driver for
  LowestSlot,   \* whether the controller hands out the lowest free slot
  MaxPlugs,     \* bound: devices plugged in after power on
  MaxUnplugs,   \* bound: devices pulled out
  MaxFailures,  \* bound: commands and transfers the controller fails
  MaxReports    \* bound: reports that configured devices send

ASSUME PortsAssumption == MaxPorts \in Nat \ {0}
ASSUME SlotsAssumption == MaxSlots \in Nat \ {0}
ASSUME EnvironmentAssumption ==
  /\ Unsupported \subseteq 1..MaxPorts
  /\ LowestSlot \in BOOLEAN
  /\ {MaxPlugs, MaxUnplugs, MaxFailures, MaxReports} \subseteq Nat

VARIABLES
  portsc,    \* PORTSC of each port, and its pending change report
  commands,  \* command ring: pushed and not yet executed
  events,    \* event ring: posted and not yet popped
  devices,   \* by slot, what driver and controller share of a device
  slots,     \* slots the controller has enabled
  budget     \* what the environment may still do

Ports == 1..MaxPorts
Slots == 0..MaxSlots

\* pending: the controller owes a Port Status Change Event for the port.
PortStatus ==
  [ccs: BOOLEAN, ped: BOOLEAN, csc: BOOLEAN, prc: BOOLEAN, pending: BOOLEAN]

CommandType == {"EnableSlot", "AddressDevice", "ConfigureEndpoint"}
Command == [type: CommandType, slot: Slots]

PortStatusChange == [type: {"PortStatusChange"}, port: Ports]
Transfer == [type: {"Transfer"}, slot: Slots, ok: BOOLEAN]
CommandCompletion ==
  [type: {"CommandCompletion"}, issuer: CommandType, slot: Slots]
Event == PortStatusChange \cup Transfer \cup CommandCompletion

\* An entry of DeviceManager::devices_ with the contexts of its slot. in_port and
\* out_port are root_hub_port_num of the input context, which the driver writes,
\* and of the device context, which the controller writes. init is
\* initialize_phase_ (4 goes with is_initialized_). transfer: a transfer is on one
\* of its rings. endpoints: the controller has its endpoints configured.
Device ==
  [allocated: BOOLEAN, in_port: 0..MaxPorts, out_port: 0..MaxPorts,
   init: 0..4, transfer: BOOLEAN, endpoints: BOOLEAN]

Blank ==
  [allocated |-> FALSE, in_port |-> 0, out_port |-> 0,
   init |-> 0, transfer |-> FALSE, endpoints |-> FALSE]

Budget ==
  [plug: 0..MaxPlugs, unplug: 0..MaxUnplugs, fail: 0..MaxFailures, report: 0..MaxReports]

\* The controller has just been started. A device that is there already may or
\* may not be reported by an event.
ControllerInit ==
  /\ portsc \in [Ports -> {st \in PortStatus :
                             /\ ~st.ped /\ ~st.prc
                             /\ st.csc = st.ccs
                             /\ st.pending => st.csc}]
  /\ commands = <<>>
  /\ events = <<>>
  /\ devices = [s \in Slots |-> Blank]
  /\ slots = {}
  /\ budget = [plug |-> MaxPlugs, unplug |-> MaxUnplugs,
               fail |-> MaxFailures, report |-> MaxReports]

-----------------------------------------------------------------------------

Spend(what) ==
  /\ budget[what] > 0
  /\ budget' = [budget EXCEPT ![what] = @ - 1]

Post(event) == events' = Append(events, event)

\* A change is reported only when no change bit was set before it.
SetConnection(p, connected) ==
  /\ portsc[p].ccs # connected
  /\ portsc' = [portsc EXCEPT ![p] =
       [@ EXCEPT !.ccs = connected, !.ped = FALSE, !.csc = TRUE,
                 !.pending = portsc[p].pending \/ ~(portsc[p].csc \/ portsc[p].prc)]]
  /\ UNCHANGED <<commands, events, devices, slots>>

Plug(p) == Spend("plug") /\ SetConnection(p, TRUE)
Unplug(p) == Spend("unplug") /\ SetConnection(p, FALSE)

ReportPortChange(p) ==
  /\ portsc[p].pending
  /\ portsc' = [portsc EXCEPT ![p].pending = FALSE]
  /\ Post([type |-> "PortStatusChange", port |-> p])
  /\ UNCHANGED <<commands, devices, slots, budget>>

\* The command at the front of the ring ends. The completion carries the slot
\* that EnableSlot obtained, 0 if there was none, and otherwise the slot of the
\* command. The completion code is left out: the driver never looks at it.
Complete(type, slot) ==
  /\ commands # <<>>
  /\ Head(commands).type = type
  /\ commands' = Tail(commands)
  /\ Post([type |-> "CommandCompletion", issuer |-> type, slot |-> slot])
  /\ UNCHANGED portsc

FreeSlots == (Slots \ {0}) \ slots

ExecuteEnableSlot ==
  /\ \E s \in FreeSlots :
       /\ LowestSlot => \A t \in FreeSlots : s <= t
       /\ slots' = slots \cup {s}
       /\ Complete("EnableSlot", s)
  /\ UNCHANGED <<devices, budget>>

\* There is no port 0, as which a context that was never written reads.
Enabled(p) == p \in Ports /\ portsc[p].ped

Addressable(s) == s \in slots /\ Enabled(devices[s].in_port)

ExecuteAddressDevice ==
  /\ \E s \in slots :
       /\ Complete("AddressDevice", s)
       /\ Head(commands).slot = s
       /\ Addressable(s)
       /\ devices' = [devices EXCEPT ![s].out_port = devices[s].in_port]
  /\ UNCHANGED <<slots, budget>>

ExecuteConfigureEndpoint ==
  /\ \E s \in slots :
       /\ Complete("ConfigureEndpoint", s)
       /\ Head(commands).slot = s
       /\ devices' = [devices EXCEPT ![s].endpoints = TRUE]
  /\ UNCHANGED <<slots, budget>>

\* A command that cannot succeed, for want of a slot or of the device, fails;
\* any other one may.
FailCommand ==
  /\ commands # <<>>
  /\ LET cmd == Head(commands) IN
     /\ Complete(cmd.type, cmd.slot)
     /\ \/ /\ \/ cmd.type = "EnableSlot" /\ FreeSlots = {}
              \/ cmd.type = "AddressDevice" /\ ~Addressable(cmd.slot)
           /\ UNCHANGED budget
        \/ Spend("fail")
  /\ UNCHANGED <<devices, slots>>

ExecuteCommand ==
  ExecuteEnableSlot \/ ExecuteAddressDevice \/ ExecuteConfigureEndpoint \/ FailCommand

TransferEnds(s, ok) ==
  /\ devices' = [devices EXCEPT ![s].transfer = FALSE]
  /\ Post([type |-> "Transfer", slot |-> s, ok |-> ok])
  /\ UNCHANGED <<portsc, commands, slots>>

\* A transfer of the initialization ends, well only if the port is enabled.
CompleteTransfer(s) ==
  /\ devices[s].transfer
  /\ devices[s].init < 4
  /\ \/ UNCHANGED budget /\ TransferEnds(s, Enabled(devices[s].out_port))
     \/ Spend("fail") /\ TransferEnds(s, FALSE)

\* A configured device reports something.
Report(s) ==
  /\ devices[s].transfer
  /\ devices[s].init = 4
  /\ devices[s].endpoints
  /\ Enabled(devices[s].out_port)
  /\ Spend("report")
  /\ TransferEnds(s, TRUE)

ControllerNext ==
  \/ \E p \in Ports : Plug(p) \/ Unplug(p) \/ ReportPortChange(p)
  \/ ExecuteCommand
  \/ \E s \in Slots : CompleteTransfer(s) \/ Report(s)

ControllerTypeOK ==
  /\ portsc \in [Ports -> PortStatus]
  /\ commands \in Seq(Command)
  /\ events \in Seq(Event)
  /\ devices \in [Slots -> Device]
  /\ slots \subseteq Slots \ {0}
  /\ budget \in Budget
=============================================================================
