------------------------------ MODULE XhciPorts ------------------------------
(***************************************************************************)
(* The root hub port state machine of the xHCI driver                      *)
(* (src/kernel/usb/xhci/xhci.cpp): the boot loop of Initialize and the     *)
(* event handlers that ProcessEvent runs, one event at a time. Each runs   *)
(* to completion on the one kernel thread, so each is one action; the      *)
(* controller (module XhciController) acts between any two of them.        *)
(*                                                                         *)
(* An operator named _Mutant is what a plausible slip would have made of   *)
(* the definition after it. Nothing refers to it: it shows, substituted    *)
(* for that definition, that a property notices.                           *)
(***************************************************************************)
EXTENDS XhciController, FiniteSets

VARIABLES
  port_config_phase,  \* indexed by port number; entry 0 exists and is unused
  addressing_port,    \* port between reset and address assignment, 0 if none
  boot                \* loop variable i of Initialize; beyond MaxPorts: done

hardware == <<portsc, commands, events, devices, slots, budget>>
software == <<port_config_phase, addressing_port, boot>>
vars == <<hardware, software>>

ConfigPhase ==
  {"kNotConnected", "kWaitingAddressed", "kResettingPort", "kEnablingSlot",
   "kAddressingDevice", "kInitializingDevice", "kConfiguringEndpoints",
   "kConfigured"}

\* The stretch that only one port at a time may be in.
AddressingPhases == {"kResettingPort", "kEnablingSlot", "kAddressingDevice"}

Init ==
  /\ ControllerInit
  /\ port_config_phase = [p \in 0..MaxPorts |-> "kNotConnected"]
  /\ addressing_port = 0
  /\ boot = 1

-----------------------------------------------------------------------------
(* What the handlers are made of.                                          *)

\* Without the check that another port is being addressed.
ResetPort_Mutant(p, owner, phase) ==
  LET same == [ok |-> TRUE, owner |-> owner, phase |-> phase, reset |-> 0] IN
  IF ~portsc[p].ccs THEN same
  ELSE [same EXCEPT !.owner = p, !.phase[p] = "kResettingPort", !.reset = p]

\* ResetPort called with the given addressing_port and port_config_phase: their
\* values on return, the port whose reset it carried out (0: none), and whether
\* it succeeded.
ResetPort(p, owner, phase) ==
  LET same == [ok |-> TRUE, owner |-> owner, phase |-> phase, reset |-> 0] IN
  CASE ~portsc[p].ccs -> same
    [] portsc[p].ccs /\ owner # 0 -> [same EXCEPT !.phase[p] = "kWaitingAddressed"]
    [] /\ portsc[p].ccs /\ owner = 0
       /\ phase[p] \notin {"kNotConnected", "kWaitingAddressed"} -> [same EXCEPT !.ok = FALSE]
    [] OTHER -> [same EXCEPT !.owner = p, !.phase[p] = "kResettingPort", !.reset = p]

\* Port::Reset clears CSC, starts the reset and spins until the controller is
\* through with it, which leaves the port enabled and PRC set, and reported.
Reset(p) ==
  IF p = 0 THEN UNCHANGED portsc
  ELSE portsc' = [portsc EXCEPT ![p] =
         [@ EXCEPT !.csc = FALSE, !.prc = TRUE, !.ped = TRUE, !.pending = TRUE]]

\* The effect of a ResetPort whose outcome is r.
AfterReset(r) ==
  /\ addressing_port' = r.owner
  /\ port_config_phase' = r.phase
  /\ Reset(r.reset)

SetPhase(p, phase) == port_config_phase' = [port_config_phase EXCEPT ![p] = phase]

Push(type, slot) == commands' = Append(commands, [type |-> type, slot |-> slot])

\* The phase is not advanced, so that a second change event finds it as it was.
EnableSlot_Mutant(p) ==
  /\ portsc' = [portsc EXCEPT ![p].prc = FALSE]
  /\ Push("EnableSlot", 0)
  /\ UNCHANGED port_config_phase

EnableSlot(p) ==
  IF portsc[p].ped /\ portsc[p].prc
    THEN /\ portsc' = [portsc EXCEPT ![p].prc = FALSE]
         /\ SetPhase(p, "kEnablingSlot")
         /\ Push("EnableSlot", 0)
    ELSE UNCHANGED <<portsc, port_config_phase, commands>>

\* The devices are counted from 0.
AddressDevice_Mutant(p, slot) ==
  /\ devices' = [devices EXCEPT ![slot - 1].allocated = TRUE, ![slot - 1].in_port = p]
  /\ SetPhase(p, "kAddressingDevice")
  /\ Push("AddressDevice", slot - 1)

\* The slot context is not initialized.
AddressDevice_BlankMutant(p, slot) ==
  /\ devices' = [devices EXCEPT ![slot].allocated = TRUE]
  /\ SetPhase(p, "kAddressingDevice")
  /\ Push("AddressDevice", slot)

\* AllocDevice keeps a device the slot already has; either way the input
\* context is written.
AddressDevice(p, slot) ==
  /\ devices' = [devices EXCEPT ![slot].allocated = TRUE, ![slot].in_port = p]
  /\ SetPhase(p, "kAddressingDevice")
  /\ Push("AddressDevice", slot)

-----------------------------------------------------------------------------
(* The boot loop and the event handlers.                                   *)

\* One turn of the loop over the ports at the end of Initialize.
ConfigurePort ==
  /\ boot <= MaxPorts
  /\ boot' = boot + 1
  /\ IF portsc[boot].ccs /\ port_config_phase[boot] = "kNotConnected"
       THEN AfterReset(ResetPort(boot, addressing_port, port_config_phase))
       ELSE UNCHANGED <<addressing_port, port_config_phase, portsc>>
  /\ UNCHANGED <<devices, commands, slots, events, budget>>

\* ProcessEvent found an event of this type at the front of the event ring and
\* pops it once the handler has returned.
Handling(type) ==
  /\ boot > MaxPorts
  /\ events # <<>>
  /\ Head(events).type = type
  /\ events' = Tail(events)
  /\ UNCHANGED <<boot, slots, budget>>

\* The handler returned an error, or had nothing to do.
Ignored == UNCHANGED <<port_config_phase, addressing_port, devices, portsc, commands>>

\* Any change of a port starts it over.
OnPortStatusChange_Mutant ==
  /\ Handling("PortStatusChange")
  /\ AfterReset(ResetPort(Head(events).port, addressing_port, port_config_phase))
  /\ UNCHANGED <<devices, commands>>

OnPortStatusChange ==
  /\ Handling("PortStatusChange")
  /\ LET p == Head(events).port IN
     CASE port_config_phase[p] = "kNotConnected" ->
            /\ AfterReset(ResetPort(p, addressing_port, port_config_phase))
            /\ UNCHANGED <<devices, commands>>
       [] port_config_phase[p] = "kResettingPort" ->
            EnableSlot(p) /\ UNCHANGED <<addressing_port, devices>>
       [] OTHER -> Ignored

OnEnableSlotCompleted ==
  /\ Handling("CommandCompletion")
  /\ Head(events).issuer = "EnableSlot"
  /\ IF port_config_phase[addressing_port] = "kEnablingSlot"
       THEN /\ AddressDevice(addressing_port, Head(events).slot)
            /\ UNCHANGED <<addressing_port, portsc>>
       ELSE Ignored

WaitingPorts == {p \in 0..MaxPorts : port_config_phase[p] = "kWaitingAddressed"}

\* Nobody looks for a waiting port.
ResetNextWaiting_Mutant ==
  {[ok |-> TRUE, owner |-> 0, phase |-> port_config_phase, reset |-> 0]}

\* What the scan for the next waiting port leaves behind, the one outcome it has:
\* the lowest-numbered waiting port goes through ResetPort, whatever becomes of it.
ResetNextWaiting ==
  IF WaitingPorts = {}
    THEN {[ok |-> TRUE, owner |-> 0, phase |-> port_config_phase, reset |-> 0]}
    ELSE {ResetPort(p, 0, port_config_phase) :
            p \in {q \in WaitingPorts : \A other \in WaitingPorts : q <= other}}

\* The address is assigned: pass the addressing stretch on, then start to
\* initialize the device (StartInitialize puts its first transfer on ep0).
OnAddressDeviceCompleted ==
  /\ Handling("CommandCompletion")
  /\ Head(events).issuer = "AddressDevice"
  /\ LET slot == Head(events).slot
         p == devices[slot].out_port
     IN  IF /\ devices[slot].allocated
            /\ p = addressing_port
            /\ port_config_phase[p] = "kAddressingDevice"
           THEN /\ \E r \in ResetNextWaiting :
                     IF r.ok
                       THEN /\ AfterReset([r EXCEPT !.phase[p] = "kInitializingDevice"])
                            /\ devices' = [devices EXCEPT ![slot].init = 1,
                                                          ![slot].transfer = TRUE]
                       ELSE AfterReset(r) /\ UNCHANGED devices
                /\ UNCHANGED commands
           ELSE Ignored

\* OnEndpointsConfigured makes the class driver start its reports.
OnConfigureEndpointCompleted ==
  /\ Handling("CommandCompletion")
  /\ Head(events).issuer = "ConfigureEndpoint"
  /\ LET slot == Head(events).slot
         p == devices[slot].out_port
     IN  IF devices[slot].allocated /\ port_config_phase[p] = "kConfiguringEndpoints"
           THEN /\ SetPhase(p, "kConfigured")
                /\ devices' = [devices EXCEPT ![slot].transfer = TRUE]
                /\ UNCHANGED <<addressing_port, portsc, commands>>
           ELSE Ignored

\* The device after a transfer that succeeded: three control transfers take it
\* through initialization, unless no class driver wants it after the second;
\* later ones are reports, each of which asks for the next.
AfterTransfer(dev) ==
  IF dev.init = 2 /\ dev.in_port \in Unsupported THEN dev
  ELSE IF dev.init \in 1..3 THEN [dev EXCEPT !.init = @ + 1, !.transfer = dev.init < 3]
  ELSE [dev EXCEPT !.transfer = TRUE]

\* SetConfiguration has been issued but not completed.
IsInitialized_Mutant(dev) == dev.init >= 3

IsInitialized(dev) == dev.init = 4

\* ConfigureEndpoints gives up, before it changes the phase, when PORTSC shows no
\* valid speed: without a device on the port the field is undefined.
OnTransfer ==
  /\ Handling("Transfer")
  /\ LET slot == Head(events).slot
         dev == AfterTransfer(devices[slot])
         p == dev.out_port
     IN  IF devices[slot].allocated /\ Head(events).ok
           THEN /\ devices' = [devices EXCEPT ![slot] = dev]
                /\ \/ /\ IsInitialized(dev)
                      /\ port_config_phase[p] = "kInitializingDevice"
                      /\ SetPhase(p, "kConfiguringEndpoints")
                      /\ Push("ConfigureEndpoint", slot)
                   \/ /\ IsInitialized(dev) /\ port_config_phase[p] = "kInitializingDevice"
                         => ~portsc[p].ccs
                      /\ UNCHANGED <<port_config_phase, commands>>
                /\ UNCHANGED <<addressing_port, portsc>>
           ELSE Ignored

ProcessEvent ==
  \/ OnPortStatusChange
  \/ OnTransfer
  \/ OnEnableSlotCompleted
  \/ OnAddressDeviceCompleted
  \/ OnConfigureEndpointCompleted

-----------------------------------------------------------------------------

Next ==
  \/ ConfigurePort
  \/ ProcessEvent
  \/ ControllerNext /\ UNCHANGED software

Spec == Init /\ [][Next]_vars

\* The event loop keeps running and interrupts are not lost (module EventLoop),
\* and the controller keeps executing what it is given. Plugging, unplugging,
\* failing and reporting are not obligatory.
Fairness ==
  /\ WF_vars(ConfigurePort)
  /\ WF_vars(ProcessEvent)
  /\ WF_vars(ExecuteCommand /\ UNCHANGED software)
  /\ \A p \in Ports : WF_vars(ReportPortChange(p) /\ UNCHANGED software)
  /\ \A s \in Slots : WF_vars(CompleteTransfer(s) /\ UNCHANGED software)

FairSpec == Spec /\ Fairness

-----------------------------------------------------------------------------
(* Properties.                                                             *)

\* Every variable has its type: in particular addressing_port is a port number,
\* and the initialization phase of a device stays within the ones that exist.
TypeOK ==
  /\ ControllerTypeOK
  /\ port_config_phase \in [0..MaxPorts -> ConfigPhase]
  /\ addressing_port \in 0..MaxPorts
  /\ boot \in 1..(MaxPorts + 1)

\* Between the reset of a port and the assignment of its address no other port
\* is in that stretch, and addressing_port names the one that is
\* (xhci.cpp:35-46): a device at the default address 0 is alone there, whatever
\* events, failures and disconnections come in between.
ExclusiveAddressing ==
  \A p \in 0..MaxPorts :
    port_config_phase[p] \in AddressingPhases <=> addressing_port = p /\ p # 0

\* The commands of a type (and slot) whose completion is still to be handled.
InFlight(type, slot) ==
  {<<"command", i>> : i \in {j \in DOMAIN commands : commands[j] = [type |-> type, slot |-> slot]}}
  \cup
  {<<"event", i>> : i \in {j \in DOMAIN events :
     events[j] = [type |-> "CommandCompletion", issuer |-> type, slot |-> slot]}}

InFlightAny(type) == UNION {InFlight(type, s) : s \in Slots}

\* A completion event is matched to a port through addressing_port or the slot
\* alone, so no port may have two commands under way, none may be left over
\* from an earlier phase, and a port that waits for EnableSlot or for
\* ConfigureEndpoint has that command under way, with nothing lost. (An
\* AddressDevice that failed is dropped by its handler, so there only "at most".)
\* Hence too that the command ring, 31 usable entries that Push does not check,
\* never overflows: one command per slot (8 of them) and one for the addressing.
CommandsMatchPhases ==
  /\ Cardinality(InFlightAny("EnableSlot")) =
       IF \E p \in Ports : port_config_phase[p] = "kEnablingSlot" THEN 1 ELSE 0
  /\ InFlightAny("AddressDevice") # {} =>
       /\ port_config_phase[addressing_port] = "kAddressingDevice"
       /\ Cardinality(InFlightAny("AddressDevice")) = 1
  /\ \A s \in Slots :
       Cardinality(InFlight("ConfigureEndpoint", s)) =
         IF port_config_phase[devices[s].out_port] = "kConfiguringEndpoints" THEN 1 ELSE 0
  /\ Len(commands) <= MaxSlots + 1

\* From AddressDevice on a port has exactly one device, and the two places the
\* code looks the port up in (input context, device context) never disagree:
\* no handler acts on another port's device.
OneDevicePerPort ==
  /\ \A s \in Slots : devices[s].out_port \in {0, devices[s].in_port}
  /\ \A p \in Ports :
       Cardinality({s \in Slots : devices[s].in_port = p}) =
         IF port_config_phase[p] \in {"kAddressingDevice", "kInitializingDevice",
                                     "kConfiguringEndpoints", "kConfigured"}
           THEN 1 ELSE 0

NothingFailed == budget.fail = MaxFailures

\* Unless the controller failed something, kConfigured means what it says, even
\* if the device has been pulled out on the way: the port's device went through
\* all of its initialization and the controller has its endpoints.
ConfiguredMeansReady ==
  NothingFailed => \A p \in Ports : port_config_phase[p] = "kConfigured" =>
    \E s \in Slots \ {0} : /\ devices[s].out_port = p
                          /\ devices[s].init = 4
                          /\ devices[s].endpoints

\* Entry 0 of the device context base address array holds the scratchpad array
\* (xhci.cpp:391). LoadDCBAA overwrites it only when a device is given slot 0,
\* the slot of a failed EnableSlot; with enough slots and no failure it never is.
ScratchpadKept == NothingFailed /\ MaxPorts <= MaxSlots => ~devices[0].allocated

\* kWaitingAddressed means that the port waits for its turn (xhci.cpp:35-39), so
\* while a connected port waits, somebody has the turn and will pass it on.
WaitingHasATurnComing ==
  (\E p \in Ports : port_config_phase[p] = "kWaitingAddressed" /\ portsc[p].ccs)
    => addressing_port # 0

\* A port moves through the phases in their order and never back, one phase at
\* a time, except that it need not wait.
Successors ==
  [kNotConnected |-> {"kWaitingAddressed", "kResettingPort"},
   kWaitingAddressed |-> {"kResettingPort"},
   kResettingPort |-> {"kEnablingSlot"},
   kEnablingSlot |-> {"kAddressingDevice"},
   kAddressingDevice |-> {"kInitializingDevice"},
   kInitializingDevice |-> {"kConfiguringEndpoints"},
   kConfiguringEndpoints |-> {"kConfigured"},
   kConfigured |-> {}]

PhasesAdvance ==
  \A p \in Ports : port_config_phase'[p] # port_config_phase[p] =>
    port_config_phase'[p] \in Successors[port_config_phase[p]]

PhasesInOrder == [][PhasesAdvance]_port_config_phase

\* As long as no device is pulled out and the controller fails nothing, every
\* device that is or gets plugged in and has a driver ends up configured, however
\* many ports compete for the turn and whatever the order of the events.
EveryDeviceConfigured ==
  \A p \in Ports \ Unsupported :
    portsc[p].ccs ~> port_config_phase[p] = "kConfigured"

\* The order in which ports are served is that of the abstract sequencer.
StageOf(phase) ==
  CASE phase = "kNotConnected" -> "idle"
    [] phase = "kWaitingAddressed" -> "waiting"
    [] phase \in AddressingPhases -> "owner"
    [] OTHER -> "done"

Sequencer == INSTANCE PortSequencer WITH
  None <- 0,
  owner <- addressing_port,
  stage <- [p \in Ports |-> StageOf(port_config_phase[p])]

\* The driver implements the one-at-a-time sequencer of PortSequencer, which
\* leaves nobody waiting behind, as long as nobody pulls a device out.
ImplementsSequencer == Sequencer!Spec

=============================================================================
