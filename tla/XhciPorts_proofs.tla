-------------------------- MODULE XhciPorts_proofs --------------------------
(***************************************************************************)
(* Proofs about XhciPorts, for any number of ports, slots, disconnections  *)
(* and failures.                                                           *)
(***************************************************************************)
EXTENDS XhciPorts, FiniteSetTheorems, TLAPS

USE PortsAssumption, SlotsAssumption

-----------------------------------------------------------------------------
(* What is at the front of the rings.                                      *)

\* Of a typed event ring, what is at the front and what is behind it are typed.
LEMMA FrontEvent ==
  ASSUME events \in Seq(Event), events # <<>>
  PROVE  /\ Head(events) \in Event
         /\ Tail(events) \in Seq(Event)
OBVIOUS

\* An event has the fields that its handlers read.
LEMMA EventFields ==
  ASSUME NEW e \in Event
  PROVE  /\ e.type = "PortStatusChange" => e.port \in Ports
         /\ e.type = "Transfer" => e.slot \in Slots /\ e.ok \in BOOLEAN
         /\ e.type = "CommandCompletion" => e.slot \in Slots /\ e.issuer \in CommandType
BY DEF Event, PortStatusChange, Transfer, CommandCompletion

\* Posting an event keeps the event ring typed.
LEMMA Posted ==
  ASSUME events \in Seq(Event), NEW e \in Event, Post(e)
  PROVE  events' \in Seq(Event)
BY DEF Post

\* Of a typed command ring, what is at the front and what is behind it are typed.
LEMMA FrontCommand ==
  ASSUME commands \in Seq(Command), commands # <<>>
  PROVE  /\ Head(commands).type \in CommandType
         /\ Head(commands).slot \in Slots
         /\ Tail(commands) \in Seq(Command)
<1>1. Head(commands) \in Command /\ Tail(commands) \in Seq(Command)
  OBVIOUS
<1>2. QED
  BY <1>1 DEF Command

\* Pushing a command keeps the command ring typed.
LEMMA Pushed ==
  ASSUME commands \in Seq(Command), NEW type \in CommandType, NEW slot \in Slots,
         Push(type, slot)
  PROVE  commands' \in Seq(Command)
BY DEF Push, Command

-----------------------------------------------------------------------------
(* ResetPort.                                                              *)

Outcome == [ok: BOOLEAN, owner: 0..MaxPorts,
            phase: [0..MaxPorts -> ConfigPhase], reset: 0..MaxPorts]

\* r leaves everything alone, or makes port p wait because another one is being
\* addressed, or resets it because none is.
ResetPortOutcomes(r, p, owner, phase) ==
  /\ phase[p] = "kWaitingAddressed" => r.ok = TRUE
  /\ r \in Outcome
  /\ \/ r.owner = owner /\ r.phase = phase
     \/ /\ owner # 0
        /\ r.owner = owner
        /\ r.phase = [phase EXCEPT ![p] = "kWaitingAddressed"]
     \/ /\ owner = 0
        /\ phase[p] \in {"kNotConnected", "kWaitingAddressed"}
        /\ r.owner = p
        /\ r.phase = [phase EXCEPT ![p] = "kResettingPort"]

\* ResetPort (xhci.cpp:91-113) does one of these three things.
LEMMA ResetPortOutcome ==
  ASSUME NEW p \in Ports, NEW owner \in 0..MaxPorts,
         NEW phase \in [0..MaxPorts -> ConfigPhase]
  PROVE  ResetPortOutcomes(ResetPort(p, owner, phase), p, owner, phase)
<1> DEFINE r == ResetPort(p, owner, phase)
           Waiting == [phase EXCEPT ![p] = "kWaitingAddressed"]
           Resetting == [phase EXCEPT ![p] = "kResettingPort"]
<1>1. \/ /\ r = [ok |-> TRUE, owner |-> owner, phase |-> phase, reset |-> 0]
      \/ /\ owner # 0
         /\ r = [ok |-> TRUE, owner |-> owner, phase |-> Waiting, reset |-> 0]
      \/ /\ owner = 0 /\ phase[p] \notin {"kNotConnected", "kWaitingAddressed"}
         /\ r = [ok |-> FALSE, owner |-> owner, phase |-> phase, reset |-> 0]
      \/ /\ owner = 0 /\ phase[p] \in {"kNotConnected", "kWaitingAddressed"}
         /\ r = [ok |-> TRUE, owner |-> p, phase |-> Resetting, reset |-> p]
  BY DEF ResetPort
<1>2. /\ Waiting \in [0..MaxPorts -> ConfigPhase]
      /\ Resetting \in [0..MaxPorts -> ConfigPhase]
      /\ p \in 0..MaxPorts
  BY DEF Ports, ConfigPhase
<1> HIDE DEF r
<1>3. ResetPortOutcomes(r, p, owner, phase)
  <2>1. CASE r = [ok |-> TRUE, owner |-> owner, phase |-> phase, reset |-> 0]
    BY <2>1 DEF ResetPortOutcomes, Outcome
  <2>2. CASE /\ owner # 0
             /\ r = [ok |-> TRUE, owner |-> owner, phase |-> Waiting, reset |-> 0]
    BY <1>2, <2>2 DEF ResetPortOutcomes, Outcome
  <2>3. CASE /\ owner = 0 /\ phase[p] \notin {"kNotConnected", "kWaitingAddressed"}
             /\ r = [ok |-> FALSE, owner |-> owner, phase |-> phase, reset |-> 0]
    BY <2>3 DEF ResetPortOutcomes, Outcome
  <2>4. CASE /\ owner = 0 /\ phase[p] \in {"kNotConnected", "kWaitingAddressed"}
             /\ r = [ok |-> TRUE, owner |-> p, phase |-> Resetting, reset |-> p]
    BY <1>2, <2>4 DEF ResetPortOutcomes, Outcome
  <2>5. QED
    BY <1>1, <2>1, <2>2, <2>3, <2>4
<1>4. QED
  BY <1>3 DEF r

\* A port that is reset keeps the shape of its registers.
LEMMA ResetType ==
  ASSUME portsc \in [Ports -> PortStatus], NEW p \in 0..MaxPorts, Reset(p)
  PROVE  portsc' \in [Ports -> PortStatus]
<1>1. CASE p = 0
  BY <1>1 DEF Reset
<1>2. CASE p # 0
  <2>1. p \in Ports
    BY <1>2 DEF Ports
  <2>2. [portsc[p] EXCEPT !.csc = FALSE, !.prc = TRUE, !.ped = TRUE, !.pending = TRUE]
          \in PortStatus
    BY <2>1 DEF PortStatus
  <2>3. QED
    BY <1>2, <2>1, <2>2 DEF Reset
<1>3. QED
  BY <1>1, <1>2

\* A device stays one when its initialization and transfers go on.
LEMMA DeviceTransfers ==
  ASSUME NEW dev \in Device, NEW init \in 0..4, NEW transfer \in BOOLEAN
  PROVE  [dev EXCEPT !.init = init, !.transfer = transfer] \in Device
BY DEF Device

-----------------------------------------------------------------------------
(* The inductive invariant. addressing_port, and the port of a device that *)
(* has no address yet, can be 0; that entry 0 of port_config_phase never   *)
(* leaves kNotConnected is what keeps the handlers from acting on port 0.  *)

EntryZeroUnused == port_config_phase[0] = "kNotConnected"

PhasesOK ==
  /\ port_config_phase \in [0..MaxPorts -> ConfigPhase]
  /\ addressing_port \in 0..MaxPorts
  /\ ExclusiveAddressing
  /\ EntryZeroUnused

IInv == TypeOK /\ PhasesOK

\* The driver starts with everything typed and nobody in the stretch.
LEMMA InitIInv == Init => IInv
<1> SUFFICES ASSUME Init PROVE IInv
  OBVIOUS
<1>1. devices \in [Slots -> Device]
  BY DEF Init, ControllerInit, Device, Blank, Slots
<1>2. budget \in Budget
  BY EnvironmentAssumption DEF Init, ControllerInit, Budget
<1>3. ControllerTypeOK
  BY <1>1, <1>2 DEF Init, ControllerInit, ControllerTypeOK
<1>4. PhasesOK
  BY DEF Init, PhasesOK, ExclusiveAddressing, EntryZeroUnused, ConfigPhase, AddressingPhases
<1>5. QED
  BY <1>3, <1>4 DEF Init, IInv, TypeOK, PhasesOK

-----------------------------------------------------------------------------
(* What the parts of the handlers do to the phases.                        *)

\* ResetPort of a port that is not connected yet, with the stretch in the hands
\* of addressing_port or of nobody, leaves one port in it at most, and named.
LEMMA ResetPortPhases ==
  ASSUME IInv, NEW p \in Ports,
         AfterReset(ResetPort(p, addressing_port, port_config_phase)),
         port_config_phase[p] = "kNotConnected"
  PROVE  PhasesOK' /\ portsc' \in [Ports -> PortStatus]
<1> DEFINE r == ResetPort(p, addressing_port, port_config_phase)
<1>1. /\ port_config_phase \in [0..MaxPorts -> ConfigPhase]
      /\ addressing_port \in 0..MaxPorts
      /\ p \in 0..MaxPorts /\ p # 0
      /\ portsc \in [Ports -> PortStatus]
  BY DEF IInv, TypeOK, ControllerTypeOK, Ports
<1>2. /\ addressing_port' = r.owner
      /\ port_config_phase' = r.phase
      /\ Reset(r.reset)
  BY DEF AfterReset
<1>3. ResetPortOutcomes(r, p, addressing_port, port_config_phase)
  BY <1>1, ResetPortOutcome
<1> HIDE DEF r
<1>4. portsc' \in [Ports -> PortStatus]
  BY <1>1, <1>2, <1>3, ResetType DEF ResetPortOutcomes, Outcome
<1>5. PhasesOK'
  BY <1>1, <1>2, <1>3
  DEF ResetPortOutcomes, Outcome, IInv, PhasesOK, ExclusiveAddressing, EntryZeroUnused, ConfigPhase, AddressingPhases
<1>6. QED
  BY <1>4, <1>5

\* The port in the stretch moves on within it.
LEMMA OwnerAdvances ==
  ASSUME IInv, NEW p \in Ports, NEW phase \in AddressingPhases,
         port_config_phase[p] \in AddressingPhases,
         SetPhase(p, phase), UNCHANGED addressing_port
  PROVE  PhasesOK'
BY DEF IInv, PhasesOK, ExclusiveAddressing, EntryZeroUnused, ConfigPhase, AddressingPhases,
       SetPhase, Ports

\* A port outside the stretch moves on outside it.
LEMMA BystanderAdvances ==
  ASSUME IInv, NEW p \in Ports, NEW phase \in ConfigPhase \ AddressingPhases,
         port_config_phase[p] \notin AddressingPhases,
         SetPhase(p, phase), UNCHANGED addressing_port
  PROVE  PhasesOK'
BY DEF IInv, PhasesOK, ExclusiveAddressing, EntryZeroUnused, ConfigPhase, AddressingPhases,
       SetPhase, Ports

\* A step that changes neither variable keeps what is said of them.
LEMMA PhasesKept ==
  ASSUME IInv, UNCHANGED <<port_config_phase, addressing_port>>
  PROVE  PhasesOK'
BY DEF IInv, PhasesOK, ExclusiveAddressing, EntryZeroUnused

-----------------------------------------------------------------------------
(* The steps of the driver.                                                *)

\* TypeOK in the next state, from what differs between the handlers.
LEMMA HandlerType ==
  ASSUME IInv, NEW type, Handling(type), PhasesOK',
         portsc' \in [Ports -> PortStatus],
         commands' \in Seq(Command),
         devices' \in [Slots -> Device]
  PROVE  IInv'
<1>1. events' \in Seq(Event)
  BY FrontEvent DEF IInv, TypeOK, ControllerTypeOK, Handling
<1>2. ControllerTypeOK'
  BY <1>1 DEF IInv, TypeOK, ControllerTypeOK, Handling
<1>3. QED
  BY <1>2 DEF IInv, TypeOK, PhasesOK, Handling

\* An event that is ignored is only popped.
LEMMA IgnoredStep ==
  ASSUME IInv, NEW type, Handling(type), Ignored
  PROVE  IInv'
<1>1. PhasesOK'
  BY PhasesKept DEF Ignored
<1>2. QED
  BY <1>1, HandlerType DEF Ignored, IInv, TypeOK, ControllerTypeOK

\* A turn of the boot loop.
LEMMA ConfigurePortStep ==
  ASSUME IInv, ConfigurePort
  PROVE  IInv'
<1>1. PhasesOK' /\ portsc' \in [Ports -> PortStatus]
  <2>1. CASE portsc[boot].ccs /\ port_config_phase[boot] = "kNotConnected"
    <3>1. boot \in Ports
      BY DEF ConfigurePort, IInv, TypeOK, Ports
    <3>2. AfterReset(ResetPort(boot, addressing_port, port_config_phase))
      BY <2>1 DEF ConfigurePort
    <3>3. QED
      BY <2>1, <3>1, <3>2, ResetPortPhases
  <2>2. CASE ~(portsc[boot].ccs /\ port_config_phase[boot] = "kNotConnected")
    BY <2>2, PhasesKept DEF ConfigurePort, IInv, TypeOK, ControllerTypeOK
  <2>3. QED
    BY <2>1, <2>2
<1>2. boot' \in 1..(MaxPorts + 1)
  BY DEF ConfigurePort, IInv, TypeOK
<1>3. ControllerTypeOK'
  BY <1>1 DEF ConfigurePort, IInv, TypeOK, ControllerTypeOK
<1>4. QED
  BY <1>1, <1>2, <1>3 DEF IInv, TypeOK, PhasesOK

\* A port change either starts a port, or takes the one in reset to EnableSlot.
LEMMA OnPortStatusChangeStep ==
  ASSUME IInv, OnPortStatusChange
  PROVE  IInv'
<1> DEFINE p == Head(events).port
<1>1. Handling("PortStatusChange") /\ p \in Ports
  BY FrontEvent, EventFields DEF OnPortStatusChange, Handling, IInv, TypeOK, ControllerTypeOK
<1>2. \/ /\ port_config_phase[p] = "kNotConnected"
         /\ AfterReset(ResetPort(p, addressing_port, port_config_phase))
         /\ UNCHANGED <<devices, commands>>
      \/ /\ port_config_phase[p] = "kResettingPort"
         /\ EnableSlot(p)
         /\ UNCHANGED <<addressing_port, devices>>
      \/ Ignored
  BY DEF OnPortStatusChange
<1> HIDE DEF p
<1>3. CASE /\ port_config_phase[p] = "kNotConnected"
           /\ AfterReset(ResetPort(p, addressing_port, port_config_phase))
           /\ UNCHANGED <<devices, commands>>
  <2>1. PhasesOK' /\ portsc' \in [Ports -> PortStatus]
    BY <1>1, <1>3, ResetPortPhases
  <2>2. QED
    BY <1>1, <1>3, <2>1, HandlerType DEF IInv, TypeOK, ControllerTypeOK
<1>4. CASE /\ port_config_phase[p] = "kResettingPort"
           /\ EnableSlot(p)
           /\ UNCHANGED <<addressing_port, devices>>
  <2>1. CASE portsc[p].ped /\ portsc[p].prc
    <3>1. /\ portsc' = [portsc EXCEPT ![p].prc = FALSE]
          /\ SetPhase(p, "kEnablingSlot")
          /\ Push("EnableSlot", 0)
      BY <1>4, <2>1 DEF EnableSlot
    <3>2. PhasesOK'
      BY <1>1, <1>4, <3>1, OwnerAdvances DEF AddressingPhases
    <3>3. commands' \in Seq(Command)
      <4>1. 0 \in Slots /\ "EnableSlot" \in CommandType
        BY DEF Slots, CommandType
      <4>2. commands \in Seq(Command)
        BY DEF IInv, TypeOK, ControllerTypeOK
      <4>3. QED
        BY <3>1, <4>1, <4>2, Pushed
    <3>4. portsc' \in [Ports -> PortStatus]
      <4>1. [portsc[p] EXCEPT !.prc = FALSE] \in PortStatus
        <5>1. portsc[p] \in PortStatus
          BY <1>1 DEF IInv, TypeOK, ControllerTypeOK
        <5>2. QED
          BY <5>1 DEF PortStatus
      <4>2. QED
        BY <1>1, <3>1, <4>1 DEF IInv, TypeOK, ControllerTypeOK
    <3>5. QED
      BY <1>1, <1>4, <3>2, <3>3, <3>4, HandlerType DEF IInv, TypeOK, ControllerTypeOK
  <2>2. CASE ~(portsc[p].ped /\ portsc[p].prc)
    <3>1. UNCHANGED <<portsc, port_config_phase, commands>>
      BY <1>4, <2>2 DEF EnableSlot
    <3>2. QED
      BY <1>1, <1>4, <3>1, IgnoredStep DEF Ignored
  <2>3. QED
    BY <2>1, <2>2
<1>5. QED
  BY <1>1, <1>2, <1>3, <1>4, IgnoredStep

\* The slot is given to the port in the stretch, which is not port 0.
LEMMA OnEnableSlotCompletedStep ==
  ASSUME IInv, OnEnableSlotCompleted
  PROVE  IInv'
<1> DEFINE slot == Head(events).slot
<1>1. Handling("CommandCompletion") /\ slot \in Slots
  BY FrontEvent, EventFields
  DEF OnEnableSlotCompleted, Handling, IInv, TypeOK, ControllerTypeOK
<1>2. CASE port_config_phase[addressing_port] = "kEnablingSlot"
  <2>1. AddressDevice(addressing_port, slot) /\ UNCHANGED <<addressing_port, portsc>>
    BY <1>2 DEF OnEnableSlotCompleted
  <2>2. addressing_port \in Ports
    BY <1>2 DEF IInv, PhasesOK, EntryZeroUnused, Ports
  <2> HIDE DEF slot
  <2>3. PhasesOK'
    BY <1>2, <2>1, <2>2, OwnerAdvances DEF AddressDevice, AddressingPhases
  <2>4. commands' \in Seq(Command)
    BY <1>1, <2>1, Pushed DEF AddressDevice, IInv, TypeOK, ControllerTypeOK, CommandType
  <2>5. devices' \in [Slots -> Device]
    <3>1. [devices[slot] EXCEPT !.allocated = TRUE, !.in_port = addressing_port] \in Device
      <4>1. devices[slot] \in Device /\ addressing_port \in 0..MaxPorts
        BY <1>1 DEF IInv, TypeOK, ControllerTypeOK
      <4>2. QED
        BY <4>1 DEF Device
    <3>2. devices \in [Slots -> Device]
      BY DEF IInv, TypeOK, ControllerTypeOK
    <3>3. devices' = [devices EXCEPT ![slot] =
                       [devices[slot] EXCEPT !.allocated = TRUE, !.in_port = addressing_port]]
      BY <1>1, <2>1, <3>2 DEF AddressDevice
    <3>4. QED
      BY <3>1, <3>2, <3>3
  <2>6. QED
    BY <1>1, <2>1, <2>3, <2>4, <2>5, HandlerType DEF IInv, TypeOK, ControllerTypeOK
<1>3. CASE port_config_phase[addressing_port] # "kEnablingSlot"
  BY <1>1, <1>3, IgnoredStep DEF OnEnableSlotCompleted
<1>4. QED
  BY <1>2, <1>3

\* The scan (xhci.cpp:258-266) leaves the phases alone, or puts one waiting port
\* into the stretch; it succeeds.
LEMMA NextWaitingOutcome ==
  ASSUME IInv, NEW r \in ResetNextWaiting
  PROVE  /\ r \in Outcome
         /\ r.ok = TRUE
         /\ \/ r.owner = 0 /\ r.phase = port_config_phase
            \/ \E q \in Ports :
                 /\ port_config_phase[q] = "kWaitingAddressed"
                 /\ r.owner = q
                 /\ r.phase = [port_config_phase EXCEPT ![q] = "kResettingPort"]
<1>1. port_config_phase \in [0..MaxPorts -> ConfigPhase]
  BY DEF IInv, PhasesOK
<1>2. CASE WaitingPorts = {}
  <2>1. r = [ok |-> TRUE, owner |-> 0, phase |-> port_config_phase, reset |-> 0]
    BY <1>2 DEF ResetNextWaiting
  <2>2. QED
    BY <1>1, <2>1 DEF Outcome
<1>3. CASE WaitingPorts # {}
  <2>1. PICK q \in WaitingPorts : r = ResetPort(q, 0, port_config_phase)
    BY <1>3 DEF ResetNextWaiting
  <2>2. q \in Ports /\ port_config_phase[q] = "kWaitingAddressed"
    BY DEF WaitingPorts, IInv, PhasesOK, EntryZeroUnused, Ports
  <2>3. 0 \in 0..MaxPorts
    OBVIOUS
  <2>4. ResetPortOutcomes(r, q, 0, port_config_phase)
    BY <1>1, <2>1, <2>2, <2>3, ResetPortOutcome
  <2>5. QED
    BY <2>2, <2>4 DEF ResetPortOutcomes
<1>4. QED
  BY <1>2, <1>3

\* The port with an address leaves the stretch, and at most one port enters it.
LEMMA OnAddressDeviceCompletedStep ==
  ASSUME IInv, OnAddressDeviceCompleted
  PROVE  IInv'
<1> DEFINE slot == Head(events).slot
           p == devices[slot].out_port
<1>1. Handling("CommandCompletion") /\ slot \in Slots
  BY FrontEvent, EventFields
  DEF OnAddressDeviceCompleted, Handling, IInv, TypeOK, ControllerTypeOK
<1>2. devices \in [Slots -> Device] /\ portsc \in [Ports -> PortStatus]
  BY DEF IInv, TypeOK, ControllerTypeOK
<1>3. CASE /\ devices[slot].allocated
           /\ p = addressing_port
           /\ port_config_phase[p] = "kAddressingDevice"
  <2>1. PICK r \in ResetNextWaiting :
          IF r.ok
            THEN /\ AfterReset([r EXCEPT !.phase[p] = "kInitializingDevice"])
                 /\ devices' = [devices EXCEPT ![slot].init = 1, ![slot].transfer = TRUE]
            ELSE AfterReset(r) /\ UNCHANGED devices
    BY <1>3 DEF OnAddressDeviceCompleted
  <2>2. UNCHANGED commands
    BY <1>3 DEF OnAddressDeviceCompleted
  <2>3. /\ r \in Outcome
        /\ r.ok = TRUE
        /\ \/ r.owner = 0 /\ r.phase = port_config_phase
           \/ \E q \in Ports :
                /\ port_config_phase[q] = "kWaitingAddressed"
                /\ r.owner = q
                /\ r.phase = [port_config_phase EXCEPT ![q] = "kResettingPort"]
    BY NextWaitingOutcome
  <2>4. p \in Ports
    BY <1>3 DEF IInv, PhasesOK, EntryZeroUnused, Ports
  <2> HIDE DEF p, slot
  <2>5. /\ AfterReset([r EXCEPT !.phase[p] = "kInitializingDevice"])
        /\ devices' = [devices EXCEPT ![slot].init = 1, ![slot].transfer = TRUE]
    BY <2>1, <2>3
  <2>6. /\ addressing_port' = r.owner
        /\ port_config_phase' = [r.phase EXCEPT ![p] = "kInitializingDevice"]
        /\ Reset(r.reset)
        /\ r.reset \in 0..MaxPorts
    BY <2>3, <2>5 DEF AfterReset, Outcome
  <2>7. PhasesOK'
    <3>1. /\ port_config_phase \in [0..MaxPorts -> ConfigPhase]
          /\ p = addressing_port /\ p # 0 /\ p \in 0..MaxPorts
          /\ port_config_phase[0] = "kNotConnected"
          /\ \A q \in 0..MaxPorts : q # p => port_config_phase[q] \notin AddressingPhases
      BY <1>3, <2>4 DEF IInv, PhasesOK, ExclusiveAddressing, EntryZeroUnused, Ports
    <3>2. CASE r.owner = 0 /\ r.phase = port_config_phase
      BY <2>6, <3>1, <3>2
      DEF PhasesOK, ExclusiveAddressing, EntryZeroUnused, ConfigPhase, AddressingPhases
    <3>3. CASE \E q \in Ports :
                 /\ port_config_phase[q] = "kWaitingAddressed"
                 /\ r.owner = q
                 /\ r.phase = [port_config_phase EXCEPT ![q] = "kResettingPort"]
      <4>1. PICK q \in Ports :
              /\ port_config_phase[q] = "kWaitingAddressed"
              /\ r.owner = q
              /\ r.phase = [port_config_phase EXCEPT ![q] = "kResettingPort"]
        BY <3>3
      <4>2. q # p /\ q # 0 /\ q \in 0..MaxPorts
        BY <1>3, <4>1 DEF Ports
      <4>3. QED
        BY <2>6, <3>1, <4>1, <4>2
        DEF PhasesOK, ExclusiveAddressing, EntryZeroUnused, ConfigPhase, AddressingPhases
    <3>4. QED
      BY <2>3, <3>2, <3>3
  <2>8. portsc' \in [Ports -> PortStatus]
    BY <1>2, <2>6, ResetType
  <2>9. devices' \in [Slots -> Device]
    <3>1. devices[slot] \in Device
      BY <1>1, <1>2
    <3>2. [devices[slot] EXCEPT !.init = 1, !.transfer = TRUE] \in Device
      <4>1. 1 \in 0..4 /\ TRUE \in BOOLEAN
        OBVIOUS
      <4>2. QED
        BY <3>1, <4>1, DeviceTransfers, Zenon
    <3>3. devices' = [devices EXCEPT ![slot] =
                       [devices[slot] EXCEPT !.init = 1, !.transfer = TRUE]]
      BY <1>1, <1>2, <2>5
    <3>4. QED
      BY <1>2, <3>2, <3>3
  <2>10. commands' \in Seq(Command)
    BY <2>2 DEF IInv, TypeOK, ControllerTypeOK
  <2>11. QED
    BY <1>1, <2>7, <2>8, <2>9, <2>10, HandlerType
<1>4. CASE ~ (/\ devices[slot].allocated
              /\ p = addressing_port
              /\ port_config_phase[p] = "kAddressingDevice")
  BY <1>1, <1>4, IgnoredStep DEF OnAddressDeviceCompleted
<1>5. QED
  BY <1>3, <1>4

\* The endpoints of a device are configured, and so is its port.
LEMMA OnConfigureEndpointCompletedStep ==
  ASSUME IInv, OnConfigureEndpointCompleted
  PROVE  IInv'
<1> DEFINE slot == Head(events).slot
           p == devices[slot].out_port
<1>1. Handling("CommandCompletion") /\ slot \in Slots
  BY FrontEvent, EventFields
  DEF OnConfigureEndpointCompleted, Handling, IInv, TypeOK, ControllerTypeOK
<1>2. devices \in [Slots -> Device]
  BY DEF IInv, TypeOK, ControllerTypeOK
<1>3. p \in 0..MaxPorts
  BY <1>1, <1>2 DEF Device
<1>4. CASE devices[slot].allocated /\ port_config_phase[p] = "kConfiguringEndpoints"
  <2>1. /\ SetPhase(p, "kConfigured")
        /\ devices' = [devices EXCEPT ![slot].transfer = TRUE]
        /\ UNCHANGED <<addressing_port, portsc, commands>>
    BY <1>4 DEF OnConfigureEndpointCompleted
  <2>2. p \in Ports
    BY <1>3, <1>4 DEF IInv, PhasesOK, EntryZeroUnused, Ports
  <2> HIDE DEF p, slot
  <2>3. PhasesOK'
    BY <1>4, <2>1, <2>2, BystanderAdvances DEF AddressingPhases, ConfigPhase
  <2>4. devices' \in [Slots -> Device]
    <3>1. [devices[slot] EXCEPT !.transfer = TRUE] \in Device
      <4>1. devices[slot] \in Device
        BY <1>1, <1>2
      <4>2. QED
        BY <4>1 DEF Device
    <3>2. QED
      BY <1>1, <1>2, <2>1, <3>1
  <2>5. QED
    BY <1>1, <2>1, <2>3, <2>4, HandlerType DEF IInv, TypeOK, ControllerTypeOK
<1>5. CASE ~(devices[slot].allocated /\ port_config_phase[p] = "kConfiguringEndpoints")
  BY <1>1, <1>5, IgnoredStep DEF OnConfigureEndpointCompleted
<1>6. QED
  BY <1>4, <1>5

\* A successful transfer leaves a device with a phase of initialization there is.
LEMMA AfterTransferType ==
  ASSUME NEW dev \in Device
  PROVE  /\ AfterTransfer(dev) \in Device
         /\ AfterTransfer(dev).out_port = dev.out_port
<1>1. CASE dev.init = 2 /\ dev.in_port \in Unsupported
  BY <1>1 DEF AfterTransfer
<1>2. CASE ~(dev.init = 2 /\ dev.in_port \in Unsupported) /\ dev.init \in 1..3
  <2>1. AfterTransfer(dev) = [dev EXCEPT !.init = dev.init + 1, !.transfer = dev.init < 3]
    BY <1>2 DEF AfterTransfer
  <2>2. dev.init + 1 \in 0..4 /\ (dev.init < 3) \in BOOLEAN
    BY <1>2
  <2>3. AfterTransfer(dev) \in Device
    BY <2>1, <2>2, DeviceTransfers
  <2>4. QED
    BY <2>1, <2>3 DEF Device
<1>3. CASE ~(dev.init = 2 /\ dev.in_port \in Unsupported) /\ dev.init \notin 1..3
  <2>1. AfterTransfer(dev) = [dev EXCEPT !.transfer = TRUE]
    BY <1>3 DEF AfterTransfer
  <2>2. QED
    BY <2>1 DEF Device
<1>4. QED
  BY <1>1, <1>2, <1>3

\* A transfer may take its port on to kConfiguringEndpoints.
LEMMA OnTransferStep ==
  ASSUME IInv, OnTransfer
  PROVE  IInv'
<1> DEFINE slot == Head(events).slot
           dev == AfterTransfer(devices[slot])
           p == dev.out_port
<1>1. Handling("Transfer") /\ slot \in Slots
  BY FrontEvent, EventFields DEF OnTransfer, Handling, IInv, TypeOK, ControllerTypeOK
<1>2. devices \in [Slots -> Device]
  BY DEF IInv, TypeOK, ControllerTypeOK
<1>3. dev \in Device
  BY <1>1, <1>2, AfterTransferType
<1>4. CASE devices[slot].allocated /\ Head(events).ok
  <2>1. /\ devices' = [devices EXCEPT ![slot] = dev]
        /\ UNCHANGED <<addressing_port, portsc>>
        /\ \/ /\ port_config_phase[p] = "kInitializingDevice"
              /\ SetPhase(p, "kConfiguringEndpoints")
              /\ Push("ConfigureEndpoint", slot)
           \/ UNCHANGED <<port_config_phase, commands>>
    BY <1>4 DEF OnTransfer
  <2>2. p \in 0..MaxPorts
    <3> HIDE DEF dev
    <3> QED
      BY <1>3 DEF Device
  <2> HIDE DEF p, slot, dev
  <2>3. devices' \in [Slots -> Device]
    BY <1>1, <1>2, <1>3, <2>1
  <2>4. PhasesOK' /\ commands' \in Seq(Command)
    <3>1. CASE /\ port_config_phase[p] = "kInitializingDevice"
               /\ SetPhase(p, "kConfiguringEndpoints")
               /\ Push("ConfigureEndpoint", slot)
      <4>1. p \in Ports
        BY <2>2, <3>1 DEF IInv, PhasesOK, EntryZeroUnused, Ports
      <4>2. PhasesOK'
        BY <2>1, <3>1, <4>1, BystanderAdvances DEF AddressingPhases, ConfigPhase
      <4>3. commands \in Seq(Command) /\ "ConfigureEndpoint" \in CommandType
        BY DEF IInv, TypeOK, ControllerTypeOK, CommandType
      <4>4. QED
        BY <1>1, <3>1, <4>2, <4>3, Pushed
    <3>2. CASE UNCHANGED <<port_config_phase, commands>>
      BY <2>1, <3>2, PhasesKept DEF IInv, TypeOK, ControllerTypeOK
    <3>3. QED
      BY <2>1, <3>1, <3>2
  <2>5. QED
    BY <1>1, <2>1, <2>3, <2>4, HandlerType DEF IInv, TypeOK, ControllerTypeOK
<1>5. CASE ~(devices[slot].allocated /\ Head(events).ok)
  BY <1>1, <1>5, IgnoredStep DEF OnTransfer
<1>6. QED
  BY <1>4, <1>5

-----------------------------------------------------------------------------
(* The steps of the controller and of the user. They leave the variables   *)
(* of the driver alone, so only the types of the shared ones are at stake. *)

\* What the environment spends stays within its bounds.
LEMMA SpendType ==
  ASSUME IInv, NEW what \in {"plug", "unplug", "fail", "report"}, Spend(what)
  PROVE  budget' \in Budget
<1>1. budget \in Budget /\ budget[what] > 0 /\ budget' = [budget EXCEPT ![what] = @ - 1]
  BY DEF Spend, IInv, TypeOK, ControllerTypeOK
<1>2. MaxPlugs \in Nat /\ MaxUnplugs \in Nat /\ MaxFailures \in Nat /\ MaxReports \in Nat
  BY EnvironmentAssumption
<1>3. CASE what = "plug"
  BY <1>1, <1>2, <1>3 DEF Budget
<1>4. CASE what = "unplug"
  BY <1>1, <1>2, <1>4 DEF Budget
<1>5. CASE what = "fail"
  BY <1>1, <1>2, <1>5 DEF Budget
<1>6. CASE what = "report"
  BY <1>1, <1>2, <1>6 DEF Budget
<1>7. QED
  BY <1>3, <1>4, <1>5, <1>6

\* A device is plugged in or pulled out.
LEMMA SetConnectionType ==
  ASSUME IInv, NEW p \in Ports, NEW connected \in BOOLEAN, SetConnection(p, connected)
  PROVE  portsc' \in [Ports -> PortStatus]
<1> DEFINE status == [portsc[p] EXCEPT
               !.ccs = connected, !.ped = FALSE, !.csc = TRUE,
               !.pending = portsc[p].pending \/ ~(portsc[p].csc \/ portsc[p].prc)]
<1>1. portsc \in [Ports -> PortStatus] /\ portsc[p] \in PortStatus
  BY DEF IInv, TypeOK, ControllerTypeOK
<1>2. status \in PortStatus
  BY <1>1 DEF PortStatus
<1>3. portsc' = [portsc EXCEPT ![p] = status]
  BY <1>1 DEF SetConnection
<1> HIDE DEF status
<1>4. QED
  BY <1>1, <1>2, <1>3

\* A command ends, one way or another.
LEMMA CompleteType ==
  ASSUME IInv, NEW type \in CommandType, NEW slot \in Slots, Complete(type, slot)
  PROVE  /\ commands' \in Seq(Command)
         /\ events' \in Seq(Event)
         /\ UNCHANGED portsc
<1>1. commands \in Seq(Command) /\ events \in Seq(Event)
  BY DEF IInv, TypeOK, ControllerTypeOK
<1>2. [type |-> "CommandCompletion", issuer |-> type, slot |-> slot] \in Event
  BY DEF Event, CommandCompletion
<1>3. QED
  BY <1>1, <1>2, FrontCommand, Posted DEF Complete

\* Executing a command keeps the types of what it touches.
LEMMA ExecuteCommandType ==
  ASSUME IInv, ExecuteCommand
  PROVE  ControllerTypeOK'
<1>1. /\ devices \in [Slots -> Device]
      /\ slots \subseteq Slots \ {0}
      /\ portsc \in [Ports -> PortStatus]
      /\ commands \in Seq(Command)
      /\ budget \in Budget
  BY DEF IInv, TypeOK, ControllerTypeOK
<1>2. CASE ExecuteEnableSlot
  <2>1. PICK s \in FreeSlots : slots' = slots \cup {s} /\ Complete("EnableSlot", s)
    BY <1>2 DEF ExecuteEnableSlot
  <2>2. /\ "EnableSlot" \in CommandType /\ s \in Slots
        /\ slots' \subseteq Slots \ {0}
    BY <1>1, <2>1 DEF FreeSlots, CommandType
  <2>3. QED
    BY <1>1, <1>2, <2>1, <2>2, CompleteType DEF ExecuteEnableSlot, ControllerTypeOK
<1>3. CASE ExecuteAddressDevice
  <2>1. PICK s \in slots :
          /\ Complete("AddressDevice", s)
          /\ devices' = [devices EXCEPT ![s].out_port = devices[s].in_port]
    BY <1>3 DEF ExecuteAddressDevice
  <2>2. "AddressDevice" \in CommandType /\ s \in Slots
    BY <1>1 DEF CommandType
  <2>3. devices' \in [Slots -> Device]
    <3>1. devices[s] \in Device
      BY <1>1, <2>2
    <3>2. [devices[s] EXCEPT !.out_port = devices[s].in_port] \in Device
      BY <3>1 DEF Device
    <3>3. QED
      BY <1>1, <2>1, <2>2, <3>2
  <2>4. QED
    BY <1>1, <1>3, <2>1, <2>2, <2>3, CompleteType DEF ExecuteAddressDevice, ControllerTypeOK
<1>4. CASE ExecuteConfigureEndpoint
  <2>1. PICK s \in slots :
          /\ Complete("ConfigureEndpoint", s)
          /\ devices' = [devices EXCEPT ![s].endpoints = TRUE]
    BY <1>4 DEF ExecuteConfigureEndpoint
  <2>2. "ConfigureEndpoint" \in CommandType /\ s \in Slots
    BY <1>1 DEF CommandType
  <2>3. devices' \in [Slots -> Device]
    <3>1. devices[s] \in Device
      BY <1>1, <2>2
    <3>2. [devices[s] EXCEPT !.endpoints = TRUE] \in Device
      BY <3>1 DEF Device
    <3>3. QED
      BY <1>1, <2>1, <2>2, <3>2
  <2>4. QED
    BY <1>1, <1>4, <2>1, <2>2, <2>3, CompleteType
    DEF ExecuteConfigureEndpoint, ControllerTypeOK
<1>5. CASE FailCommand
  <2>1. /\ commands # <<>>
        /\ Complete(Head(commands).type, Head(commands).slot)
        /\ UNCHANGED budget \/ Spend("fail")
        /\ UNCHANGED <<devices, slots>>
    BY <1>5 DEF FailCommand
  <2>2. Head(commands).type \in CommandType /\ Head(commands).slot \in Slots
    BY <1>1, <2>1, FrontCommand
  <2>3. budget' \in Budget
    BY <1>1, <2>1, SpendType
  <2>4. QED
    BY <1>1, <2>1, <2>2, <2>3, CompleteType DEF ControllerTypeOK
<1>6. QED
  BY <1>2, <1>3, <1>4, <1>5 DEF ExecuteCommand

\* So does the end of a transfer.
LEMMA TransferEndsType ==
  ASSUME IInv, NEW s \in Slots, NEW ok \in BOOLEAN, TransferEnds(s, ok),
         budget' \in Budget
  PROVE  ControllerTypeOK'
<1>1. devices \in [Slots -> Device] /\ devices[s] \in Device
  BY DEF IInv, TypeOK, ControllerTypeOK
<1>2. [devices[s] EXCEPT !.transfer = FALSE] \in Device
  BY <1>1 DEF Device
<1>3. devices' \in [Slots -> Device]
  BY <1>1, <1>2 DEF TransferEnds
<1>4. [type |-> "Transfer", slot |-> s, ok |-> ok] \in Event
  BY DEF Event, Transfer
<1>5. events' \in Seq(Event)
  BY <1>4, Posted DEF TransferEnds, IInv, TypeOK, ControllerTypeOK
<1>6. QED
  BY <1>3, <1>5 DEF TransferEnds, IInv, TypeOK, ControllerTypeOK

\* A step of the environment keeps the types.
LEMMA ControllerStep ==
  ASSUME IInv, ControllerNext, UNCHANGED software
  PROVE  IInv'
<1>1. ControllerTypeOK'
  <2>1. CASE ExecuteCommand
    BY <2>1, ExecuteCommandType
  <2>2. CASE \E p \in Ports : Plug(p) \/ Unplug(p)
    <3>1. PICK p \in Ports :
            \/ Spend("plug") /\ SetConnection(p, TRUE)
            \/ Spend("unplug") /\ SetConnection(p, FALSE)
      BY <2>2 DEF Plug, Unplug
    <3>2. TRUE \in BOOLEAN /\ FALSE \in BOOLEAN
      OBVIOUS
    <3>3. portsc' \in [Ports -> PortStatus]
      BY <3>1, <3>2, SetConnectionType, Zenon
    <3>4. budget' \in Budget
      BY <3>1, SpendType
    <3>5. UNCHANGED <<commands, events, devices, slots>>
      BY <3>1 DEF SetConnection
    <3>6. QED
      BY <3>3, <3>4, <3>5 DEF IInv, TypeOK, ControllerTypeOK
  <2>3. CASE \E p \in Ports : ReportPortChange(p)
    <3>1. PICK p \in Ports : ReportPortChange(p)
      BY <2>3
    <3>2. [type |-> "PortStatusChange", port |-> p] \in Event
      BY DEF Event, PortStatusChange
    <3>3. events' \in Seq(Event)
      BY <3>1, <3>2, Posted DEF ReportPortChange, IInv, TypeOK, ControllerTypeOK
    <3>4. portsc' \in [Ports -> PortStatus]
      <4>1. portsc[p] \in PortStatus
        BY DEF IInv, TypeOK, ControllerTypeOK
      <4>2. [portsc[p] EXCEPT !.pending = FALSE] \in PortStatus
        BY <4>1 DEF PortStatus
      <4>3. QED
        BY <3>1, <4>2 DEF ReportPortChange, IInv, TypeOK, ControllerTypeOK
    <3>5. QED
      BY <3>1, <3>3, <3>4 DEF ReportPortChange, IInv, TypeOK, ControllerTypeOK
  <2>4. CASE \E s \in Slots : CompleteTransfer(s) \/ Report(s)
    <3>1. PICK s \in Slots : CompleteTransfer(s) \/ Report(s)
      BY <2>4
    <3>2. budget' \in Budget
      BY <3>1, SpendType DEF CompleteTransfer, Report, IInv, TypeOK, ControllerTypeOK
    <3>3. Enabled(devices[s].out_port) \in BOOLEAN
      BY DEF IInv, TypeOK, ControllerTypeOK, PortStatus, Enabled
    <3>4. PICK ok \in BOOLEAN : TransferEnds(s, ok)
      BY <3>1, <3>3, Zenon DEF CompleteTransfer, Report
    <3>5. QED
      BY <3>2, <3>4, TransferEndsType
  <2>5. QED
    BY <2>1, <2>2, <2>3, <2>4 DEF ControllerNext
<1>2. PhasesOK'
  BY PhasesKept DEF software
<1>3. QED
  BY <1>1, <1>2 DEF IInv, TypeOK, PhasesOK, software

-----------------------------------------------------------------------------
(* The theorems.                                                           *)

\* Every step keeps the inductive invariant.
LEMMA NextIInv == IInv /\ [Next]_vars => IInv'
<1> SUFFICES ASSUME IInv, [Next]_vars PROVE IInv'
  OBVIOUS
<1>1. CASE ConfigurePort
  BY <1>1, ConfigurePortStep
<1>2. CASE OnPortStatusChange
  BY <1>2, OnPortStatusChangeStep
<1>3. CASE OnTransfer
  BY <1>3, OnTransferStep
<1>4. CASE OnEnableSlotCompleted
  BY <1>4, OnEnableSlotCompletedStep
<1>5. CASE OnAddressDeviceCompleted
  BY <1>5, OnAddressDeviceCompletedStep
<1>6. CASE OnConfigureEndpointCompleted
  BY <1>6, OnConfigureEndpointCompletedStep
<1>7. CASE ControllerNext /\ UNCHANGED software
  BY <1>7, ControllerStep
<1>8. CASE UNCHANGED vars
  BY <1>8 DEF vars, hardware, software, IInv, TypeOK, ControllerTypeOK, PhasesOK,
              ExclusiveAddressing, EntryZeroUnused
<1>9. QED
  BY <1>1, <1>2, <1>3, <1>4, <1>5, <1>6, <1>7, <1>8 DEF Next, ProcessEvent

\* The inductive invariant holds throughout.
LEMMA Invariance == Spec => []IInv
BY InitIInv, NextIInv, PTL DEF Spec

\* Every variable keeps its type, for any number of ports and slots: above all
\* that addressing_port is a port or 0, and that no handler indexes
\* port_config_phase or the devices outside their bounds.
THEOREM TypeCorrect == Spec => []TypeOK
<1>1. IInv => TypeOK
  BY DEF IInv
<1>2. QED
  BY <1>1, Invariance, PTL

\* Between reset and address at most one port is in the stretch, and
\* addressing_port names it, whatever is plugged, pulled out or fails meanwhile.
THEOREM AddressingIsExclusive == Spec => []ExclusiveAddressing
<1>1. IInv => ExclusiveAddressing
  BY DEF IInv, PhasesOK
<1>2. QED
  BY <1>1, Invariance, PTL

-----------------------------------------------------------------------------
(* The order of the phases.                                                *)

\* One port that goes on to a phase after its own is in order.
LEMMA OnePortAdvances ==
  ASSUME IInv, NEW p \in Ports, NEW phase, phase \in Successors[port_config_phase[p]],
         port_config_phase' = [port_config_phase EXCEPT ![p] = phase]
  PROVE  PhasesAdvance
BY DEF IInv, PhasesOK, PhasesAdvance, Ports

\* No port changes its phase.
LEMMA NoPortAdvances ==
  ASSUME UNCHANGED port_config_phase
  PROVE  PhasesAdvance
BY DEF PhasesAdvance

\* ResetPort of a port that is not connected yet.
LEMMA ResetPortAdvances ==
  ASSUME IInv, NEW p \in Ports,
         AfterReset(ResetPort(p, addressing_port, port_config_phase)),
         port_config_phase[p] = "kNotConnected"
  PROVE  PhasesAdvance
<1>1. ResetPortOutcomes(ResetPort(p, addressing_port, port_config_phase),
                        p, addressing_port, port_config_phase)
  BY ResetPortOutcome DEF IInv, PhasesOK
<1>2. \/ UNCHANGED port_config_phase
      \/ port_config_phase' = [port_config_phase EXCEPT ![p] = "kWaitingAddressed"]
      \/ port_config_phase' = [port_config_phase EXCEPT ![p] = "kResettingPort"]
  BY <1>1 DEF AfterReset, ResetPortOutcomes
<1>3. {"kWaitingAddressed", "kResettingPort"} \subseteq Successors[port_config_phase[p]]
  BY DEF Successors
<1>4. QED
  BY <1>2, <1>3, OnePortAdvances, NoPortAdvances

\* The port that got its address, and the one that takes its place.
LEMMA AddressingAdvances ==
  ASSUME IInv, OnAddressDeviceCompleted
  PROVE  PhasesAdvance
<1> DEFINE slot == Head(events).slot
           p == devices[slot].out_port
<1>1. CASE /\ devices[slot].allocated
           /\ p = addressing_port
           /\ port_config_phase[p] = "kAddressingDevice"
  <2>1. PICK r \in ResetNextWaiting :
          IF r.ok
            THEN /\ AfterReset([r EXCEPT !.phase[p] = "kInitializingDevice"])
                 /\ devices' = [devices EXCEPT ![slot].init = 1, ![slot].transfer = TRUE]
            ELSE AfterReset(r) /\ UNCHANGED devices
    BY <1>1 DEF OnAddressDeviceCompleted
  <2>2. /\ r \in Outcome
        /\ r.ok = TRUE
        /\ \/ r.owner = 0 /\ r.phase = port_config_phase
           \/ \E q \in Ports :
                /\ port_config_phase[q] = "kWaitingAddressed"
                /\ r.owner = q
                /\ r.phase = [port_config_phase EXCEPT ![q] = "kResettingPort"]
    BY NextWaitingOutcome
  <2>3. p \in Ports
    BY <1>1 DEF IInv, PhasesOK, EntryZeroUnused, Ports
  <2> HIDE DEF p, slot
  <2>4. port_config_phase' = [r.phase EXCEPT ![p] = "kInitializingDevice"]
    BY <2>1, <2>2 DEF AfterReset, Outcome
  <2>5. port_config_phase \in [0..MaxPorts -> ConfigPhase]
    BY DEF IInv, PhasesOK
  <2>6. CASE r.phase = port_config_phase
    <3>1. "kInitializingDevice" \in Successors[port_config_phase[p]]
      BY <1>1 DEF Successors
    <3>2. port_config_phase' = [port_config_phase EXCEPT ![p] = "kInitializingDevice"]
      BY <2>4, <2>6
    <3>3. QED
      BY <2>3, <3>1, <3>2, OnePortAdvances
  <2>7. CASE \E q \in Ports :
               /\ port_config_phase[q] = "kWaitingAddressed"
               /\ r.phase = [port_config_phase EXCEPT ![q] = "kResettingPort"]
    BY <1>1, <2>3, <2>4, <2>5, <2>7 DEF PhasesAdvance, Successors, Ports
  <2>8. QED
    BY <2>2, <2>6, <2>7
<1>2. CASE ~ (/\ devices[slot].allocated
              /\ p = addressing_port
              /\ port_config_phase[p] = "kAddressingDevice")
  BY <1>2, NoPortAdvances DEF OnAddressDeviceCompleted, Ignored
<1>3. QED
  BY <1>1, <1>2

\* Every step takes the ports on in order.
LEMMA NextAdvances == IInv /\ [Next]_vars => [PhasesAdvance]_port_config_phase
<1> SUFFICES ASSUME IInv, [Next]_vars PROVE PhasesAdvance
  OBVIOUS
<1> DEFINE slot == Head(events).slot
<1>1. CASE ConfigurePort
  <2>1. boot \in Ports
    BY <1>1 DEF ConfigurePort, IInv, TypeOK, Ports
  <2>2. QED
    BY <1>1, <2>1, ResetPortAdvances, NoPortAdvances DEF ConfigurePort
<1>2. CASE OnPortStatusChange
  <2> DEFINE p == Head(events).port
  <2>1. p \in Ports
    BY <1>2, FrontEvent, EventFields
    DEF OnPortStatusChange, Handling, IInv, TypeOK, ControllerTypeOK
  <2>2. CASE port_config_phase[p] = "kNotConnected"
    BY <1>2, <2>1, <2>2, ResetPortAdvances DEF OnPortStatusChange
  <2>3. CASE port_config_phase[p] = "kResettingPort"
    <3>1. EnableSlot(p)
      BY <1>2, <2>3 DEF OnPortStatusChange
    <3> HIDE DEF p
    <3>2. UNCHANGED port_config_phase \/ SetPhase(p, "kEnablingSlot")
      BY <3>1 DEF EnableSlot
    <3>3. QED
      BY <2>1, <2>3, <3>2, OnePortAdvances, NoPortAdvances DEF SetPhase, Successors
  <2>4. CASE port_config_phase[p] \notin {"kNotConnected", "kResettingPort"}
    BY <1>2, <2>4, NoPortAdvances DEF OnPortStatusChange, Ignored
  <2>5. QED
    BY <2>2, <2>3, <2>4
<1>3. CASE OnTransfer
  <2> DEFINE p == AfterTransfer(devices[slot]).out_port
  <2>1. \/ UNCHANGED port_config_phase
        \/ /\ port_config_phase[p] = "kInitializingDevice"
           /\ SetPhase(p, "kConfiguringEndpoints")
    BY <1>3 DEF OnTransfer, Ignored
  <2>2. p \in 0..MaxPorts
    <3>1. slot \in Slots /\ devices \in [Slots -> Device]
      BY <1>3, FrontEvent, EventFields
      DEF OnTransfer, Handling, IInv, TypeOK, ControllerTypeOK
    <3>2. AfterTransfer(devices[slot]) \in Device
      BY <3>1, AfterTransferType
    <3>3. QED
      BY <3>2 DEF Device
  <2> HIDE DEF p, slot
  <2>3. port_config_phase[p] = "kInitializingDevice" => p \in Ports
    BY <2>2 DEF IInv, PhasesOK, EntryZeroUnused, Ports
  <2>4. QED
    BY <2>1, <2>3, OnePortAdvances, NoPortAdvances DEF SetPhase, Successors
<1>4. CASE OnEnableSlotCompleted
  <2>1. \/ UNCHANGED port_config_phase
        \/ /\ port_config_phase[addressing_port] = "kEnablingSlot"
           /\ SetPhase(addressing_port, "kAddressingDevice")
    BY <1>4 DEF OnEnableSlotCompleted, AddressDevice, Ignored
  <2>2. port_config_phase[addressing_port] = "kEnablingSlot" => addressing_port \in Ports
    BY DEF IInv, PhasesOK, EntryZeroUnused, Ports
  <2>3. QED
    BY <2>1, <2>2, OnePortAdvances, NoPortAdvances DEF SetPhase, Successors
<1>5. CASE OnAddressDeviceCompleted
  BY <1>5, AddressingAdvances
<1>6. CASE OnConfigureEndpointCompleted
  <2> DEFINE p == devices[slot].out_port
  <2>1. \/ UNCHANGED port_config_phase
        \/ /\ port_config_phase[p] = "kConfiguringEndpoints"
           /\ SetPhase(p, "kConfigured")
    BY <1>6 DEF OnConfigureEndpointCompleted, Ignored
  <2>2. p \in 0..MaxPorts
    <3>1. slot \in Slots /\ devices \in [Slots -> Device]
      BY <1>6, FrontEvent, EventFields
      DEF OnConfigureEndpointCompleted, Handling, IInv, TypeOK, ControllerTypeOK
    <3>2. QED
      BY <3>1 DEF Device
  <2> HIDE DEF p, slot
  <2>3. port_config_phase[p] = "kConfiguringEndpoints" => p \in Ports
    BY <2>2 DEF IInv, PhasesOK, EntryZeroUnused, Ports
  <2>4. QED
    BY <2>1, <2>3, OnePortAdvances, NoPortAdvances DEF SetPhase, Successors
<1>7. CASE ControllerNext /\ UNCHANGED software
  BY <1>7, NoPortAdvances DEF software
<1>8. CASE UNCHANGED vars
  BY <1>8, NoPortAdvances DEF vars, software
<1>9. QED
  BY <1>1, <1>2, <1>3, <1>4, <1>5, <1>6, <1>7, <1>8 DEF Next, ProcessEvent

\* A port goes through the phases of xhci.cpp:25-34 in their order, one at a time
\* and never back, whatever the events say.
THEOREM OrderIsKept == Spec => PhasesInOrder
BY Invariance, NextAdvances, PTL DEF Spec, PhasesInOrder

-----------------------------------------------------------------------------
(* The second inductive invariant. The matching of a completion to a port, *)
(* through addressing_port or through the device of its slot, is right     *)
(* because of four things that support each other: which devices the ports *)
(* have, which commands are under way, how far the devices are, and what   *)
(* the enabled slots are there for.                                        *)

\* Phases in which a port has a device of its own, and in which the device has
\* an address.
HasDevice == {"kAddressingDevice", "kInitializingDevice", "kConfiguringEndpoints", "kConfigured"}
HasAddress == HasDevice \ {"kAddressingDevice"}

\* A device belongs to one port, and a port in one of these phases has one.
PortsHaveDevices ==
  /\ \A s \in Slots :
       /\ devices[s].out_port \in {0, devices[s].in_port}
       /\ devices[s].allocated <=> devices[s].in_port # 0
       /\ devices[s].in_port # 0 => port_config_phase[devices[s].in_port] \in HasDevice
       /\ port_config_phase[devices[s].in_port] \in HasAddress
            => devices[s].out_port = devices[s].in_port
  /\ \A s, t \in Slots : devices[s].in_port = devices[t].in_port /\ devices[s].in_port # 0 => s = t
  /\ \A p \in Ports : port_config_phase[p] \in HasDevice => \E s \in Slots : devices[s].in_port = p

\* A slot that is not enabled has no device; slot 0, after a failure, has one
\* that never gets an address.
SlotsInUse ==
  /\ \A s \in Slots \ {0} : devices[s].allocated => s \in slots
  /\ devices[0].out_port = 0
  /\ devices[0].allocated => devices[0].in_port = addressing_port

\* Commands and completions, picked out by sets of them.
Outstanding(C, E) ==
  (\E i \in DOMAIN commands : commands[i] \in C) \/ (\E j \in DOMAIN events : events[j] \in E)

AtMostOne(C, E) ==
  /\ \A i, j \in DOMAIN commands : commands[i] \in C /\ commands[j] \in C => i = j
  /\ \A i, j \in DOMAIN events : events[i] \in E /\ events[j] \in E => i = j
  /\ ~((\E i \in DOMAIN commands : commands[i] \in C) /\ (\E j \in DOMAIN events : events[j] \in E))

Commands(type) == [type: {type}, slot: Slots]
Completions(type) == [type: {"CommandCompletion"}, issuer: {type}, slot: Slots]
CommandFor(slot) == {[type |-> "ConfigureEndpoint", slot |-> slot]}
CompletionFor(slot) ==
  {[type |-> "CommandCompletion", issuer |-> "ConfigureEndpoint", slot |-> slot]}

\* The commands under way are those that the phases call for.
EnableSlotMatches ==
  /\ AtMostOne(Commands("EnableSlot"), Completions("EnableSlot"))
  /\ Outstanding(Commands("EnableSlot"), Completions("EnableSlot"))
       <=> port_config_phase[addressing_port] = "kEnablingSlot"
  /\ \A i \in DOMAIN commands : commands[i].type = "EnableSlot" => commands[i].slot = 0
  /\ \A j \in DOMAIN events :
       events[j] \in Completions("EnableSlot") =>
         /\ ~devices[events[j].slot].allocated
         /\ events[j].slot \in slots \cup {0}

AddressDeviceMatches ==
  /\ AtMostOne(Commands("AddressDevice"), Completions("AddressDevice"))
  /\ Outstanding(Commands("AddressDevice"), Completions("AddressDevice"))
       => port_config_phase[addressing_port] = "kAddressingDevice"
  /\ \A i \in DOMAIN commands :
       commands[i].type = "AddressDevice" => devices[commands[i].slot].in_port = addressing_port

ConfigureEndpointMatches ==
  \A s \in Slots :
    /\ AtMostOne(CommandFor(s), CompletionFor(s))
    /\ Outstanding(CommandFor(s), CompletionFor(s))
         <=> port_config_phase[devices[s].out_port] = "kConfiguringEndpoints"

\* How far the device of a port is.
Progress ==
  /\ \A s \in Slots :
       port_config_phase[devices[s].out_port] \in {"kConfiguringEndpoints", "kConfigured"}
         => devices[s].init = 4
  /\ NothingFailed => \A s \in Slots :
       /\ port_config_phase[devices[s].out_port] = "kConfigured" => devices[s].endpoints
       /\ \A j \in DOMAIN events : events[j] \in CompletionFor(s) => devices[s].endpoints

\* Without a failure, every slot is on its way to a port or with it.
SlotsServe ==
  NothingFailed =>
    /\ \A s \in slots :
         \/ devices[s].allocated
         \/ \E j \in DOMAIN events : events[j] \in Completions("EnableSlot") /\ events[j].slot = s
    /\ MaxPorts <= MaxSlots =>
         /\ ~devices[0].allocated
         /\ \A j \in DOMAIN events : events[j] \in Completions("EnableSlot") => events[j].slot # 0

DevInv ==
  /\ PortsHaveDevices
  /\ SlotsInUse
  /\ EnableSlotMatches
  /\ AddressDeviceMatches
  /\ ConfigureEndpointMatches
  /\ Progress
  /\ SlotsServe

-----------------------------------------------------------------------------
(* What is outstanding.                                                    *)

\* The entries of a ring behind its front.
LEMMA TailEntries ==
  ASSUME NEW S, NEW ring \in Seq(S), ring # <<>>
  PROVE  /\ Tail(ring) \in Seq(S)
         /\ DOMAIN ring = 1..Len(ring) /\ Len(ring) \in Nat \ {0}
         /\ DOMAIN Tail(ring) = 1..(Len(ring) - 1)
         /\ \A i \in DOMAIN Tail(ring) : i + 1 \in DOMAIN ring /\ Tail(ring)[i] = ring[i + 1]
         /\ \A i \in DOMAIN ring : i # 1 => i - 1 \in DOMAIN Tail(ring)
         /\ 1 \in DOMAIN ring /\ Head(ring) = ring[1]
OBVIOUS

\* The entries of a ring with a new one.
LEMMA AppendEntries ==
  ASSUME NEW S, NEW ring \in Seq(S), NEW e
  PROVE  /\ DOMAIN ring = 1..Len(ring) /\ Len(ring) \in Nat
         /\ DOMAIN Append(ring, e) = 1..(Len(ring) + 1)
         /\ \A i \in DOMAIN ring : i \in DOMAIN Append(ring, e) /\ Append(ring, e)[i] = ring[i]
         /\ Len(ring) + 1 \in DOMAIN Append(ring, e)
         /\ Append(ring, e)[Len(ring) + 1] = e
         /\ \A i \in DOMAIN Append(ring, e) : i # Len(ring) + 1 => i \in DOMAIN ring
OBVIOUS

\* A handler that pushes none of the commands C.
NothingPushed(C) ==
  \/ commands' = commands
  \/ \E c : c \notin C /\ commands' = Append(commands, c)

\* If neither the event nor a command pushed is one of these, nothing changes for them.
LEMMA OthersHandled ==
  ASSUME IInv, NEW C, NEW E, events # <<>>, events' = Tail(events),
         Head(events) \notin E, NothingPushed(C)
  PROVE  /\ Outstanding(C, E)' <=> Outstanding(C, E)
         /\ AtMostOne(C, E) => AtMostOne(C, E)'
<1>1. events \in Seq(Event) /\ commands \in Seq(Command)
  BY DEF IInv, TypeOK, ControllerTypeOK
<1>2. /\ \A i \in DOMAIN commands : commands[i] \in C => i \in DOMAIN commands' /\ commands'[i] = commands[i]
      /\ \A i \in DOMAIN commands' : commands'[i] \in C => i \in DOMAIN commands /\ commands'[i] = commands[i]
  <2>1. CASE commands' = commands
    BY <2>1
  <2>2. CASE \E c : c \notin C /\ commands' = Append(commands, c)
    <3>1. PICK c : c \notin C /\ commands' = Append(commands, c)
      BY <2>2
    <3>2. QED
      BY <1>1, <3>1, AppendEntries
  <2>3. QED
    BY <2>1, <2>2 DEF NothingPushed
<1>3. /\ \A i \in DOMAIN events' : i + 1 \in DOMAIN events /\ events'[i] = events[i + 1] /\ i \in Int
      /\ \A i \in DOMAIN events : events[i] \in E => i - 1 \in DOMAIN events' /\ events'[i - 1] = events[i]
  <2>1. \A i \in DOMAIN events : events[i] \in E => i # 1
    BY <1>1, TailEntries
  <2>2. \A i \in DOMAIN events' : i + 1 \in DOMAIN events /\ events'[i] = events[i + 1] /\ i \in Int
    BY <1>1, TailEntries
  <2>3. \A i \in DOMAIN events : i # 1 => i - 1 \in DOMAIN events' /\ events'[i - 1] = events[i]
    BY <1>1, TailEntries
  <2>4. QED
    BY <2>1, <2>2, <2>3
<1>4. Outstanding(C, E)' <=> Outstanding(C, E)
  BY <1>2, <1>3 DEF Outstanding
<1>5. ASSUME AtMostOne(C, E) PROVE AtMostOne(C, E)'
  BY <1>2, <1>3, <1>5 DEF AtMostOne
<1>6. QED
  BY <1>4, <1>5

\* The one that was outstanding is handled.
LEMMA OneHandled ==
  ASSUME IInv, NEW C, NEW E, events # <<>>, events' = Tail(events),
         Head(events) \in E, NothingPushed(C), AtMostOne(C, E)
  PROVE  ~Outstanding(C, E)' /\ AtMostOne(C, E)'
<1>1. events \in Seq(Event) /\ commands \in Seq(Command)
  BY DEF IInv, TypeOK, ControllerTypeOK
<1>2. \A i \in DOMAIN commands' : commands'[i] \in C => i \in DOMAIN commands /\ commands[i] \in C
  BY <1>1, AppendEntries DEF NothingPushed
<1>3. \A i \in DOMAIN events' : i + 1 \in DOMAIN events /\ events'[i] = events[i + 1] /\ i + 1 # 1
  BY <1>1, TailEntries
<1>4. 1 \in DOMAIN events /\ events[1] \in E
  BY <1>1, TailEntries
<1>5. (\A i \in DOMAIN events' : events'[i] \notin E) /\ (\A i \in DOMAIN commands' : commands'[i] \notin C)
  BY <1>2, <1>3, <1>4 DEF AtMostOne
<1>6. QED
  BY <1>5 DEF AtMostOne, Outstanding

\* None was outstanding, and the handler pushes one.
LEMMA OnePushed ==
  ASSUME IInv, NEW C, NEW E, events # <<>>, events' = Tail(events),
         NEW c \in C, commands' = Append(commands, c), ~Outstanding(C, E)
  PROVE  Outstanding(C, E)' /\ AtMostOne(C, E)'
<1>1. events \in Seq(Event) /\ commands \in Seq(Command)
  BY DEF IInv, TypeOK, ControllerTypeOK
<1>2. \A i \in DOMAIN events' : events'[i] \notin E
  BY <1>1, TailEntries DEF Outstanding
<1>3. /\ Len(commands) + 1 \in DOMAIN commands'
      /\ commands'[Len(commands) + 1] \in C
      /\ \A i \in DOMAIN commands' : commands'[i] \in C => i = Len(commands) + 1
  BY <1>1, AppendEntries DEF Outstanding
<1>4. QED
  BY <1>2, <1>3 DEF Outstanding, AtMostOne

\* The controller posts an event that is none of these.
LEMMA OthersPosted ==
  ASSUME IInv, NEW C, NEW E, NEW e, e \notin E, Post(e), UNCHANGED commands
  PROVE  /\ Outstanding(C, E)' <=> Outstanding(C, E)
         /\ AtMostOne(C, E) => AtMostOne(C, E)'
<1>1. events \in Seq(Event)
  BY DEF IInv, TypeOK, ControllerTypeOK
<1>2. /\ \A i \in DOMAIN events : i \in DOMAIN events' /\ events'[i] = events[i]
      /\ \A i \in DOMAIN events' : events'[i] \in E => i \in DOMAIN events /\ events'[i] = events[i]
  BY <1>1, AppendEntries DEF Post
<1>3. QED
  BY <1>2 DEF Outstanding, AtMostOne

\* A command moves from the one ring to the other.
LEMMA CommandCompleted ==
  ASSUME IInv, NEW C, NEW E, NEW type, NEW slot, Complete(type, slot),
         Head(commands) \in C
           <=> [type |-> "CommandCompletion", issuer |-> type, slot |-> slot] \in E
  PROVE  /\ Outstanding(C, E)' <=> Outstanding(C, E)
         /\ AtMostOne(C, E) => AtMostOne(C, E)'
<1> DEFINE e == [type |-> "CommandCompletion", issuer |-> type, slot |-> slot]
           new == Len(events) + 1
<1>1. events \in Seq(Event) /\ commands \in Seq(Command) /\ commands # <<>>
  BY DEF IInv, TypeOK, ControllerTypeOK, Complete
<1>2. events' = Append(events, e) /\ commands' = Tail(commands)
  BY DEF Complete, Post
<1>3. commands[1] \in C <=> e \in E
  BY <1>1, TailEntries
<1> HIDE DEF e, new
<1>4. /\ 1 \in DOMAIN commands
      /\ \A i \in DOMAIN commands' : i + 1 \in DOMAIN commands /\ commands'[i] = commands[i + 1] /\ i \in Nat \ {0}
      /\ \A i \in DOMAIN commands : i # 1 => i - 1 \in DOMAIN commands' /\ commands'[i - 1] = commands[i]
  BY <1>1, <1>2, TailEntries
<1>5. /\ new \in DOMAIN events' /\ events'[new] = e /\ new \notin DOMAIN events
      /\ \A i \in DOMAIN events : i \in DOMAIN events' /\ events'[i] = events[i]
      /\ \A i \in DOMAIN events' : i # new => i \in DOMAIN events
  BY <1>1, <1>2, AppendEntries DEF new
<1>6. CASE e \in E
  <2>1. Outstanding(C, E)' /\ Outstanding(C, E)
    BY <1>3, <1>4, <1>5, <1>6 DEF Outstanding
  <2>2. ASSUME AtMostOne(C, E) PROVE AtMostOne(C, E)'
    <3>1. \A i \in DOMAIN commands : commands[i] \in C => i = 1
      BY <1>3, <1>4, <1>6, <2>2 DEF AtMostOne
    <3>2. \A i \in DOMAIN commands' : commands'[i] \notin C
      BY <1>4, <3>1
    <3>3. \A i \in DOMAIN events : events[i] \notin E
      BY <1>3, <1>4, <1>6, <2>2 DEF AtMostOne
    <3>4. \A i \in DOMAIN events' : events'[i] \in E => i = new
      BY <1>5, <3>3
    <3>5. QED
      BY <3>2, <3>4 DEF AtMostOne
  <2>3. QED
    BY <2>1, <2>2
<1>7. CASE e \notin E
  <2>1. Outstanding(C, E)' <=> Outstanding(C, E)
    <3>1. ASSUME Outstanding(C, E)' PROVE Outstanding(C, E)
      BY <1>4, <1>5, <1>7, <3>1 DEF Outstanding
    <3>2. ASSUME Outstanding(C, E) PROVE Outstanding(C, E)'
      BY <1>3, <1>4, <1>5, <1>7, <3>2 DEF Outstanding
    <3>3. QED
      BY <3>1, <3>2
  <2>2. ASSUME AtMostOne(C, E) PROVE AtMostOne(C, E)'
    <3>1. \A i \in DOMAIN events' : events'[i] \in E => i \in DOMAIN events /\ events[i] \in E
      BY <1>5, <1>7
    <3>2. QED
      BY <1>4, <1>5, <2>2, <3>1 DEF AtMostOne
  <2>3. QED
    BY <2>1, <2>2
<1>8. QED
  BY <1>6, <1>7

\* Which of the entries are picked out.
LEMMA PickedOut ==
  /\ \A type \in CommandType, c \in Command : c \in Commands(type) <=> c.type = type
  /\ \A slot \in Slots, c \in Command :
       c \in CommandFor(slot) <=> c.type = "ConfigureEndpoint" /\ c.slot = slot
  /\ \A type \in CommandType, e \in Event :
       e \in Completions(type) <=> e.type = "CommandCompletion" /\ e.issuer = type
  /\ \A slot \in Slots, e \in Event :
       e \in CompletionFor(slot)
         <=> e.type = "CommandCompletion" /\ e.issuer = "ConfigureEndpoint" /\ e.slot = slot
<1>1. \A type \in CommandType, c \in Command : c \in Commands(type) <=> c.type = type
  BY DEF Commands, Command
<1>2. \A slot \in Slots, c \in Command :
        c \in CommandFor(slot) <=> c.type = "ConfigureEndpoint" /\ c.slot = slot
  BY DEF CommandFor, Command
<1>3. \A type \in CommandType, e \in Event :
        e \in Completions(type) <=> e.type = "CommandCompletion" /\ e.issuer = type
  BY DEF Completions, Event, PortStatusChange, Transfer, CommandCompletion
<1>4. \A slot \in Slots, e \in Event :
        e \in CompletionFor(slot)
          <=> e.type = "CommandCompletion" /\ e.issuer = "ConfigureEndpoint" /\ e.slot = slot
  BY DEF CompletionFor, Event, PortStatusChange, Transfer, CommandCompletion
<1>5. QED
  BY <1>1, <1>2, <1>3, <1>4

\* The entries of the rings are commands and events.
LEMMA EntriesTyped ==
  ASSUME IInv
  PROVE  /\ \A i \in DOMAIN commands : commands[i] \in Command
         /\ \A j \in DOMAIN events : events[j] \in Event
BY DEF IInv, TypeOK, ControllerTypeOK

\* After a handler the ring holds what it held but for the front.
LEMMA PoppedEvents ==
  ASSUME IInv, events # <<>>, events' = Tail(events)
  PROVE  /\ Head(events) \in Event
         /\ \E i \in DOMAIN events : events[i] = Head(events)
         /\ \A j \in DOMAIN events' : \E i \in DOMAIN events : events[i] = events'[j]
         /\ \A i \in DOMAIN events :
              events[i] # Head(events) => \E j \in DOMAIN events' : events'[j] = events[i]
<1>1. events \in Seq(Event)
  BY DEF IInv, TypeOK, ControllerTypeOK
<1>2. QED
  BY <1>1, TailEntries

\* With an event posted it holds what it held, and that.
LEMMA PostedEvents ==
  ASSUME IInv, NEW e, Post(e)
  PROVE  /\ \A j \in DOMAIN events' : events'[j] = e \/ \E i \in DOMAIN events : events[i] = events'[j]
         /\ \A i \in DOMAIN events : \E j \in DOMAIN events' : events'[j] = events[i]
         /\ \E j \in DOMAIN events' : events'[j] = e
<1>1. events \in Seq(Event)
  BY DEF IInv, TypeOK, ControllerTypeOK
<1>2. QED
  BY <1>1, AppendEntries DEF Post

-----------------------------------------------------------------------------
(* Steps that are about no command and no device.                          *)

\* An event comes or goes that is no completion of a command, or none does.
QuietRings ==
  /\ UNCHANGED commands
  /\ \/ UNCHANGED events
     \/ events # <<>> /\ Head(events).type # "CommandCompletion" /\ events' = Tail(events)
     \/ \E e \in Event : e.type # "CommandCompletion" /\ Post(e)

\* Such a step changes nothing about what is outstanding.
LEMMA QuietOutstanding ==
  ASSUME IInv, QuietRings, NEW C, NEW E, \A e \in E : e.type = "CommandCompletion"
  PROVE  /\ Outstanding(C, E)' <=> Outstanding(C, E)
         /\ AtMostOne(C, E) => AtMostOne(C, E)'
<1>1. CASE UNCHANGED events
  BY <1>1 DEF QuietRings, Outstanding, AtMostOne
<1>2. CASE events # <<>> /\ Head(events).type # "CommandCompletion" /\ events' = Tail(events)
  BY <1>2, OthersHandled DEF QuietRings, NothingPushed
<1>3. CASE \E e \in Event : e.type # "CommandCompletion" /\ Post(e)
  BY <1>3, OthersPosted DEF QuietRings
<1>4. QED
  BY <1>1, <1>2, <1>3 DEF QuietRings

\* The completions on the ring are the same.
LEMMA QuietCompletions ==
  ASSUME IInv, QuietRings
  PROVE  /\ \A j \in DOMAIN events' : events'[j].type = "CommandCompletion" =>
              \E i \in DOMAIN events : events[i] = events'[j]
         /\ \A i \in DOMAIN events : events[i].type = "CommandCompletion" =>
              \E j \in DOMAIN events' : events'[j] = events[i]
<1>1. CASE UNCHANGED events
  BY <1>1
<1>2. CASE events # <<>> /\ Head(events).type # "CommandCompletion" /\ events' = Tail(events)
  BY <1>2, PoppedEvents
<1>3. CASE \E e \in Event : e.type # "CommandCompletion" /\ Post(e)
  BY <1>3, PostedEvents
<1>4. QED
  BY <1>1, <1>2, <1>3 DEF QuietRings

\* All of a device that matters here is as it was.
DevicesKept ==
  \A s \in Slots :
    /\ devices'[s].allocated = devices[s].allocated
    /\ devices'[s].in_port = devices[s].in_port
    /\ devices'[s].out_port = devices[s].out_port
    /\ devices'[s].endpoints = devices[s].endpoints
    /\ devices[s].init = 4 => devices'[s].init = 4

Early == {"kNotConnected", "kWaitingAddressed", "kResettingPort"}

\* No port comes to or leaves a phase in which commands are given.
PhasesQuiet ==
  /\ \A p \in 0..MaxPorts :
       \/ port_config_phase'[p] = port_config_phase[p]
       \/ port_config_phase[p] \in Early /\ port_config_phase'[p] \in Early
  /\ addressing_port' = addressing_port \/ addressing_port = 0

\* A step of that kind keeps the invariant.
LEMMA QuietStep ==
  ASSUME IInv, DevInv, IInv', QuietRings, DevicesKept, PhasesQuiet, UNCHANGED slots,
         NothingFailed' => NothingFailed
  PROVE  DevInv'
<1>1. /\ devices \in [Slots -> Device]
      /\ devices' \in [Slots -> Device]
      /\ port_config_phase \in [0..MaxPorts -> ConfigPhase]
      /\ port_config_phase' \in [0..MaxPorts -> ConfigPhase]
      /\ addressing_port \in 0..MaxPorts
      /\ addressing_port' \in 0..MaxPorts
      /\ port_config_phase[0] = "kNotConnected"
      /\ \A s \in Slots : devices[s].in_port \in 0..MaxPorts /\ devices[s].out_port \in 0..MaxPorts
  <2>1. devices \in [Slots -> Device] /\ devices' \in [Slots -> Device]
    BY DEF IInv, TypeOK, ControllerTypeOK
  <2>2. \A s \in Slots : devices[s].in_port \in 0..MaxPorts /\ devices[s].out_port \in 0..MaxPorts
    BY <2>1 DEF Device
  <2>3. QED
    BY <2>1, <2>2 DEF IInv, PhasesOK, EntryZeroUnused
<1>2. \A p \in 0..MaxPorts, phase \in {"kEnablingSlot"} \cup HasDevice :
        port_config_phase'[p] = phase <=> port_config_phase[p] = phase
  BY DEF PhasesQuiet, Early, HasDevice
<1>3. \A p \in 0..MaxPorts :
        /\ port_config_phase'[p] \in HasDevice <=> port_config_phase[p] \in HasDevice
        /\ port_config_phase'[p] \in HasAddress <=> port_config_phase[p] \in HasAddress
  BY DEF PhasesQuiet, Early, HasDevice, HasAddress
<1>4. \A phase \in {"kEnablingSlot", "kAddressingDevice"} :
        port_config_phase'[addressing_port'] = phase
          <=> port_config_phase[addressing_port] = phase
  <2>1. CASE addressing_port' = addressing_port
    BY <1>1, <1>2, <2>1 DEF HasDevice
  <2>2. CASE addressing_port = 0
    <3>1. \A p \in 0..MaxPorts : port_config_phase[p] \notin AddressingPhases
      BY <2>2 DEF IInv, PhasesOK, ExclusiveAddressing
    <3>2. QED
      BY <1>1, <1>2, <2>2, <3>1 DEF AddressingPhases, HasDevice
  <2>3. QED
    BY <2>1, <2>2 DEF PhasesQuiet
<1>5. 0 \in Slots /\ Ports \subseteq 0..MaxPorts
  BY DEF Slots, Ports
<1>6. PortsHaveDevices'
  <2>1. PortsHaveDevices
    BY DEF DevInv
  <2>2. \A s \in Slots :
          /\ devices'[s].out_port \in {0, devices'[s].in_port}
          /\ devices'[s].allocated <=> devices'[s].in_port # 0
          /\ devices'[s].in_port # 0 => port_config_phase'[devices'[s].in_port] \in HasDevice
          /\ port_config_phase'[devices'[s].in_port] \in HasAddress
               => devices'[s].out_port = devices'[s].in_port
    BY <1>1, <1>3, <2>1 DEF PortsHaveDevices, DevicesKept
  <2>3. \A s, t \in Slots :
          devices'[s].in_port = devices'[t].in_port /\ devices'[s].in_port # 0 => s = t
    BY <2>1 DEF PortsHaveDevices, DevicesKept
  <2>4. \A p \in Ports : port_config_phase'[p] \in HasDevice => \E s \in Slots : devices'[s].in_port = p
    BY <1>3, <1>5, <2>1 DEF PortsHaveDevices, DevicesKept
  <2>5. QED
    BY <2>2, <2>3, <2>4 DEF PortsHaveDevices
<1>7. SlotsInUse'
  <2>1. PortsHaveDevices /\ SlotsInUse
    BY DEF DevInv
  <2>2. devices[0].allocated => addressing_port # 0
    BY <1>5, <2>1 DEF PortsHaveDevices, SlotsInUse
  <2>3. QED
    BY <1>5, <2>1, <2>2 DEF SlotsInUse, DevicesKept, PhasesQuiet
<1>8. /\ \A type \in CommandType : \A e \in Completions(type) : e.type = "CommandCompletion"
      /\ \A s \in Slots : \A e \in CompletionFor(s) : e.type = "CommandCompletion"
  BY DEF Completions, CompletionFor
<1>9. EnableSlotMatches'
  <2>1. EnableSlotMatches /\ "EnableSlot" \in CommandType
    BY DEF DevInv, CommandType
  <2>2. AtMostOne(Commands("EnableSlot"), Completions("EnableSlot"))'
    BY <1>8, <2>1, QuietOutstanding DEF EnableSlotMatches
  <2>3. Outstanding(Commands("EnableSlot"), Completions("EnableSlot"))'
          <=> port_config_phase'[addressing_port'] = "kEnablingSlot"
    BY <1>4, <1>8, <2>1, QuietOutstanding DEF EnableSlotMatches
  <2>4. \A i \in DOMAIN commands' : commands'[i].type = "EnableSlot" => commands'[i].slot = 0
    BY <2>1 DEF EnableSlotMatches, QuietRings
  <2>5. ASSUME NEW j \in DOMAIN events', events'[j] \in Completions("EnableSlot")
        PROVE  /\ ~devices'[events'[j].slot].allocated
               /\ events'[j].slot \in slots' \cup {0}
    <3>1. PICK i \in DOMAIN events : events[i] = events'[j]
      BY <1>8, <2>1, <2>5, QuietCompletions
    <3>2. events[i].slot \in Slots
      BY <2>5, <3>1 DEF Completions
    <3>3. QED
      BY <2>1, <2>5, <3>1, <3>2 DEF EnableSlotMatches, DevicesKept
  <2>6. QED
    BY <2>2, <2>3, <2>4, <2>5 DEF EnableSlotMatches
<1>10. AddressDeviceMatches'
  <2>1. AddressDeviceMatches /\ "AddressDevice" \in CommandType
    BY DEF DevInv, CommandType
  <2>2. AtMostOne(Commands("AddressDevice"), Completions("AddressDevice"))'
    BY <1>8, <2>1, QuietOutstanding DEF AddressDeviceMatches
  <2>3. Outstanding(Commands("AddressDevice"), Completions("AddressDevice"))'
          => port_config_phase'[addressing_port'] = "kAddressingDevice"
    BY <1>4, <1>8, <2>1, QuietOutstanding DEF AddressDeviceMatches
  <2>4. ASSUME NEW i \in DOMAIN commands', commands'[i].type = "AddressDevice"
        PROVE  devices'[commands'[i].slot].in_port = addressing_port'
    <3>1. i \in DOMAIN commands /\ commands'[i] = commands[i] /\ commands[i] \in Command
      BY EntriesTyped DEF QuietRings
    <3>2. commands[i] \in Commands("AddressDevice") /\ commands[i].slot \in Slots
      BY <2>1, <2>4, <3>1, PickedOut DEF Command
    <3>3. Outstanding(Commands("AddressDevice"), Completions("AddressDevice"))
      BY <3>1, <3>2 DEF Outstanding
    <3>4. addressing_port # 0
      BY <1>1, <2>1, <3>3 DEF AddressDeviceMatches
    <3>5. QED
      BY <2>1, <2>4, <3>1, <3>2, <3>4 DEF AddressDeviceMatches, DevicesKept, PhasesQuiet
  <2>5. QED
    BY <2>2, <2>3, <2>4 DEF AddressDeviceMatches
<1>11. ConfigureEndpointMatches'
  <2>1. ConfigureEndpointMatches
    BY DEF DevInv
  <2>2. ASSUME NEW s \in Slots
        PROVE  /\ AtMostOne(CommandFor(s), CompletionFor(s))'
               /\ Outstanding(CommandFor(s), CompletionFor(s))'
                    <=> port_config_phase'[devices'[s].out_port] = "kConfiguringEndpoints"
    <3>1. \A e \in CompletionFor(s) : e.type = "CommandCompletion"
      BY <1>8
    <3>2. /\ Outstanding(CommandFor(s), CompletionFor(s))' <=> Outstanding(CommandFor(s), CompletionFor(s))
          /\ AtMostOne(CommandFor(s), CompletionFor(s))'
      BY <2>1, <3>1, QuietOutstanding DEF ConfigureEndpointMatches
    <3>3. QED
      BY <1>1, <1>2, <2>1, <3>2 DEF ConfigureEndpointMatches, DevicesKept, HasDevice
  <2>3. QED
    BY <2>2 DEF ConfigureEndpointMatches
<1>12. Progress'
  <2>1. Progress
    BY DEF DevInv
  <2>2. ASSUME NEW s \in Slots
        PROVE  port_config_phase'[devices'[s].out_port] \in {"kConfiguringEndpoints", "kConfigured"}
                 => devices'[s].init = 4
    BY <1>1, <1>2, <2>1 DEF Progress, DevicesKept, HasDevice
  <2>3. ASSUME NothingFailed', NEW s \in Slots
        PROVE  /\ port_config_phase'[devices'[s].out_port] = "kConfigured" => devices'[s].endpoints
               /\ \A j \in DOMAIN events' : events'[j] \in CompletionFor(s) => devices'[s].endpoints
    <3>1. \A j \in DOMAIN events' : events'[j] \in CompletionFor(s) =>
            \E i \in DOMAIN events : events[i] \in CompletionFor(s)
      BY <1>8, QuietCompletions
    <3>2. NothingFailed
      BY <2>3
    <3>3. QED
      BY <1>1, <1>2, <2>1, <3>1, <3>2 DEF Progress, DevicesKept, HasDevice
  <2>4. QED
    BY <2>2, <2>3 DEF Progress
<1>13. SlotsServe'
  <2>1. SlotsServe /\ "EnableSlot" \in CommandType
    BY DEF DevInv, CommandType
  <2>3. NothingFailed' => NothingFailed
    OBVIOUS
  <2>4. ASSUME NothingFailed', NEW s \in slots'
        PROVE  \/ devices'[s].allocated
               \/ \E j \in DOMAIN events' : events'[j] \in Completions("EnableSlot") /\ events'[j].slot = s
    <3>1. s \in slots /\ s \in Slots
      BY DEF IInv, TypeOK, ControllerTypeOK
    <3>2. CASE devices[s].allocated
      BY <3>1, <3>2 DEF DevicesKept
    <3>3. CASE \E j \in DOMAIN events : events[j] \in Completions("EnableSlot") /\ events[j].slot = s
      BY <1>8, <2>1, <3>3, QuietCompletions
    <3>4. QED
      BY <2>1, <2>3, <2>4, <3>1, <3>2, <3>3 DEF SlotsServe
  <2>5. ASSUME NothingFailed', MaxPorts <= MaxSlots
        PROVE  /\ ~devices'[0].allocated
               /\ \A j \in DOMAIN events' : events'[j] \in Completions("EnableSlot") => events'[j].slot # 0
    BY <1>5, <1>8, <2>1, <2>3, <2>5, QuietCompletions DEF SlotsServe, DevicesKept
  <2>6. QED
    BY <2>4, <2>5 DEF SlotsServe
<1>14. QED
  BY <1>6, <1>7, <1>9, <1>10, <1>11, <1>12, <1>13 DEF DevInv

-----------------------------------------------------------------------------
(* The handlers that give a command or take its completion.                *)

\* What the types say of the places where the handlers look things up.
LEMMA Typed ==
  ASSUME IInv
  PROVE  /\ devices \in [Slots -> Device]
         /\ \A s \in Slots : /\ devices[s].in_port \in 0..MaxPorts
                             /\ devices[s].out_port \in 0..MaxPorts
                             /\ devices[s].allocated \in BOOLEAN
         /\ port_config_phase \in [0..MaxPorts -> ConfigPhase]
         /\ port_config_phase[0] = "kNotConnected"
         /\ addressing_port \in 0..MaxPorts
         /\ \A p \in 0..MaxPorts :
              port_config_phase[p] \in AddressingPhases => p = addressing_port /\ p # 0
         /\ slots \subseteq Slots \ {0}
         /\ 0 \in Slots
         /\ \A p \in 0..MaxPorts : p # 0 <=> p \in Ports
         /\ Ports \subseteq 0..MaxPorts
<1>1. devices \in [Slots -> Device]
  BY DEF IInv, TypeOK, ControllerTypeOK
<1>2. \A s \in Slots : /\ devices[s].in_port \in 0..MaxPorts
                       /\ devices[s].out_port \in 0..MaxPorts
                       /\ devices[s].allocated \in BOOLEAN
  BY <1>1 DEF Device
<1>3. /\ port_config_phase \in [0..MaxPorts -> ConfigPhase]
      /\ port_config_phase[0] = "kNotConnected"
      /\ addressing_port \in 0..MaxPorts
      /\ \A p \in 0..MaxPorts :
           port_config_phase[p] \in AddressingPhases => p = addressing_port /\ p # 0
  BY DEF IInv, PhasesOK, EntryZeroUnused, ExclusiveAddressing
<1>4. slots \subseteq Slots \ {0}
  BY DEF IInv, TypeOK, ControllerTypeOK
<1>5. 0 \in Slots /\ (\A p \in 0..MaxPorts : p # 0 <=> p \in Ports) /\ Ports \subseteq 0..MaxPorts
  BY DEF Slots, Ports
<1>6. QED
  BY <1>1, <1>2, <1>3, <1>4, <1>5

\* After a push the command ring holds what it held, and the new command.
LEMMA PushedCommands ==
  ASSUME IInv, NEW c, commands' = Append(commands, c)
  PROVE  \A i \in DOMAIN commands' :
           commands'[i] = c \/ \E k \in DOMAIN commands : commands[k] = commands'[i]
<1>1. commands \in Seq(Command)
  BY DEF IInv, TypeOK, ControllerTypeOK
<1>2. QED
  BY <1>1, AppendEntries

\* A command or completion on a ring is outstanding.
LEMMA OnRing ==
  ASSUME IInv
  PROVE  /\ \A i \in DOMAIN commands, type \in CommandType : commands[i].type = type
              => Outstanding(Commands(type), Completions(type))
         /\ \A i \in DOMAIN commands : commands[i].type = "ConfigureEndpoint"
              => Outstanding(CommandFor(commands[i].slot), CompletionFor(commands[i].slot))
         /\ \A j \in DOMAIN events, type \in CommandType :
              events[j].type = "CommandCompletion" /\ events[j].issuer = type
                => Outstanding(Commands(type), Completions(type))
         /\ \A j \in DOMAIN events :
              events[j].type = "CommandCompletion" /\ events[j].issuer = "ConfigureEndpoint"
                => Outstanding(CommandFor(events[j].slot), CompletionFor(events[j].slot))
<1>1. \A i \in DOMAIN commands : commands[i] \in Command /\ commands[i].slot \in Slots
  BY EntriesTyped DEF Command
<1>2. \A j \in DOMAIN events : /\ events[j] \in Event
                               /\ events[j].type = "CommandCompletion" => events[j].slot \in Slots
  BY EntriesTyped, EventFields
<1>3. QED
  BY <1>1, <1>2, PickedOut DEF Outstanding

\* Of a command and a completion, what they are.
LEMMA Kinds ==
  ASSUME NEW type \in CommandType, NEW slot \in Slots
  PROVE  LET c == [type |-> type, slot |-> slot]
             e == [type |-> "CommandCompletion", issuer |-> type, slot |-> slot]
         IN  /\ c \in Command /\ e \in Event
             /\ \A t \in CommandType : /\ c \in Commands(t) <=> t = type
                                       /\ e \in Completions(t) <=> t = type
             /\ \A s \in Slots : /\ c \in CommandFor(s) <=> type = "ConfigureEndpoint" /\ s = slot
                                 /\ e \in CompletionFor(s) <=> type = "ConfigureEndpoint" /\ s = slot
BY DEF Command, Event, CommandCompletion, Commands, Completions, CommandFor, CompletionFor

\* The port that has been reset asks for a slot.
LEMMA EnableSlotStep ==
  ASSUME IInv, DevInv, Handling("PortStatusChange"), UNCHANGED <<addressing_port, devices>>,
         NEW p \in Ports, port_config_phase[p] = "kResettingPort",
         SetPhase(p, "kEnablingSlot"), Push("EnableSlot", 0)
  PROVE  DevInv'
<1> DEFINE c == [type |-> "EnableSlot", slot |-> 0]
<1>1. /\ p = addressing_port /\ p \in 0..MaxPorts /\ p # 0
      /\ port_config_phase' = [port_config_phase EXCEPT ![p] = "kEnablingSlot"]
      /\ events # <<>> /\ Head(events).type # "CommandCompletion" /\ events' = Tail(events)
      /\ commands' = Append(commands, c)
      /\ UNCHANGED <<slots, budget>>
  BY Typed DEF AddressingPhases, Handling, SetPhase, Push
<1>2. \A q \in 0..MaxPorts :
        /\ port_config_phase'[q] \in HasDevice <=> port_config_phase[q] \in HasDevice
        /\ port_config_phase'[q] \in HasAddress <=> port_config_phase[q] \in HasAddress
        /\ port_config_phase'[q] = "kConfiguringEndpoints" <=> port_config_phase[q] = "kConfiguringEndpoints"
        /\ port_config_phase'[q] = "kConfigured" <=> port_config_phase[q] = "kConfigured"
  BY <1>1, Typed DEF HasDevice, HasAddress
<1>3. /\ {"EnableSlot", "AddressDevice", "ConfigureEndpoint"} \subseteq CommandType
      /\ 0 \in Slots /\ c \in Commands("EnableSlot")
      /\ \A type \in CommandType : type # "EnableSlot" => c \notin Commands(type)
      /\ \A s \in Slots : c \notin CommandFor(s)
  <2>1. 0 \in Slots /\ {"EnableSlot", "AddressDevice", "ConfigureEndpoint"} \subseteq CommandType
    BY Typed DEF CommandType
  <2>2. QED
    BY <2>1 DEF Commands, CommandFor
<1>4. /\ \A type \in CommandType : Head(events) \notin Completions(type)
      /\ \A s \in Slots : Head(events) \notin CompletionFor(s)
  BY <1>1, PoppedEvents, PickedOut
<1> HIDE DEF c
<1>5. PortsHaveDevices' /\ SlotsInUse'
  BY <1>1, <1>2, Typed DEF DevInv, PortsHaveDevices, SlotsInUse
<1>6. EnableSlotMatches'
  <2>1. ~Outstanding(Commands("EnableSlot"), Completions("EnableSlot"))
    BY <1>1 DEF DevInv, EnableSlotMatches
  <2>2. /\ Outstanding(Commands("EnableSlot"), Completions("EnableSlot"))'
        /\ AtMostOne(Commands("EnableSlot"), Completions("EnableSlot"))'
    BY <1>1, <1>3, <2>1, OnePushed
  <2>3. port_config_phase'[addressing_port'] = "kEnablingSlot"
    BY <1>1, Typed
  <2>4. ASSUME NEW i \in DOMAIN commands', commands'[i].type = "EnableSlot"
        PROVE  commands'[i].slot = 0
    <3>1. commands'[i] = c \/ \E k \in DOMAIN commands : commands[k] = commands'[i]
      BY <1>1, PushedCommands
    <3>2. c.slot = 0
      BY DEF c
    <3>3. QED
      BY <2>4, <3>1, <3>2 DEF DevInv, EnableSlotMatches
  <2>5. \A j \in DOMAIN events' : events'[j] \notin Completions("EnableSlot")
    BY <1>1, <2>1, PoppedEvents DEF Outstanding
  <2>6. QED
    BY <2>2, <2>3, <2>4, <2>5 DEF EnableSlotMatches
<1>7. AddressDeviceMatches'
  <2>1. ~Outstanding(Commands("AddressDevice"), Completions("AddressDevice"))
    BY <1>1 DEF DevInv, AddressDeviceMatches
  <2>2. /\ ~Outstanding(Commands("AddressDevice"), Completions("AddressDevice"))'
        /\ AtMostOne(Commands("AddressDevice"), Completions("AddressDevice"))'
    <3>1. NothingPushed(Commands("AddressDevice")) /\ Head(events) \notin Completions("AddressDevice")
      BY <1>1, <1>3, <1>4 DEF NothingPushed
    <3>2. QED
      BY <1>1, <2>1, <3>1, OthersHandled DEF DevInv, AddressDeviceMatches
  <2>3. \A i \in DOMAIN commands' : commands'[i].type # "AddressDevice"
    BY <1>1, <1>3, <2>1, PushedCommands, OnRing DEF c
  <2>4. QED
    BY <2>2, <2>3 DEF AddressDeviceMatches
<1>8. ConfigureEndpointMatches'
  <2>1. ASSUME NEW s \in Slots
        PROVE  /\ AtMostOne(CommandFor(s), CompletionFor(s))'
               /\ Outstanding(CommandFor(s), CompletionFor(s))'
                    <=> port_config_phase'[devices'[s].out_port] = "kConfiguringEndpoints"
    <3>1. /\ Outstanding(CommandFor(s), CompletionFor(s))' <=> Outstanding(CommandFor(s), CompletionFor(s))
          /\ AtMostOne(CommandFor(s), CompletionFor(s))'
      BY <1>1, <1>3, <1>4, OthersHandled DEF NothingPushed, DevInv, ConfigureEndpointMatches
    <3>2. QED
      BY <1>2, <3>1, Typed DEF DevInv, ConfigureEndpointMatches
  <2>2. QED
    BY <2>1 DEF ConfigureEndpointMatches
<1>9. Progress'
  BY <1>1, <1>2, Typed, PoppedEvents DEF DevInv, Progress, NothingFailed
<1>10. SlotsServe'
  <2>1. \A j \in DOMAIN events' : \E i \in DOMAIN events : events[i] = events'[j]
    BY <1>1, PoppedEvents
  <2>2. \A i \in DOMAIN events : events[i] \in Completions("EnableSlot") =>
          \E j \in DOMAIN events' : events'[j] = events[i]
    BY <1>1, <1>3, <1>4, PoppedEvents
  <2>3. ASSUME NothingFailed', NEW s \in slots'
        PROVE  \/ devices'[s].allocated
               \/ \E j \in DOMAIN events' : events'[j] \in Completions("EnableSlot") /\ events'[j].slot = s
    BY <1>1, <2>2, <2>3 DEF DevInv, SlotsServe, NothingFailed
  <2>4. ASSUME NothingFailed', MaxPorts <= MaxSlots
        PROVE  /\ ~devices'[0].allocated
               /\ \A j \in DOMAIN events' : events'[j] \in Completions("EnableSlot") => events'[j].slot # 0
    BY <1>1, <2>1, <2>4 DEF DevInv, SlotsServe, NothingFailed
  <2>5. QED
    BY <2>3, <2>4 DEF SlotsServe
<1>11. QED
  BY <1>5, <1>6, <1>7, <1>8, <1>9, <1>10 DEF DevInv

\* The port that got a slot gets a device, and asks for its address.
LEMMA AddressDeviceStep ==
  ASSUME IInv, DevInv, OnEnableSlotCompleted
  PROVE  DevInv'
<1> DEFINE slot == Head(events).slot
           p == addressing_port
           c == [type |-> "AddressDevice", slot |-> slot]
<1>1. /\ events # <<>> /\ events' = Tail(events) /\ Head(events) \in Event
      /\ Head(events).type = "CommandCompletion" /\ Head(events).issuer = "EnableSlot"
      /\ slot \in Slots
      /\ UNCHANGED <<slots, budget>>
  BY PoppedEvents, EventFields DEF OnEnableSlotCompleted, Handling
<1>2. /\ \A type \in CommandType : Head(events) \in Completions(type) <=> type = "EnableSlot"
      /\ \A s \in Slots : Head(events) \notin CompletionFor(s)
      /\ {"EnableSlot", "AddressDevice", "ConfigureEndpoint"} \subseteq CommandType
  BY <1>1, PickedOut DEF CommandType
<1>3. /\ ~devices[slot].allocated /\ slot \in slots \cup {0}
      /\ port_config_phase[p] = "kEnablingSlot"
  <2>1. PICK j \in DOMAIN events : events[j] = Head(events)
    BY <1>1, PoppedEvents
  <2>2. events[j] \in Completions("EnableSlot")
    BY <1>2, <2>1
  <2>3. Outstanding(Commands("EnableSlot"), Completions("EnableSlot"))
    BY <2>2 DEF Outstanding
  <2>4. QED
    BY <2>1, <2>2, <2>3 DEF DevInv, EnableSlotMatches
<1>4. /\ p \in Ports /\ p # 0 /\ p \in 0..MaxPorts
      /\ devices' = [devices EXCEPT ![slot].allocated = TRUE, ![slot].in_port = p]
      /\ port_config_phase' = [port_config_phase EXCEPT ![p] = "kAddressingDevice"]
      /\ commands' = Append(commands, c)
      /\ UNCHANGED addressing_port
  BY <1>3, Typed DEF OnEnableSlotCompleted, AddressDevice, SetPhase, Push, AddressingPhases
<1> HIDE DEF slot, p
<1>5. /\ c \in Commands("AddressDevice") /\ c.type = "AddressDevice" /\ c.slot = slot
      /\ \A type \in CommandType : type # "AddressDevice" => c \notin Commands(type)
      /\ \A s \in Slots : c \notin CommandFor(s)
  BY <1>1, <1>2 DEF Commands, CommandFor
<1> HIDE DEF c
<1>6. /\ \A s \in Slots :
           /\ devices'[s].out_port = devices[s].out_port
           /\ devices'[s].init = devices[s].init
           /\ devices'[s].endpoints = devices[s].endpoints
           /\ s # slot => devices'[s] = devices[s]
      /\ devices'[slot].allocated /\ devices'[slot].in_port = p
  <2>1. devices \in [Slots -> Device]
    BY Typed
  <2>2. devices[slot] \in Device
    BY <1>1, <2>1
  <2>3. devices'[slot] = [devices[slot] EXCEPT !.allocated = TRUE, !.in_port = p]
    BY <1>1, <1>4, <2>1
  <2>4. \A s \in Slots : s # slot => devices'[s] = devices[s]
    BY <1>1, <1>4, <2>1
  <2>5. /\ devices'[slot].out_port = devices[slot].out_port
        /\ devices'[slot].init = devices[slot].init
        /\ devices'[slot].endpoints = devices[slot].endpoints
        /\ devices'[slot].allocated /\ devices'[slot].in_port = p
    BY <2>2, <2>3 DEF Device
  <2>6. QED
    BY <2>4, <2>5
<1>7. devices[slot].in_port = 0 /\ devices[slot].out_port = 0
  BY <1>1, <1>3 DEF DevInv, PortsHaveDevices
<1>8. /\ \A q \in 0..MaxPorts : q # p => port_config_phase'[q] = port_config_phase[q]
      /\ port_config_phase'[p] = "kAddressingDevice"
      /\ \A s \in Slots : devices[s].in_port # p /\ devices[s].out_port # p
      /\ \A s \in Slots : port_config_phase'[devices[s].out_port] = port_config_phase[devices[s].out_port]
  <2>1. /\ \A q \in 0..MaxPorts : q # p => port_config_phase'[q] = port_config_phase[q]
        /\ port_config_phase'[p] = "kAddressingDevice"
    BY <1>4, Typed
  <2>2. \A s \in Slots : devices[s].in_port # p /\ devices[s].out_port # p
    BY <1>3, <1>4 DEF DevInv, PortsHaveDevices, HasDevice
  <2>3. QED
    BY <2>1, <2>2, Typed
<1>9. PortsHaveDevices'
  <2>1. \A s \in Slots :
          /\ devices'[s].out_port \in {0, devices'[s].in_port}
          /\ devices'[s].allocated <=> devices'[s].in_port # 0
          /\ devices'[s].in_port # 0 => port_config_phase'[devices'[s].in_port] \in HasDevice
          /\ port_config_phase'[devices'[s].in_port] \in HasAddress
               => devices'[s].out_port = devices'[s].in_port
    <3>1. ASSUME NEW s \in Slots, s # slot
          PROVE  /\ devices'[s].out_port \in {0, devices'[s].in_port}
                 /\ devices'[s].allocated <=> devices'[s].in_port # 0
                 /\ devices'[s].in_port # 0 => port_config_phase'[devices'[s].in_port] \in HasDevice
                 /\ port_config_phase'[devices'[s].in_port] \in HasAddress
                      => devices'[s].out_port = devices'[s].in_port
      BY <1>6, <1>8, <3>1, Typed DEF DevInv, PortsHaveDevices
    <3>2. /\ devices'[slot].out_port = 0
          /\ devices'[slot].allocated /\ devices'[slot].in_port = p /\ p # 0
          /\ port_config_phase'[p] \in HasDevice \ HasAddress
      BY <1>1, <1>4, <1>6, <1>7, <1>8 DEF HasDevice, HasAddress
    <3>3. QED
      BY <3>1, <3>2
  <2>2. \A s, t \in Slots :
          devices'[s].in_port = devices'[t].in_port /\ devices'[s].in_port # 0 => s = t
    BY <1>1, <1>6, <1>8 DEF DevInv, PortsHaveDevices
  <2>3. ASSUME NEW q \in Ports, port_config_phase'[q] \in HasDevice
        PROVE  \E s \in Slots : devices'[s].in_port = q
    <3>1. CASE q = p
      BY <1>1, <1>6, <3>1
    <3>2. CASE q # p
      <4>1. PICK s \in Slots : devices[s].in_port = q
        BY <1>8, <2>3, <3>2, Typed DEF DevInv, PortsHaveDevices
      <4>2. s # slot
        BY <1>7, <4>1, Typed
      <4>3. QED
        BY <1>6, <4>1, <4>2
    <3>3. QED
      BY <3>1, <3>2
  <2>4. QED
    BY <2>1, <2>2, <2>3 DEF PortsHaveDevices
<1>10. SlotsInUse'
  <2>1. devices'[0].allocated => devices'[0].in_port = addressing_port'
    <3>1. CASE slot = 0
      BY <1>4, <1>6, <3>1 DEF p
    <3>2. CASE slot # 0
      BY <1>4, <1>6, <3>2, Typed DEF DevInv, SlotsInUse
    <3>3. QED
      BY <3>1, <3>2
  <2>2. devices'[0].out_port = 0
    BY <1>6, Typed DEF DevInv, SlotsInUse
  <2>3. \A s \in Slots \ {0} : devices'[s].allocated => s \in slots'
    BY <1>1, <1>3, <1>6 DEF DevInv, SlotsInUse
  <2>4. QED
    BY <2>1, <2>2, <2>3 DEF SlotsInUse
<1>11. \A j \in DOMAIN events' : \E i \in DOMAIN events : events[i] = events'[j]
  BY <1>1, PoppedEvents
<1>12. EnableSlotMatches'
  <2>1. NothingPushed(Commands("EnableSlot"))
    BY <1>2, <1>4, <1>5 DEF NothingPushed
  <2>2. /\ ~Outstanding(Commands("EnableSlot"), Completions("EnableSlot"))'
        /\ AtMostOne(Commands("EnableSlot"), Completions("EnableSlot"))'
    BY <1>1, <1>2, <2>1, OneHandled DEF DevInv, EnableSlotMatches
  <2>3. port_config_phase'[addressing_port'] # "kEnablingSlot"
    BY <1>4, <1>8 DEF p
  <2>4. ASSUME NEW i \in DOMAIN commands', commands'[i].type = "EnableSlot"
        PROVE  commands'[i].slot = 0
    <3>1. commands'[i] = c \/ \E k \in DOMAIN commands : commands[k] = commands'[i]
      BY <1>4, PushedCommands
    <3>2. QED
      BY <1>5, <2>4, <3>1 DEF DevInv, EnableSlotMatches
  <2>5. \A j \in DOMAIN events' : events'[j] \notin Completions("EnableSlot")
    BY <2>2 DEF Outstanding
  <2>6. QED
    BY <2>2, <2>3, <2>4, <2>5 DEF EnableSlotMatches
<1>13. AddressDeviceMatches'
  <2>1. ~Outstanding(Commands("AddressDevice"), Completions("AddressDevice"))
    BY <1>3 DEF DevInv, AddressDeviceMatches, p
  <2>2. /\ Outstanding(Commands("AddressDevice"), Completions("AddressDevice"))'
        /\ AtMostOne(Commands("AddressDevice"), Completions("AddressDevice"))'
    BY <1>1, <1>4, <1>5, <2>1, OnePushed
  <2>3. ASSUME NEW i \in DOMAIN commands', commands'[i].type = "AddressDevice"
        PROVE  devices'[commands'[i].slot].in_port = addressing_port'
    <3>1. commands'[i] = c \/ \E k \in DOMAIN commands : commands[k] = commands'[i]
      BY <1>4, PushedCommands
    <3>2. \A k \in DOMAIN commands : commands[k].type # "AddressDevice"
      <4>1. ASSUME NEW k \in DOMAIN commands PROVE commands[k].type # "AddressDevice"
        BY <1>2, <2>1, OnRing
      <4>2. QED
        BY <4>1
    <3>3. commands'[i] = c
      BY <2>3, <3>1, <3>2
    <3>4. QED
      BY <1>4, <1>5, <1>6, <3>3 DEF p
  <2>4. QED
    BY <1>4, <1>8, <2>2, <2>3 DEF AddressDeviceMatches, p
<1>14. ConfigureEndpointMatches'
  <2>1. ASSUME NEW s \in Slots
        PROVE  /\ AtMostOne(CommandFor(s), CompletionFor(s))'
               /\ Outstanding(CommandFor(s), CompletionFor(s))'
                    <=> port_config_phase'[devices'[s].out_port] = "kConfiguringEndpoints"
    <3>1. NothingPushed(CommandFor(s)) /\ Head(events) \notin CompletionFor(s)
      BY <1>2, <1>4, <1>5 DEF NothingPushed
    <3>2. /\ Outstanding(CommandFor(s), CompletionFor(s))' <=> Outstanding(CommandFor(s), CompletionFor(s))
          /\ AtMostOne(CommandFor(s), CompletionFor(s))'
      BY <1>1, <3>1, OthersHandled DEF DevInv, ConfigureEndpointMatches
    <3>3. QED
      BY <1>6, <1>8, <3>2 DEF DevInv, ConfigureEndpointMatches
  <2>2. QED
    BY <2>1 DEF ConfigureEndpointMatches
<1>15. Progress'
  BY <1>1, <1>6, <1>8, <1>11 DEF DevInv, Progress, NothingFailed
<1>16. SlotsServe'
  <2>1. ASSUME NothingFailed', NEW s \in slots'
        PROVE  \/ devices'[s].allocated
               \/ \E j \in DOMAIN events' : events'[j] \in Completions("EnableSlot") /\ events'[j].slot = s
    <3>1. CASE s = slot
      BY <1>6, <3>1
    <3>2. CASE s # slot /\ devices[s].allocated
      BY <1>1, <1>6, <3>2, Typed
    <3>3. CASE s # slot /\ ~devices[s].allocated
      <4>1. PICK i \in DOMAIN events : events[i] \in Completions("EnableSlot") /\ events[i].slot = s
        BY <1>1, <2>1, <3>3 DEF DevInv, SlotsServe, NothingFailed
      <4>2. events[i] # Head(events)
        BY <3>3, <4>1 DEF slot
      <4>3. QED
        BY <1>1, <4>1, <4>2, PoppedEvents
    <3>4. QED
      BY <3>1, <3>2, <3>3
  <2>2. ASSUME NothingFailed', MaxPorts <= MaxSlots
        PROVE  /\ ~devices'[0].allocated
               /\ \A j \in DOMAIN events' : events'[j] \in Completions("EnableSlot") => events'[j].slot # 0
    <3>1. /\ ~devices[0].allocated
          /\ \A i \in DOMAIN events : events[i] \in Completions("EnableSlot") => events[i].slot # 0
      BY <1>1, <2>2 DEF DevInv, SlotsServe, NothingFailed
    <3>2. slot # 0
      BY <1>1, <1>2, <3>1, PoppedEvents DEF slot
    <3>3. QED
      BY <1>6, <1>11, <3>1, <3>2, Typed
  <2>3. QED
    BY <2>1, <2>2 DEF SlotsServe
<1>17. QED
  BY <1>9, <1>10, <1>12, <1>13, <1>14, <1>15, <1>16 DEF DevInv

\* The completion of AddressDevice is handled, and nothing else comes of it but
\* that the phases and the initialization may go on.
LEMMA AddressedQueues ==
  ASSUME IInv, DevInv, events # <<>>, events' = Tail(events), UNCHANGED commands,
         Head(events).type = "CommandCompletion", Head(events).issuer = "AddressDevice"
  PROVE  /\ port_config_phase[addressing_port] = "kAddressingDevice"
         /\ ~Outstanding(Commands("EnableSlot"), Completions("EnableSlot"))'
         /\ AtMostOne(Commands("EnableSlot"), Completions("EnableSlot"))'
         /\ \A j \in DOMAIN events' : events'[j] \notin Completions("EnableSlot")
         /\ ~Outstanding(Commands("AddressDevice"), Completions("AddressDevice"))'
         /\ AtMostOne(Commands("AddressDevice"), Completions("AddressDevice"))'
         /\ \A i \in DOMAIN commands' : commands'[i].type # "AddressDevice"
         /\ \A s \in Slots :
              /\ Outstanding(CommandFor(s), CompletionFor(s))' <=> Outstanding(CommandFor(s), CompletionFor(s))
              /\ AtMostOne(CommandFor(s), CompletionFor(s))'
         /\ \A j \in DOMAIN events' : \E i \in DOMAIN events : events[i] = events'[j]
<1>1. /\ Head(events) \in Event
      /\ {"EnableSlot", "AddressDevice", "ConfigureEndpoint"} \subseteq CommandType
      /\ \A j \in DOMAIN events' : \E i \in DOMAIN events : events[i] = events'[j]
  BY PoppedEvents DEF CommandType
<1>2. /\ Head(events) \in Completions("AddressDevice")
      /\ Head(events) \notin Completions("EnableSlot")
      /\ \A s \in Slots : Head(events) \notin CompletionFor(s)
  BY <1>1, PickedOut
<1>3. Outstanding(Commands("AddressDevice"), Completions("AddressDevice"))
  BY <1>2, PoppedEvents DEF Outstanding
<1>4. port_config_phase[addressing_port] = "kAddressingDevice"
  BY <1>3 DEF DevInv, AddressDeviceMatches
<1>5. \A C : NothingPushed(C)
  BY DEF NothingPushed
<1>6. ~Outstanding(Commands("EnableSlot"), Completions("EnableSlot"))
  BY <1>4 DEF DevInv, EnableSlotMatches
<1>7. /\ ~Outstanding(Commands("EnableSlot"), Completions("EnableSlot"))'
      /\ AtMostOne(Commands("EnableSlot"), Completions("EnableSlot"))'
  BY <1>2, <1>5, <1>6, OthersHandled DEF DevInv, EnableSlotMatches
<1>8. \A j \in DOMAIN events' : events'[j] \notin Completions("EnableSlot")
  BY <1>7 DEF Outstanding
<1>9. /\ ~Outstanding(Commands("AddressDevice"), Completions("AddressDevice"))'
      /\ AtMostOne(Commands("AddressDevice"), Completions("AddressDevice"))'
  BY <1>2, <1>5, OneHandled DEF DevInv, AddressDeviceMatches
<1>10. \A i \in DOMAIN commands' : commands'[i].type # "AddressDevice"
  BY <1>1, <1>9, EntriesTyped, PickedOut DEF Outstanding
<1>11. ASSUME NEW s \in Slots
       PROVE  /\ Outstanding(CommandFor(s), CompletionFor(s))' <=> Outstanding(CommandFor(s), CompletionFor(s))
              /\ AtMostOne(CommandFor(s), CompletionFor(s))'
  BY <1>2, <1>5, OthersHandled DEF DevInv, ConfigureEndpointMatches
<1>12. QED
  BY <1>1, <1>4, <1>7, <1>8, <1>9, <1>10, <1>11

\* A completion of AddressDevice that is ignored is dropped.
LEMMA AddressingDropped ==
  ASSUME IInv, DevInv, Handling("CommandCompletion"), Head(events).issuer = "AddressDevice", Ignored
  PROVE  DevInv'
<1>1. /\ events # <<>> /\ events' = Tail(events)
      /\ Head(events).type = "CommandCompletion"
      /\ UNCHANGED <<slots, budget, port_config_phase, addressing_port, devices, commands>>
  BY DEF Handling, Ignored
<1>2. EnableSlotMatches'
  BY <1>1, AddressedQueues DEF DevInv, EnableSlotMatches
<1>3. AddressDeviceMatches'
  BY <1>1, AddressedQueues DEF DevInv, AddressDeviceMatches
<1>4. ConfigureEndpointMatches'
  BY <1>1, AddressedQueues DEF DevInv, ConfigureEndpointMatches
<1>5. PortsHaveDevices' /\ SlotsInUse'
  BY <1>1 DEF DevInv, PortsHaveDevices, SlotsInUse
<1>6. Progress'
  BY <1>1, AddressedQueues DEF DevInv, Progress, NothingFailed
<1>7. SlotsServe'
  <2>1. ~Outstanding(Commands("EnableSlot"), Completions("EnableSlot"))
    BY <1>1, AddressedQueues DEF DevInv, EnableSlotMatches
  <2>2. QED
    BY <1>1, <2>1, AddressedQueues DEF DevInv, SlotsServe, NothingFailed, Outstanding
<1>8. QED
  BY <1>2, <1>3, <1>4, <1>5, <1>6, <1>7 DEF DevInv

\* The device has its address, and its port leaves the stretch to the next.
LEMMA AddressedStep ==
  ASSUME IInv, DevInv, OnAddressDeviceCompleted
  PROVE  DevInv'
<1> DEFINE slot == Head(events).slot
           p == devices[slot].out_port
<1>1. /\ events # <<>> /\ events' = Tail(events) /\ Head(events) \in Event
      /\ Head(events).type = "CommandCompletion" /\ Head(events).issuer = "AddressDevice"
      /\ slot \in Slots
      /\ UNCHANGED <<slots, budget>>
  BY PoppedEvents, EventFields DEF OnAddressDeviceCompleted, Handling
<1>2. CASE ~ (/\ devices[slot].allocated
              /\ p = addressing_port
              /\ port_config_phase[p] = "kAddressingDevice")
  BY <1>2, AddressingDropped DEF OnAddressDeviceCompleted
<1>3. CASE /\ devices[slot].allocated
           /\ p = addressing_port
           /\ port_config_phase[p] = "kAddressingDevice"
  <2>1. PICK r \in ResetNextWaiting :
          IF r.ok
            THEN /\ AfterReset([r EXCEPT !.phase[p] = "kInitializingDevice"])
                 /\ devices' = [devices EXCEPT ![slot].init = 1, ![slot].transfer = TRUE]
            ELSE AfterReset(r) /\ UNCHANGED devices
    BY <1>3 DEF OnAddressDeviceCompleted
  <2>2. /\ r \in Outcome
        /\ r.ok = TRUE
        /\ \/ r.owner = 0 /\ r.phase = port_config_phase
           \/ \E q \in Ports :
                /\ port_config_phase[q] = "kWaitingAddressed"
                /\ r.owner = q
                /\ r.phase = [port_config_phase EXCEPT ![q] = "kResettingPort"]
    BY NextWaitingOutcome
  <2>3. /\ p \in 0..MaxPorts /\ p # 0 /\ UNCHANGED commands
    BY <1>1, <1>3, Typed DEF OnAddressDeviceCompleted, AddressingPhases
  <2> HIDE DEF p, slot
  <2>4. /\ addressing_port' = r.owner
        /\ port_config_phase' = [r.phase EXCEPT ![p] = "kInitializingDevice"]
        /\ devices' = [devices EXCEPT ![slot].init = 1, ![slot].transfer = TRUE]
    BY <2>1, <2>2 DEF AfterReset, Outcome
  <2>5. /\ \A q \in 0..MaxPorts : q # p =>
             \/ port_config_phase'[q] = port_config_phase[q]
             \/ port_config_phase[q] = "kWaitingAddressed" /\ port_config_phase'[q] = "kResettingPort"
        /\ port_config_phase'[p] = "kInitializingDevice"
        /\ port_config_phase'[addressing_port'] \in {"kNotConnected", "kResettingPort"}
    <3>1. CASE r.owner = 0 /\ r.phase = port_config_phase
      BY <2>3, <2>4, <3>1, Typed
    <3>2. CASE \E q \in Ports :
                 /\ port_config_phase[q] = "kWaitingAddressed"
                 /\ r.owner = q
                 /\ r.phase = [port_config_phase EXCEPT ![q] = "kResettingPort"]
      BY <1>3, <2>3, <2>4, <3>2, Typed
    <3>3. QED
      BY <2>2, <3>1, <3>2
  <2>6. \A s \in Slots :
          /\ devices'[s].out_port = devices[s].out_port
          /\ devices'[s].in_port = devices[s].in_port
          /\ devices'[s].allocated = devices[s].allocated
          /\ devices'[s].endpoints = devices[s].endpoints
          /\ s # slot => devices'[s] = devices[s]
    <3>1. devices \in [Slots -> Device] /\ devices[slot] \in Device
      BY <1>1, Typed
    <3>2. /\ devices'[slot] = [devices[slot] EXCEPT !.init = 1, !.transfer = TRUE]
          /\ \A s \in Slots : s # slot => devices'[s] = devices[s]
      BY <1>1, <2>4, <3>1
    <3>3. QED
      BY <3>1, <3>2 DEF Device
  <2>7. /\ devices[slot].in_port = p /\ devices[slot].out_port = p
        /\ \A s \in Slots : devices[s].in_port = p => s = slot
        /\ ~devices[0].allocated
    <3>1. devices[slot].in_port = p /\ devices[slot].out_port = p
      BY <1>1, <2>3 DEF p, DevInv, PortsHaveDevices
    <3>2. \A s \in Slots : devices[s].in_port = p => s = slot
      BY <1>1, <2>3, <3>1 DEF DevInv, PortsHaveDevices
    <3>3. ~devices[0].allocated
      BY <1>3, <2>3, <3>1, <3>2, Typed DEF DevInv, SlotsInUse
    <3>4. QED
      BY <3>1, <3>2, <3>3
  <2>8. /\ \A s \in Slots : port_config_phase'[devices[s].out_port] \in {"kConfiguringEndpoints", "kConfigured"}
             <=> port_config_phase[devices[s].out_port] \in {"kConfiguringEndpoints", "kConfigured"}
        /\ \A s \in Slots : devices[s].out_port # p =>
             port_config_phase'[devices[s].out_port] = port_config_phase[devices[s].out_port]
             \/ port_config_phase'[devices[s].out_port] = "kResettingPort"
    BY <1>3, <2>3, <2>5, Typed
  <2>9. PortsHaveDevices'
    <3>1. ASSUME NEW s \in Slots
          PROVE  /\ devices'[s].out_port \in {0, devices'[s].in_port}
                 /\ devices'[s].allocated <=> devices'[s].in_port # 0
                 /\ devices'[s].in_port # 0 => port_config_phase'[devices'[s].in_port] \in HasDevice
                 /\ port_config_phase'[devices'[s].in_port] \in HasAddress
                      => devices'[s].out_port = devices'[s].in_port
      <4>1. CASE s = slot
        BY <1>3, <2>3, <2>5, <2>6, <2>7, <4>1 DEF HasDevice, HasAddress, slot
      <4>2. CASE s # slot
        BY <2>5, <2>6, <2>7, <4>2, Typed DEF DevInv, PortsHaveDevices, HasDevice, HasAddress
      <4>3. QED
        BY <4>1, <4>2
    <3>2. \A s, t \in Slots :
            devices'[s].in_port = devices'[t].in_port /\ devices'[s].in_port # 0 => s = t
      BY <2>6 DEF DevInv, PortsHaveDevices
    <3>3. ASSUME NEW q \in Ports, port_config_phase'[q] \in HasDevice
          PROVE  \E s \in Slots : devices'[s].in_port = q
      <4>1. CASE q = p
        BY <1>1, <2>6, <2>7, <4>1
      <4>2. CASE q # p
        BY <2>5, <2>6, <3>3, <4>2, Typed DEF DevInv, PortsHaveDevices, HasDevice
      <4>3. QED
        BY <4>1, <4>2
    <3>4. QED
      BY <3>1, <3>2, <3>3 DEF PortsHaveDevices
  <2>10. SlotsInUse'
    BY <1>1, <2>6, <2>7, Typed DEF DevInv, SlotsInUse
  <2>11. EnableSlotMatches'
    BY <1>1, <2>3, <2>5, AddressedQueues DEF DevInv, EnableSlotMatches
  <2>12. AddressDeviceMatches'
    BY <1>1, <2>3, AddressedQueues DEF DevInv, AddressDeviceMatches
  <2>13. ConfigureEndpointMatches'
    <3>1. ASSUME NEW s \in Slots
          PROVE  /\ AtMostOne(CommandFor(s), CompletionFor(s))'
                 /\ Outstanding(CommandFor(s), CompletionFor(s))'
                      <=> port_config_phase'[devices'[s].out_port] = "kConfiguringEndpoints"
      <4>1. port_config_phase'[devices[s].out_port] = "kConfiguringEndpoints"
              <=> port_config_phase[devices[s].out_port] = "kConfiguringEndpoints"
        BY <1>3, <2>3, <2>5, Typed
      <4>2. QED
        BY <1>1, <2>3, <2>6, <4>1, AddressedQueues DEF DevInv, ConfigureEndpointMatches
    <3>2. QED
      BY <3>1 DEF ConfigureEndpointMatches
  <2>14. Progress'
    <3>1. \A s \in Slots :
            port_config_phase'[devices'[s].out_port] \in {"kConfiguringEndpoints", "kConfigured"}
              => devices'[s].init = 4
      BY <2>5, <2>6, <2>7, <2>8 DEF DevInv, Progress
    <3>2. ASSUME NothingFailed', NEW s \in Slots
          PROVE  /\ port_config_phase'[devices'[s].out_port] = "kConfigured" => devices'[s].endpoints
                 /\ \A j \in DOMAIN events' : events'[j] \in CompletionFor(s) => devices'[s].endpoints
      <4>1. \A j \in DOMAIN events' : \E i \in DOMAIN events : events[i] = events'[j]
        BY <1>1, PoppedEvents
      <4>2. NothingFailed
        BY <1>1, <3>2 DEF NothingFailed
      <4>3. QED
        BY <2>5, <2>6, <2>8, <4>1, <4>2 DEF DevInv, Progress
    <3>3. QED
      BY <3>1, <3>2 DEF Progress
  <2>15. SlotsServe'
    <3>1. ~Outstanding(Commands("EnableSlot"), Completions("EnableSlot"))
      BY <1>3 DEF DevInv, EnableSlotMatches
    <3>2. \A j \in DOMAIN events' : events'[j] \notin Completions("EnableSlot")
      BY <1>1, <2>3, AddressedQueues
    <3>3. NothingFailed' => \A s \in slots' : devices'[s].allocated
      BY <1>1, <2>6, <3>1, Typed DEF DevInv, SlotsServe, NothingFailed, Outstanding
    <3>4. ~devices'[0].allocated
      BY <2>6, <2>7, Typed
    <3>5. QED
      BY <3>2, <3>3, <3>4 DEF SlotsServe
  <2>16. QED
    BY <2>9, <2>10, <2>11, <2>12, <2>13, <2>14, <2>15 DEF DevInv
<1>4. QED
  BY <1>2, <1>3

\* A device that has a port has it for itself.
LEMMA OnlyDevice ==
  ASSUME IInv, DevInv, NEW slot \in Slots, devices[slot].out_port # 0
  PROVE  /\ devices[slot].in_port = devices[slot].out_port
         /\ devices[slot].allocated
         /\ slot # 0
         /\ devices[slot].out_port \in Ports
         /\ \A s \in Slots : devices[s].out_port = devices[slot].out_port => s = slot
         /\ \A s \in Slots : devices[s].in_port = devices[slot].out_port => s = slot
<1>1. /\ devices[slot].in_port = devices[slot].out_port
      /\ devices[slot].allocated
      /\ slot # 0
      /\ devices[slot].out_port \in Ports
  BY Typed DEF DevInv, PortsHaveDevices, SlotsInUse
<1>2. \A s \in Slots : devices[s].in_port = devices[slot].out_port => s = slot
  BY <1>1 DEF DevInv, PortsHaveDevices
<1>3. \A s \in Slots : devices[s].out_port = devices[slot].out_port => s = slot
  BY <1>2 DEF DevInv, PortsHaveDevices
<1>4. QED
  BY <1>1, <1>2, <1>3

\* Whether a transfer is on a ring is all that changes of a device.
LEMMA TransferToggled ==
  ASSUME IInv, NEW slot \in Slots, NEW on, devices' = [devices EXCEPT ![slot].transfer = on]
  PROVE  \A s \in Slots :
           /\ devices'[s].allocated = devices[s].allocated
           /\ devices'[s].in_port = devices[s].in_port
           /\ devices'[s].out_port = devices[s].out_port
           /\ devices'[s].endpoints = devices[s].endpoints
           /\ devices'[s].init = devices[s].init
<1>1. devices \in [Slots -> Device] /\ devices[slot] \in Device
  BY Typed
<1>2. /\ devices'[slot] = [devices[slot] EXCEPT !.transfer = on]
      /\ \A s \in Slots : s # slot => devices'[s] = devices[s]
  BY <1>1
<1>3. QED
  BY <1>1, <1>2 DEF Device

\* A port goes on within the phases in which its device has an address, for the
\* one command of its slot: what the rings say of the other commands is as before.
LEMMA ConfiguringStep ==
  ASSUME IInv, DevInv, IInv', events # <<>>, events' = Tail(events),
         UNCHANGED <<slots, budget, addressing_port>>,
         DevicesKept,
         NEW slot \in Slots, devices[slot].out_port # 0,
         NEW before \in HasAddress, NEW after \in HasAddress,
         before # "kConfigured",
         port_config_phase[devices[slot].out_port] = before,
         port_config_phase' = [port_config_phase EXCEPT ![devices[slot].out_port] = after],
         after \in {"kConfiguringEndpoints", "kConfigured"} => devices'[slot].init = 4,
         after = "kConfigured" /\ NothingFailed => devices[slot].endpoints,
         \A type \in {"EnableSlot", "AddressDevice"} :
           NothingPushed(Commands(type)) /\ Head(events) \notin Completions(type),
         \A s \in Slots : s # slot =>
           NothingPushed(CommandFor(s)) /\ Head(events) \notin CompletionFor(s),
         AtMostOne(CommandFor(slot), CompletionFor(slot))',
         Outstanding(CommandFor(slot), CompletionFor(slot))' <=> after = "kConfiguringEndpoints",
         \A i \in DOMAIN commands' : commands'[i].type \in {"EnableSlot", "AddressDevice"} =>
           \E k \in DOMAIN commands : commands[k] = commands'[i]
  PROVE  DevInv'
<1> DEFINE p == devices[slot].out_port
<1>1. /\ p \in Ports /\ p \in 0..MaxPorts /\ p # 0
      /\ devices[slot].in_port = p /\ devices[slot].allocated /\ slot # 0
      /\ \A s \in Slots : devices[s].out_port = p => s = slot
      /\ \A s \in Slots : devices[s].in_port = p => s = slot
  BY OnlyDevice, Typed
<1>2. /\ port_config_phase'[p] = after /\ port_config_phase[p] = before
      /\ \A q \in 0..MaxPorts : q # p => port_config_phase'[q] = port_config_phase[q]
      /\ addressing_port # p
  BY <1>1, Typed DEF IInv, PhasesOK, ExclusiveAddressing, AddressingPhases, HasAddress, HasDevice
<1> HIDE DEF p
<1>3. \A q \in 0..MaxPorts :
        /\ port_config_phase'[q] \in HasDevice <=> port_config_phase[q] \in HasDevice
        /\ port_config_phase'[q] \in HasAddress <=> port_config_phase[q] \in HasAddress
  BY <1>2 DEF HasDevice, HasAddress
<1>4. port_config_phase'[addressing_port] = port_config_phase[addressing_port]
  BY <1>2, Typed
<1>5. \A j \in DOMAIN events' : \E i \in DOMAIN events : events[i] = events'[j]
  BY PoppedEvents
<1>6. \A s \in Slots : s # slot =>
        port_config_phase'[devices[s].out_port] = port_config_phase[devices[s].out_port]
  BY <1>1, <1>2, Typed
<1>7. PortsHaveDevices'
  <2>1. ASSUME NEW s \in Slots
        PROVE  /\ devices'[s].out_port \in {0, devices'[s].in_port}
               /\ devices'[s].allocated <=> devices'[s].in_port # 0
               /\ devices'[s].in_port # 0 => port_config_phase'[devices'[s].in_port] \in HasDevice
               /\ port_config_phase'[devices'[s].in_port] \in HasAddress
                    => devices'[s].out_port = devices'[s].in_port
    <3>1. /\ devices'[s].out_port = devices[s].out_port
          /\ devices'[s].in_port = devices[s].in_port
          /\ devices'[s].allocated = devices[s].allocated
      BY DEF DevicesKept
    <3>2. devices[s].in_port \in 0..MaxPorts
      BY Typed
    <3>3. QED
      BY <1>3, <3>1, <3>2 DEF DevInv, PortsHaveDevices
  <2>2. \A s, t \in Slots :
          devices'[s].in_port = devices'[t].in_port /\ devices'[s].in_port # 0 => s = t
    BY DEF DevInv, PortsHaveDevices, DevicesKept
  <2>3. \A q \in Ports : port_config_phase'[q] \in HasDevice => \E s \in Slots : devices'[s].in_port = q
    BY <1>3, Typed DEF DevInv, PortsHaveDevices, DevicesKept
  <2>4. QED
    BY <2>1, <2>2, <2>3 DEF PortsHaveDevices
<1>8. SlotsInUse'
  BY Typed DEF DevInv, SlotsInUse, DevicesKept
<1>9. EnableSlotMatches'
  <2>1. /\ Outstanding(Commands("EnableSlot"), Completions("EnableSlot"))'
             <=> Outstanding(Commands("EnableSlot"), Completions("EnableSlot"))
        /\ AtMostOne(Commands("EnableSlot"), Completions("EnableSlot"))'
    BY OthersHandled DEF DevInv, EnableSlotMatches
  <2>2. ASSUME NEW j \in DOMAIN events', events'[j] \in Completions("EnableSlot")
        PROVE  /\ ~devices'[events'[j].slot].allocated
               /\ events'[j].slot \in slots' \cup {0}
    <3>1. PICK i \in DOMAIN events : events[i] = events'[j]
      BY <1>5
    <3>2. events[i].slot \in Slots
      BY <2>2, <3>1 DEF Completions
    <3>3. QED
      BY <2>2, <3>1, <3>2 DEF DevInv, EnableSlotMatches, DevicesKept
  <2>3. \A i \in DOMAIN commands' : commands'[i].type = "EnableSlot" => commands'[i].slot = 0
    BY DEF DevInv, EnableSlotMatches
  <2>4. QED
    BY <1>4, <2>1, <2>2, <2>3 DEF DevInv, EnableSlotMatches
<1>10. AddressDeviceMatches'
  <2>1. /\ Outstanding(Commands("AddressDevice"), Completions("AddressDevice"))'
             <=> Outstanding(Commands("AddressDevice"), Completions("AddressDevice"))
        /\ AtMostOne(Commands("AddressDevice"), Completions("AddressDevice"))'
    BY OthersHandled DEF DevInv, AddressDeviceMatches
  <2>2. ASSUME NEW i \in DOMAIN commands', commands'[i].type = "AddressDevice"
        PROVE  devices'[commands'[i].slot].in_port = addressing_port'
    <3>1. PICK k \in DOMAIN commands : commands[k] = commands'[i]
      BY <2>2
    <3>2. commands[k].slot \in Slots
      BY EntriesTyped DEF Command
    <3>3. QED
      BY <2>2, <3>1, <3>2 DEF DevInv, AddressDeviceMatches, DevicesKept
  <2>3. QED
    BY <1>4, <2>1, <2>2 DEF DevInv, AddressDeviceMatches
<1>11. ConfigureEndpointMatches'
  <2>1. ASSUME NEW s \in Slots, s # slot
        PROVE  /\ AtMostOne(CommandFor(s), CompletionFor(s))'
               /\ Outstanding(CommandFor(s), CompletionFor(s))'
                    <=> port_config_phase'[devices'[s].out_port] = "kConfiguringEndpoints"
    <3>1. /\ Outstanding(CommandFor(s), CompletionFor(s))' <=> Outstanding(CommandFor(s), CompletionFor(s))
          /\ AtMostOne(CommandFor(s), CompletionFor(s))'
      BY <2>1, OthersHandled DEF DevInv, ConfigureEndpointMatches
    <3>2. QED
      BY <1>6, <2>1, <3>1 DEF DevInv, ConfigureEndpointMatches, DevicesKept
  <2>2. Outstanding(CommandFor(slot), CompletionFor(slot))'
          <=> port_config_phase'[devices'[slot].out_port] = "kConfiguringEndpoints"
    BY <1>2 DEF DevicesKept, p
  <2>3. QED
    BY <2>1, <2>2 DEF ConfigureEndpointMatches
<1>12. Progress'
  <2>1. ASSUME NEW s \in Slots
        PROVE  port_config_phase'[devices'[s].out_port] \in {"kConfiguringEndpoints", "kConfigured"}
                 => devices'[s].init = 4
    <3>1. CASE s = slot
      BY <1>2, <3>1 DEF DevicesKept, p
    <3>2. CASE s # slot
      BY <1>6, <3>2 DEF DevInv, Progress, DevicesKept
    <3>3. QED
      BY <3>1, <3>2
  <2>2. ASSUME NothingFailed', NEW s \in Slots
        PROVE  /\ port_config_phase'[devices'[s].out_port] = "kConfigured" => devices'[s].endpoints
               /\ \A j \in DOMAIN events' : events'[j] \in CompletionFor(s) => devices'[s].endpoints
    <3>1. NothingFailed
      BY <2>2 DEF NothingFailed
    <3>2. \A j \in DOMAIN events' : events'[j] \in CompletionFor(s) => devices'[s].endpoints
      BY <1>5, <3>1 DEF DevInv, Progress, DevicesKept
    <3>3. CASE s = slot
      BY <1>2, <3>1, <3>2, <3>3 DEF DevicesKept, p
    <3>4. CASE s # slot
      BY <1>6, <3>1, <3>2, <3>4 DEF DevInv, Progress, DevicesKept
    <3>5. QED
      BY <3>3, <3>4
  <2>3. QED
    BY <2>1, <2>2 DEF Progress
<1>13. SlotsServe'
  <2>1. \A i \in DOMAIN events : events[i] \in Completions("EnableSlot") =>
          \E j \in DOMAIN events' : events'[j] = events[i]
    BY PoppedEvents
  <2>2. ASSUME NothingFailed', NEW s \in slots'
        PROVE  \/ devices'[s].allocated
               \/ \E j \in DOMAIN events' : events'[j] \in Completions("EnableSlot") /\ events'[j].slot = s
    <3>1. s \in slots /\ s \in Slots /\ NothingFailed
      BY <2>2, Typed DEF NothingFailed
    <3>2. CASE devices[s].allocated
      BY <3>1, <3>2 DEF DevicesKept
    <3>3. CASE \E i \in DOMAIN events : events[i] \in Completions("EnableSlot") /\ events[i].slot = s
      BY <2>1, <3>3
    <3>4. QED
      BY <3>1, <3>2, <3>3 DEF DevInv, SlotsServe
  <2>3. ASSUME NothingFailed', MaxPorts <= MaxSlots
        PROVE  /\ ~devices'[0].allocated
               /\ \A j \in DOMAIN events' : events'[j] \in Completions("EnableSlot") => events'[j].slot # 0
    BY <1>5, <2>3, Typed DEF DevInv, SlotsServe, NothingFailed, DevicesKept
  <2>4. QED
    BY <2>2, <2>3 DEF SlotsServe
<1>14. QED
  BY <1>7, <1>8, <1>9, <1>10, <1>11, <1>12, <1>13 DEF DevInv

\* The endpoints of a device are configured, and so is its port.
LEMMA ConfiguredStep ==
  ASSUME IInv, DevInv, IInv', OnConfigureEndpointCompleted
  PROVE  DevInv'
<1>a. Head(events).slot \in Slots
  BY PoppedEvents, EventFields DEF OnConfigureEndpointCompleted, Handling
<1>b. PICK slot \in Slots : slot = Head(events).slot
  BY <1>a
<1> DEFINE p == devices[slot].out_port
<1>1. /\ events # <<>> /\ events' = Tail(events) /\ Head(events) \in Event
      /\ Head(events).type = "CommandCompletion" /\ Head(events).issuer = "ConfigureEndpoint"
      /\ UNCHANGED <<slots, budget>>
  BY PoppedEvents DEF OnConfigureEndpointCompleted, Handling
<1>2. /\ \A type \in {"EnableSlot", "AddressDevice"} : Head(events) \notin Completions(type)
      /\ \A s \in Slots : Head(events) \in CompletionFor(s) <=> s = slot
  BY <1>b, <1>1, PickedOut DEF CommandType
<1>3. PICK j \in DOMAIN events : events[j] \in CompletionFor(slot)
  BY <1>1, <1>2, PoppedEvents
<1>4. port_config_phase[p] = "kConfiguringEndpoints" /\ p # 0
  BY <1>1, <1>3, Typed DEF DevInv, ConfigureEndpointMatches, Outstanding
<1>5. devices[slot].allocated
  BY <1>1, <1>4, OnlyDevice
<1>6. /\ port_config_phase' = [port_config_phase EXCEPT ![p] = "kConfigured"]
      /\ devices' = [devices EXCEPT ![slot].transfer = TRUE]
      /\ UNCHANGED <<addressing_port, commands>>
  BY <1>b, <1>4, <1>5 DEF OnConfigureEndpointCompleted, SetPhase
<1>7. DevicesKept
  BY <1>1, <1>6, TransferToggled DEF DevicesKept
<1>8. \A C : NothingPushed(C)
  BY <1>6 DEF NothingPushed
<1>9. /\ ~Outstanding(CommandFor(slot), CompletionFor(slot))'
      /\ AtMostOne(CommandFor(slot), CompletionFor(slot))'
  BY <1>1, <1>2, <1>8, OneHandled DEF DevInv, ConfigureEndpointMatches
<1>10. devices'[slot].init = 4
  BY <1>1, <1>4, <1>7 DEF DevInv, Progress, DevicesKept
<1>11. NothingFailed => devices[slot].endpoints
  BY <1>1, <1>3 DEF DevInv, Progress
<1>12. "kConfigured" \in HasAddress /\ "kConfiguringEndpoints" \in HasAddress
  BY DEF HasAddress, HasDevice
<1>13. QED
  BY <1>1, <1>2, <1>4, <1>6, <1>7, <1>8, <1>9, <1>10, <1>11, <1>12, ConfiguringStep

\* A transfer that ends well takes the initialization of its device on.
LEMMA AfterTransferKeeps ==
  ASSUME NEW dev \in Device
  PROVE  /\ AfterTransfer(dev).allocated = dev.allocated
         /\ AfterTransfer(dev).in_port = dev.in_port
         /\ AfterTransfer(dev).out_port = dev.out_port
         /\ AfterTransfer(dev).endpoints = dev.endpoints
         /\ dev.init = 4 => AfterTransfer(dev).init = 4
<1>1. CASE dev.init = 2 /\ dev.in_port \in Unsupported
  BY <1>1 DEF AfterTransfer
<1>2. CASE ~(dev.init = 2 /\ dev.in_port \in Unsupported) /\ dev.init \in 1..3
  <2>1. AfterTransfer(dev) = [dev EXCEPT !.init = dev.init + 1, !.transfer = dev.init < 3]
    BY <1>2 DEF AfterTransfer
  <2>2. QED
    BY <1>2, <2>1 DEF Device
<1>3. CASE ~(dev.init = 2 /\ dev.in_port \in Unsupported) /\ dev.init \notin 1..3
  <2>1. AfterTransfer(dev) = [dev EXCEPT !.transfer = TRUE]
    BY <1>3 DEF AfterTransfer
  <2>2. QED
    BY <2>1 DEF Device
<1>4. QED
  BY <1>1, <1>2, <1>3

\* The initialized device asks for its endpoints.
LEMMA TransferStep ==
  ASSUME IInv, DevInv, IInv', OnTransfer
  PROVE  DevInv'
<1>a. Head(events).slot \in Slots
  BY PoppedEvents, EventFields DEF OnTransfer, Handling
<1>b. PICK slot \in Slots : slot = Head(events).slot
  BY <1>a
<1> DEFINE dev == AfterTransfer(devices[slot])
           p == dev.out_port
<1>1. /\ events # <<>> /\ events' = Tail(events) /\ Head(events) \in Event
      /\ Head(events).type = "Transfer"
      /\ devices \in [Slots -> Device] /\ devices[slot] \in Device
      /\ UNCHANGED <<slots, budget>>
  BY PoppedEvents, Typed DEF OnTransfer, Handling
<1>2. /\ \A type \in {"EnableSlot", "AddressDevice"} : Head(events) \notin Completions(type)
      /\ \A s \in Slots : Head(events) \notin CompletionFor(s)
  BY <1>1, PickedOut DEF CommandType
<1>3. p = devices[slot].out_port
  BY <1>1, AfterTransferKeeps
<1>4. ASSUME devices' = [devices EXCEPT ![slot] = dev]
      PROVE  DevicesKept /\ devices'[slot].init = dev.init
  <2>1. \A s \in Slots : devices'[s] = IF s = slot THEN dev ELSE devices[s]
    BY <1>1, <1>4
  <2>2. QED
    BY <1>1, <2>1, AfterTransferKeeps DEF DevicesKept
<1>5. CASE /\ UNCHANGED <<port_config_phase, addressing_port, commands>>
           /\ devices' = [devices EXCEPT ![slot] = dev] \/ UNCHANGED devices
  <2>1. DevicesKept
    BY <1>4, <1>5 DEF DevicesKept
  <2> HIDE DEF dev, p
  <2>2. QuietRings /\ PhasesQuiet /\ (NothingFailed' => NothingFailed)
    <3>1. QuietRings
      BY <1>1, <1>5 DEF QuietRings
    <3>2. PhasesQuiet
      BY <1>5 DEF PhasesQuiet
    <3>3. QED
      BY <1>1, <3>1, <3>2 DEF NothingFailed
  <2>3. QED
    BY <1>1, <2>1, <2>2, QuietStep
<1>6. CASE /\ devices' = [devices EXCEPT ![slot] = dev]
           /\ UNCHANGED addressing_port
           /\ IsInitialized(dev)
           /\ port_config_phase[p] = "kInitializingDevice"
           /\ SetPhase(p, "kConfiguringEndpoints")
           /\ Push("ConfigureEndpoint", slot)
  <2> DEFINE c == [type |-> "ConfigureEndpoint", slot |-> slot]
  <2>1. /\ port_config_phase[devices[slot].out_port] = "kInitializingDevice"
        /\ port_config_phase' = [port_config_phase EXCEPT ![devices[slot].out_port] = "kConfiguringEndpoints"]
        /\ commands' = Append(commands, c)
        /\ DevicesKept /\ devices'[slot].init = 4
    BY <1>3, <1>4, <1>6 DEF SetPhase, Push, IsInitialized
  <2>2. devices[slot].out_port # 0
    BY <2>1, Typed
  <2>3. /\ c \in CommandFor(slot) /\ c.type = "ConfigureEndpoint"
        /\ \A type \in {"EnableSlot", "AddressDevice"} : c \notin Commands(type)
        /\ \A s \in Slots : s # slot => c \notin CommandFor(s)
    BY DEF CommandFor, Commands
  <2> HIDE DEF c, p, dev
  <2>4. /\ \A type \in {"EnableSlot", "AddressDevice"} : NothingPushed(Commands(type))
        /\ \A s \in Slots : s # slot => NothingPushed(CommandFor(s))
    BY <2>1, <2>3 DEF NothingPushed
  <2>5. ~Outstanding(CommandFor(slot), CompletionFor(slot))
    BY <1>1, <2>1 DEF DevInv, ConfigureEndpointMatches
  <2>6. /\ Outstanding(CommandFor(slot), CompletionFor(slot))'
        /\ AtMostOne(CommandFor(slot), CompletionFor(slot))'
    BY <1>1, <2>1, <2>3, <2>5, OnePushed
  <2>7. \A i \in DOMAIN commands' : commands'[i].type \in {"EnableSlot", "AddressDevice"} =>
          \E k \in DOMAIN commands : commands[k] = commands'[i]
    BY <2>1, <2>3, PushedCommands
  <2>8. "kInitializingDevice" \in HasAddress /\ "kConfiguringEndpoints" \in HasAddress
    BY DEF HasAddress, HasDevice
  <2>9. UNCHANGED <<slots, budget, addressing_port>>
    BY <1>1, <1>6
  <2>10. QED
    BY <1>1, <1>2, <2>1, <2>2, <2>4, <2>6, <2>7, <2>8, <2>9, ConfiguringStep
<1>7. QED
  BY <1>b, <1>5, <1>6 DEF OnTransfer, Ignored

-----------------------------------------------------------------------------
(* The commands that the controller completes.                             *)

\* What a completed command may do to its device, and to the slots.
LEMMA CompletedStep ==
  ASSUME IInv, DevInv, IInv', UNCHANGED software,
         NEW type \in CommandType, NEW slot \in Slots, Complete(type, slot),
         NothingFailed' => NothingFailed,
         \A s \in Slots : /\ devices'[s].allocated = devices[s].allocated
                          /\ devices'[s].in_port = devices[s].in_port
                          /\ devices'[s].init = devices[s].init
                          /\ devices[s].endpoints => devices'[s].endpoints,
         \A s \in Slots : \/ devices'[s].out_port = devices[s].out_port
                          \/ /\ s # 0
                             /\ devices'[s].out_port = devices[s].in_port
                             /\ devices[s].in_port = addressing_port
                             /\ port_config_phase[addressing_port] = "kAddressingDevice",
         type = "ConfigureEndpoint" => Head(commands).slot = slot,
         slots' = slots \/ (type = "EnableSlot" /\ slots' = slots \cup {slot}),
         type = "EnableSlot" => slot \in slots' \cup {0} /\ ~devices[slot].allocated,
         type = "EnableSlot" /\ slot = 0 => ~(NothingFailed' /\ MaxPorts <= MaxSlots),
         type = "ConfigureEndpoint" /\ NothingFailed' => devices'[slot].endpoints
  PROVE  DevInv'
<1> DEFINE e == [type |-> "CommandCompletion", issuer |-> type, slot |-> slot]
<1>1. /\ UNCHANGED <<port_config_phase, addressing_port>>
      /\ commands # <<>> /\ commands' = Tail(commands) /\ Head(commands).type = type
      /\ Post(e)
  BY DEF software, Complete
<1>2. /\ Head(commands) \in Command
      /\ \A i \in DOMAIN commands' : \E k \in DOMAIN commands : commands[k] = commands'[i]
  <2>1. commands \in Seq(Command)
    BY DEF IInv, TypeOK, ControllerTypeOK
  <2>2. QED
    BY <1>1, <2>1, TailEntries
<1>3. /\ \A t \in CommandType : e \in Completions(t) <=> t = type
      /\ \A s \in Slots : e \in CompletionFor(s) <=> type = "ConfigureEndpoint" /\ s = slot
      /\ e.slot = slot
  BY Kinds
<1>4. /\ \A t \in CommandType : Head(commands) \in Commands(t) <=> e \in Completions(t)
      /\ \A s \in Slots : Head(commands) \in CommandFor(s) <=> e \in CompletionFor(s)
  BY <1>1, <1>2, <1>3, PickedOut
<1>5. /\ \A t \in CommandType :
           /\ Outstanding(Commands(t), Completions(t))' <=> Outstanding(Commands(t), Completions(t))
           /\ AtMostOne(Commands(t), Completions(t)) => AtMostOne(Commands(t), Completions(t))'
      /\ \A s \in Slots :
           /\ Outstanding(CommandFor(s), CompletionFor(s))' <=> Outstanding(CommandFor(s), CompletionFor(s))
           /\ AtMostOne(CommandFor(s), CompletionFor(s)) => AtMostOne(CommandFor(s), CompletionFor(s))'
  BY <1>4, CommandCompleted
<1> HIDE DEF e
<1>6. /\ \A j \in DOMAIN events' : events'[j] = e \/ \E i \in DOMAIN events : events[i] = events'[j]
      /\ \A i \in DOMAIN events : \E j \in DOMAIN events' : events'[j] = events[i]
      /\ \E j \in DOMAIN events' : events'[j] = e
  BY <1>1, PostedEvents
<1>7. \A s \in Slots : \A phase \in HasAddress :
        port_config_phase'[devices'[s].out_port] = phase <=> port_config_phase[devices[s].out_port] = phase
  <2>1. ASSUME NEW s \in Slots, devices'[s].out_port # devices[s].out_port
        PROVE  /\ port_config_phase[devices'[s].out_port] = "kAddressingDevice"
               /\ port_config_phase[devices[s].out_port] \notin HasAddress
    BY <2>1, Typed DEF DevInv, PortsHaveDevices, HasAddress, HasDevice
  <2>2. QED
    BY <1>1, <2>1 DEF HasAddress
<1>8. PortsHaveDevices'
  <2>1. ASSUME NEW s \in Slots
        PROVE  /\ devices'[s].out_port \in {0, devices'[s].in_port}
               /\ devices'[s].allocated <=> devices'[s].in_port # 0
               /\ devices'[s].in_port # 0 => port_config_phase'[devices'[s].in_port] \in HasDevice
               /\ port_config_phase'[devices'[s].in_port] \in HasAddress
                    => devices'[s].out_port = devices'[s].in_port
    BY <1>1 DEF DevInv, PortsHaveDevices
  <2>2. \A s, t \in Slots :
          devices'[s].in_port = devices'[t].in_port /\ devices'[s].in_port # 0 => s = t
    BY DEF DevInv, PortsHaveDevices
  <2>3. \A q \in Ports : port_config_phase'[q] \in HasDevice => \E s \in Slots : devices'[s].in_port = q
    BY <1>1 DEF DevInv, PortsHaveDevices
  <2>4. QED
    BY <2>1, <2>2, <2>3 DEF PortsHaveDevices
<1>9. SlotsInUse'
  BY <1>1, Typed DEF DevInv, SlotsInUse
<1>10. {"EnableSlot", "AddressDevice"} \subseteq CommandType
  BY DEF CommandType
<1>11. EnableSlotMatches'
  <2>1. ASSUME NEW j \in DOMAIN events', events'[j] \in Completions("EnableSlot")
        PROVE  /\ ~devices'[events'[j].slot].allocated
               /\ events'[j].slot \in slots' \cup {0}
    <3>1. CASE events'[j] = e
      BY <1>3, <1>10, <2>1, <3>1
    <3>2. CASE \E i \in DOMAIN events : events[i] = events'[j]
      <4>1. PICK i \in DOMAIN events : events[i] = events'[j]
        BY <3>2
      <4>2. events[i].slot \in Slots
        BY <2>1, <4>1 DEF Completions
      <4>3. QED
        BY <2>1, <4>1, <4>2 DEF DevInv, EnableSlotMatches
    <3>3. QED
      BY <1>6, <3>1, <3>2
  <2>2. \A i \in DOMAIN commands' : commands'[i].type = "EnableSlot" => commands'[i].slot = 0
    BY <1>2 DEF DevInv, EnableSlotMatches
  <2>3. QED
    BY <1>1, <1>5, <1>10, <2>1, <2>2 DEF DevInv, EnableSlotMatches
<1>12. AddressDeviceMatches'
  <2>1. ASSUME NEW i \in DOMAIN commands', commands'[i].type = "AddressDevice"
        PROVE  devices'[commands'[i].slot].in_port = addressing_port'
    <3>1. PICK k \in DOMAIN commands : commands[k] = commands'[i]
      BY <1>2
    <3>2. commands[k].slot \in Slots
      BY EntriesTyped DEF Command
    <3>3. QED
      BY <1>1, <2>1, <3>1, <3>2 DEF DevInv, AddressDeviceMatches
  <2>2. QED
    BY <1>1, <1>5, <1>10, <2>1 DEF DevInv, AddressDeviceMatches
<1>13. ConfigureEndpointMatches'
  <2>1. "kConfiguringEndpoints" \in HasAddress
    BY DEF HasAddress, HasDevice
  <2>2. QED
    BY <1>5, <1>7, <2>1 DEF DevInv, ConfigureEndpointMatches
<1>14. Progress'
  <2>1. {"kConfiguringEndpoints", "kConfigured"} \subseteq HasAddress
    BY DEF HasAddress, HasDevice
  <2>2. ASSUME NothingFailed', NEW s \in Slots, NEW j \in DOMAIN events', events'[j] \in CompletionFor(s)
        PROVE  devices'[s].endpoints
    <3>1. CASE events'[j] = e
      BY <1>3, <2>2, <3>1
    <3>2. CASE \E i \in DOMAIN events : events[i] = events'[j]
      BY <2>2, <3>2 DEF DevInv, Progress
    <3>3. QED
      BY <1>6, <3>1, <3>2
  <2>3. \A s \in Slots :
          port_config_phase'[devices'[s].out_port] \in {"kConfiguringEndpoints", "kConfigured"}
            => devices'[s].init = 4
    BY <1>7, <2>1 DEF DevInv, Progress
  <2>4. ASSUME NothingFailed', NEW s \in Slots,
               port_config_phase'[devices'[s].out_port] = "kConfigured"
        PROVE  devices'[s].endpoints
    BY <1>7, <2>1, <2>4 DEF DevInv, Progress
  <2>5. QED
    BY <2>2, <2>3, <2>4 DEF Progress
<1>15. SlotsServe'
  <2>1. ASSUME NothingFailed', NEW s \in slots'
        PROVE  \/ devices'[s].allocated
               \/ \E j \in DOMAIN events' : events'[j] \in Completions("EnableSlot") /\ events'[j].slot = s
    <3>1. CASE s \notin slots
      <4>1. e \in Completions("EnableSlot") /\ e.slot = s
        BY <1>3, <1>10, <2>1, <3>1
      <4>2. QED
        BY <1>6, <4>1
    <3>2. CASE s \in slots
      <4>1. s \in Slots
        BY <3>2, Typed
      <4>2. CASE devices[s].allocated
        BY <4>1, <4>2
      <4>3. CASE \E i \in DOMAIN events : events[i] \in Completions("EnableSlot") /\ events[i].slot = s
        BY <1>6, <4>3
      <4>4. QED
        BY <2>1, <3>2, <4>2, <4>3 DEF DevInv, SlotsServe
    <3>3. QED
      BY <3>1, <3>2
  <2>2. ASSUME NothingFailed', MaxPorts <= MaxSlots
        PROVE  /\ ~devices'[0].allocated
               /\ \A j \in DOMAIN events' : events'[j] \in Completions("EnableSlot") => events'[j].slot # 0
    <3>1. ~devices'[0].allocated
      BY <2>2, Typed DEF DevInv, SlotsServe
    <3>2. ASSUME NEW j \in DOMAIN events', events'[j] \in Completions("EnableSlot")
          PROVE  events'[j].slot # 0
      <4>1. CASE events'[j] = e
        BY <1>3, <1>10, <2>2, <3>2, <4>1
      <4>2. CASE \E i \in DOMAIN events : events[i] = events'[j]
        BY <2>2, <3>2, <4>2 DEF DevInv, SlotsServe
      <4>3. QED
        BY <1>6, <4>1, <4>2
    <3>3. QED
      BY <3>1, <3>2
  <2>3. QED
    BY <2>1, <2>2 DEF SlotsServe
<1>16. QED
  BY <1>8, <1>9, <1>11, <1>12, <1>13, <1>14, <1>15 DEF DevInv

\* When the controller has no slot left, every slot has a device at a port, and
\* none of them is the port that asks for one.
LEMMA NoSlotLeft ==
  ASSUME IInv, DevInv, NothingFailed, FreeSlots = {},
         port_config_phase[addressing_port] = "kEnablingSlot",
         \A j \in DOMAIN events : events[j] \notin Completions("EnableSlot")
  PROVE  MaxSlots < MaxPorts
<1> DEFINE f == [s \in 1..MaxSlots |-> devices[s].in_port]
           rest == (1..MaxPorts) \ {addressing_port}
<1>1. addressing_port \in 1..MaxPorts
  BY Typed DEF Ports
<1>2. \A s \in 1..MaxSlots : s \in Slots /\ s \in slots
  BY DEF FreeSlots, Slots
<1>3. \A s \in 1..MaxSlots : devices[s].in_port \in 1..MaxPorts /\ devices[s].in_port # addressing_port
  <2>1. ASSUME NEW s \in 1..MaxSlots
        PROVE  devices[s].in_port # 0 /\ port_config_phase[devices[s].in_port] \in HasDevice
    BY <1>2 DEF DevInv, SlotsServe, PortsHaveDevices
  <2>2. QED
    BY <1>2, <2>1, Typed DEF HasDevice, Ports
<1>4. \A s, t \in 1..MaxSlots : devices[s].in_port = devices[t].in_port => s = t
  BY <1>2, <1>3 DEF DevInv, PortsHaveDevices
<1>5. f \in Injection(1..MaxSlots, rest)
  <2>1. f \in [1..MaxSlots -> rest]
    BY <1>3
  <2>2. \A s, t \in 1..MaxSlots : f[s] = f[t] => s = t
    BY <1>4
  <2> HIDE DEF f, rest
  <2>3. QED
    BY <2>1, <2>2 DEF Injection, IsInjective
<1> HIDE DEF f
<1>6. /\ IsFiniteSet(1..MaxPorts) /\ Cardinality(1..MaxPorts) = MaxPorts
      /\ Cardinality(1..MaxSlots) = MaxSlots
  <2>1. MaxPorts \in Nat \ {0} /\ MaxSlots \in Nat \ {0} /\ 1 \in Int
    OBVIOUS
  <2>2. QED
    BY <2>1, FS_Interval
<1>7. IsFiniteSet(rest) /\ Cardinality(rest) = MaxPorts - 1
  BY <1>1, <1>6, FS_RemoveElement
<1> HIDE DEF rest
<1>8. Cardinality(1..MaxSlots) <= Cardinality(rest)
  BY <1>5, <1>7, FS_Injection
<1>9. QED
  BY <1>6, <1>7, <1>8

\* What is spent on a failure makes one of it; the rest does not.
LEMMA Spent ==
  ASSUME IInv, NEW what \in {"plug", "unplug", "fail", "report"}, Spend(what)
  PROVE  /\ NothingFailed' => NothingFailed
         /\ what = "fail" => ~NothingFailed'
<1>1. /\ budget \in Budget /\ MaxFailures \in Nat
      /\ budget' = [budget EXCEPT ![what] = @ - 1]
  BY EnvironmentAssumption DEF IInv, TypeOK, ControllerTypeOK, Spend
<1>2. CASE what = "fail"
  BY <1>1, <1>2 DEF Budget, NothingFailed
<1>3. CASE what # "fail"
  BY <1>1, <1>3 DEF Budget, NothingFailed
<1>4. QED
  BY <1>2, <1>3

\* The command at the front of its ring is the only one of its kind under way.
LEMMA FrontOutstanding ==
  ASSUME IInv, DevInv, commands # <<>>
  PROVE  /\ Head(commands) \in Command
         /\ \E i \in DOMAIN commands : commands[i] = Head(commands)
         /\ Head(commands).type = "EnableSlot" =>
              /\ Head(commands).slot = 0
              /\ port_config_phase[addressing_port] = "kEnablingSlot"
              /\ \A j \in DOMAIN events : events[j] \notin Completions("EnableSlot")
         /\ Head(commands).type = "AddressDevice" =>
              /\ port_config_phase[addressing_port] = "kAddressingDevice"
              /\ devices[Head(commands).slot].in_port = addressing_port
<1>1. Head(commands) \in Command /\ \E i \in DOMAIN commands : commands[i] = Head(commands)
  <2>1. commands \in Seq(Command)
    BY DEF IInv, TypeOK, ControllerTypeOK
  <2>2. QED
    BY <2>1, TailEntries
<1>2. PICK i \in DOMAIN commands : commands[i] = Head(commands)
  BY <1>1
<1>3. {"EnableSlot", "AddressDevice"} \subseteq CommandType
  BY DEF CommandType
<1>4. ASSUME Head(commands).type = "EnableSlot"
      PROVE  /\ Head(commands).slot = 0
             /\ port_config_phase[addressing_port] = "kEnablingSlot"
             /\ \A j \in DOMAIN events : events[j] \notin Completions("EnableSlot")
  <2>1. commands[i] \in Commands("EnableSlot")
    BY <1>1, <1>2, <1>3, <1>4, PickedOut
  <2>2. QED
    BY <1>2, <1>4, <2>1 DEF DevInv, EnableSlotMatches, AtMostOne, Outstanding
<1>5. ASSUME Head(commands).type = "AddressDevice"
      PROVE  /\ port_config_phase[addressing_port] = "kAddressingDevice"
             /\ devices[Head(commands).slot].in_port = addressing_port
  <2>1. commands[i] \in Commands("AddressDevice")
    BY <1>1, <1>2, <1>3, <1>5, PickedOut
  <2>2. QED
    BY <1>2, <1>5, <2>1 DEF DevInv, AddressDeviceMatches, Outstanding
<1>6. QED
  BY <1>1, <1>4, <1>5

\* A command is executed, or fails.
LEMMA ExecuteStep ==
  ASSUME IInv, DevInv, IInv', UNCHANGED software, ExecuteCommand
  PROVE  DevInv'
<1>1. /\ devices \in [Slots -> Device] /\ slots \subseteq Slots \ {0} /\ 0 \in Slots
      /\ {"EnableSlot", "AddressDevice", "ConfigureEndpoint"} \subseteq CommandType
  BY Typed DEF CommandType
<1>2. CASE ExecuteEnableSlot
  <2>1. PICK s \in FreeSlots : slots' = slots \cup {s} /\ Complete("EnableSlot", s)
    BY <1>2 DEF ExecuteEnableSlot
  <2>2. s \in Slots /\ s # 0 /\ s \notin slots /\ UNCHANGED <<devices, budget>>
    BY <1>2 DEF ExecuteEnableSlot, FreeSlots
  <2>3. ~devices[s].allocated
    BY <2>2 DEF DevInv, SlotsInUse
  <2>4. NothingFailed' => NothingFailed
    BY <2>2 DEF NothingFailed
  <2>5. QED
    BY <1>1, <2>1, <2>2, <2>3, <2>4, CompletedStep
<1>3. CASE ExecuteAddressDevice
  <2>1. PICK s \in slots :
          /\ Complete("AddressDevice", s)
          /\ Head(commands).slot = s
          /\ devices' = [devices EXCEPT ![s].out_port = devices[s].in_port]
    BY <1>3 DEF ExecuteAddressDevice
  <2>2. s \in Slots /\ s # 0 /\ UNCHANGED <<slots, budget>>
    BY <1>1, <1>3 DEF ExecuteAddressDevice
  <2>3. /\ port_config_phase[addressing_port] = "kAddressingDevice"
        /\ devices[s].in_port = addressing_port
    BY <2>1, FrontOutstanding DEF Complete
  <2>4. \A t \in Slots :
          /\ devices'[t].allocated = devices[t].allocated
          /\ devices'[t].in_port = devices[t].in_port
          /\ devices'[t].init = devices[t].init
          /\ devices'[t].endpoints = devices[t].endpoints
          /\ devices'[t].out_port = IF t = s THEN devices[t].in_port ELSE devices[t].out_port
    <3>1. devices[s] \in Device
      BY <1>1, <2>2
    <3>2. /\ devices'[s] = [devices[s] EXCEPT !.out_port = devices[s].in_port]
          /\ \A t \in Slots : t # s => devices'[t] = devices[t]
      BY <1>1, <2>1, <2>2
    <3>3. QED
      BY <3>1, <3>2 DEF Device
  <2>5. NothingFailed' => NothingFailed
    BY <2>2 DEF NothingFailed
  <2>6. QED
    BY <1>1, <2>1, <2>2, <2>3, <2>4, <2>5, CompletedStep
<1>4. CASE ExecuteConfigureEndpoint
  <2>1. PICK s \in slots :
          /\ Complete("ConfigureEndpoint", s)
          /\ Head(commands).slot = s
          /\ devices' = [devices EXCEPT ![s].endpoints = TRUE]
    BY <1>4 DEF ExecuteConfigureEndpoint
  <2>2. s \in Slots /\ s # 0 /\ UNCHANGED <<slots, budget>>
    BY <1>1, <1>4 DEF ExecuteConfigureEndpoint
  <2>3. \A t \in Slots :
          /\ devices'[t].allocated = devices[t].allocated
          /\ devices'[t].in_port = devices[t].in_port
          /\ devices'[t].init = devices[t].init
          /\ devices'[t].out_port = devices[t].out_port
          /\ devices'[t].endpoints = IF t = s THEN TRUE ELSE devices[t].endpoints
    <3>1. devices[s] \in Device
      BY <1>1, <2>2
    <3>2. /\ devices'[s] = [devices[s] EXCEPT !.endpoints = TRUE]
          /\ \A t \in Slots : t # s => devices'[t] = devices[t]
      BY <1>1, <2>1, <2>2
    <3>3. QED
      BY <3>1, <3>2 DEF Device
  <2>4. NothingFailed' => NothingFailed
    BY <2>2 DEF NothingFailed
  <2>5. QED
    BY <1>1, <2>1, <2>2, <2>3, <2>4, CompletedStep
<1>5. CASE FailCommand
  <2>1. /\ commands # <<>>
        /\ Complete(Head(commands).type, Head(commands).slot)
        /\ \/ /\ \/ Head(commands).type = "EnableSlot" /\ FreeSlots = {}
                 \/ Head(commands).type = "AddressDevice" /\ ~Addressable(Head(commands).slot)
              /\ UNCHANGED budget
           \/ Spend("fail")
        /\ UNCHANGED <<devices, slots>>
    BY <1>5 DEF FailCommand
  <2>2. Head(commands).type \in CommandType /\ Head(commands).slot \in Slots
    BY <2>1, FrontOutstanding DEF Command
  <2>3. PICK type \in CommandType, slot \in Slots :
          type = Head(commands).type /\ slot = Head(commands).slot
    BY <2>2
  <2>4. Complete(type, slot)
    BY <2>1, <2>3
  <2>5. NothingFailed' => NothingFailed /\ UNCHANGED budget /\ type # "ConfigureEndpoint"
                          /\ (type = "EnableSlot" => FreeSlots = {})
    BY <2>1, <2>3, Spent DEF NothingFailed
  <2>6. ASSUME type = "EnableSlot" PROVE ~devices[slot].allocated /\ slot = 0
    <3>1. slot = 0 /\ port_config_phase[addressing_port] = "kEnablingSlot"
      BY <2>1, <2>3, <2>6, FrontOutstanding
    <3>2. QED
      BY <1>1, <3>1 DEF DevInv, SlotsInUse, PortsHaveDevices, HasDevice
  <2>7. type = "EnableSlot" => ~(NothingFailed' /\ MaxPorts <= MaxSlots)
    <3>1. SUFFICES ASSUME type = "EnableSlot", NothingFailed' PROVE MaxSlots < MaxPorts
      OBVIOUS
    <3>2. /\ port_config_phase[addressing_port] = "kEnablingSlot"
          /\ \A j \in DOMAIN events : events[j] \notin Completions("EnableSlot")
      BY <2>1, <2>3, <3>1, FrontOutstanding
    <3>3. QED
      BY <2>5, <3>1, <3>2, NoSlotLeft
  <2>8. QED
    BY <1>1, <2>1, <2>3, <2>4, <2>5, <2>6, <2>7, CompletedStep
<1>6. QED
  BY <1>2, <1>3, <1>4, <1>5 DEF ExecuteCommand

-----------------------------------------------------------------------------
(* The rest of the steps: nothing about the commands or the devices.       *)

\* A handler for something else than a command's completion, which pushes none.
LEMMA QuietHandler ==
  ASSUME IInv, DevInv, IInv', NEW type, type # "CommandCompletion", Handling(type),
         UNCHANGED <<commands, devices>>, PhasesQuiet
  PROVE  DevInv'
<1>1. QuietRings /\ UNCHANGED <<slots, budget>>
  BY DEF Handling, QuietRings
<1>2. DevicesKept
  BY DEF DevicesKept
<1>3. QED
  BY <1>1, <1>2, QuietStep DEF NothingFailed

\* ResetPort of a port that is not connected yet: it waits, or is reset.
LEMMA QuietReset ==
  ASSUME IInv, NEW p \in Ports,
         AfterReset(ResetPort(p, addressing_port, port_config_phase)),
         port_config_phase[p] = "kNotConnected"
  PROVE  PhasesQuiet
<1> DEFINE r == ResetPort(p, addressing_port, port_config_phase)
<1>1. port_config_phase \in [0..MaxPorts -> ConfigPhase] /\ addressing_port \in 0..MaxPorts
  BY Typed
<1>2. ResetPortOutcomes(r, p, addressing_port, port_config_phase)
  BY <1>1, ResetPortOutcome
<1>3. addressing_port' = r.owner /\ port_config_phase' = r.phase
  BY DEF AfterReset
<1> HIDE DEF r
<1>4. /\ addressing_port' = addressing_port \/ addressing_port = 0
      /\ \/ port_config_phase' = port_config_phase
         \/ port_config_phase' = [port_config_phase EXCEPT ![p] = "kWaitingAddressed"]
         \/ port_config_phase' = [port_config_phase EXCEPT ![p] = "kResettingPort"]
  BY <1>2, <1>3 DEF ResetPortOutcomes
<1>5. QED
  BY <1>1, <1>4, Typed DEF PhasesQuiet, Early

\* A turn of the boot loop.
LEMMA BootStep ==
  ASSUME IInv, DevInv, IInv', ConfigurePort
  PROVE  DevInv'
<1>1. PhasesQuiet
  <2>1. CASE portsc[boot].ccs /\ port_config_phase[boot] = "kNotConnected"
    <3>1. boot \in Ports
      BY DEF ConfigurePort, IInv, TypeOK, Ports
    <3>2. AfterReset(ResetPort(boot, addressing_port, port_config_phase))
      BY <2>1 DEF ConfigurePort
    <3>3. QED
      BY <2>1, <3>1, <3>2, QuietReset
  <2>2. CASE ~(portsc[boot].ccs /\ port_config_phase[boot] = "kNotConnected")
    BY <2>2 DEF ConfigurePort, PhasesQuiet
  <2>3. QED
    BY <2>1, <2>2
<1>2. QuietRings /\ DevicesKept /\ UNCHANGED slots /\ (NothingFailed' => NothingFailed)
  BY DEF ConfigurePort, QuietRings, DevicesKept, NothingFailed
<1>3. QED
  BY <1>1, <1>2, QuietStep

\* A port change.
LEMMA PortChangeStep ==
  ASSUME IInv, DevInv, IInv', OnPortStatusChange
  PROVE  DevInv'
<1>a. Handling("PortStatusChange") /\ Head(events).port \in Ports
  BY PoppedEvents, EventFields DEF OnPortStatusChange, Handling
<1>1. PICK p \in Ports : p = Head(events).port
  BY <1>a
<1>2. \/ /\ port_config_phase[p] = "kNotConnected"
         /\ AfterReset(ResetPort(p, addressing_port, port_config_phase))
         /\ UNCHANGED <<devices, commands>>
      \/ /\ port_config_phase[p] = "kResettingPort"
         /\ EnableSlot(p)
         /\ UNCHANGED <<addressing_port, devices>>
      \/ Ignored
  BY <1>1 DEF OnPortStatusChange
<1>3. CASE /\ port_config_phase[p] = "kNotConnected"
           /\ AfterReset(ResetPort(p, addressing_port, port_config_phase))
           /\ UNCHANGED <<devices, commands>>
  BY <1>a, <1>3, QuietReset, QuietHandler
<1>4. CASE /\ port_config_phase[p] = "kResettingPort"
           /\ EnableSlot(p)
           /\ UNCHANGED <<addressing_port, devices>>
  <2>1. CASE portsc[p].ped /\ portsc[p].prc
    BY <1>a, <1>4, <2>1, EnableSlotStep DEF EnableSlot
  <2>2. CASE ~(portsc[p].ped /\ portsc[p].prc)
    BY <1>a, <1>4, <2>2, QuietHandler DEF EnableSlot, PhasesQuiet
  <2>3. QED
    BY <2>1, <2>2
<1>5. CASE Ignored
  BY <1>a, <1>5, QuietHandler DEF Ignored, PhasesQuiet
<1>6. QED
  BY <1>2, <1>3, <1>4, <1>5

\* What the controller and the user do besides: it posts an event at most, and
\* ends a transfer.
LEMMA EnvironmentStep ==
  ASSUME IInv, DevInv, IInv', UNCHANGED software, UNCHANGED <<commands, slots>>,
         UNCHANGED events \/ (\E e \in Event : e.type # "CommandCompletion" /\ Post(e)),
         UNCHANGED devices
           \/ (\E s \in Slots : devices' = [devices EXCEPT ![s].transfer = FALSE]),
         NothingFailed' => NothingFailed
  PROVE  DevInv'
<1>1. PhasesQuiet
  BY DEF software, PhasesQuiet
<1>2. DevicesKept
  BY TransferToggled DEF DevicesKept
<1>3. QuietRings
  BY DEF QuietRings
<1>4. QED
  BY <1>1, <1>2, <1>3, QuietStep

\* A step of the environment keeps the invariant.
LEMMA ControllerKeeps ==
  ASSUME IInv, DevInv, IInv', UNCHANGED software, ControllerNext
  PROVE  DevInv'
<1>1. CASE ExecuteCommand
  BY <1>1, ExecuteStep
<1>2. CASE \E p \in Ports : Plug(p) \/ Unplug(p)
  <2>1. PICK p \in Ports : Plug(p) \/ Unplug(p)
    BY <1>2
  <2>2. NothingFailed' => NothingFailed
    BY <2>1, Spent DEF Plug, Unplug
  <2>3. UNCHANGED <<commands, slots, events, devices>>
    BY <2>1 DEF Plug, Unplug, SetConnection
  <2>4. QED
    BY <2>2, <2>3, EnvironmentStep
<1>3. CASE \E p \in Ports : ReportPortChange(p)
  <2>1. PICK p \in Ports : ReportPortChange(p)
    BY <1>3
  <2> DEFINE e == [type |-> "PortStatusChange", port |-> p]
  <2>2. e \in Event /\ e.type # "CommandCompletion"
    BY DEF Event, PortStatusChange
  <2> HIDE DEF e
  <2>3. Post(e) /\ UNCHANGED <<commands, slots, devices, budget>>
    BY <2>1 DEF ReportPortChange, e
  <2>4. QED
    BY <2>2, <2>3, EnvironmentStep DEF NothingFailed
<1>4. CASE \E s \in Slots : CompleteTransfer(s) \/ Report(s)
  <2>1. PICK s \in Slots : CompleteTransfer(s) \/ Report(s)
    BY <1>4
  <2>2. Enabled(devices[s].out_port) \in BOOLEAN
    BY DEF IInv, TypeOK, ControllerTypeOK, PortStatus, Enabled
  <2>3. PICK ok \in BOOLEAN : TransferEnds(s, ok)
    BY <2>1, <2>2, Zenon DEF CompleteTransfer, Report
  <2> DEFINE e == [type |-> "Transfer", slot |-> s, ok |-> ok]
  <2>4. e \in Event /\ e.type # "CommandCompletion"
    BY DEF Event, Transfer
  <2> HIDE DEF e
  <2>5. /\ Post(e) /\ UNCHANGED <<commands, slots>>
        /\ devices' = [devices EXCEPT ![s].transfer = FALSE]
    BY <2>3 DEF TransferEnds, e
  <2>6. UNCHANGED budget \/ Spend("fail") \/ Spend("report")
    BY <2>1 DEF CompleteTransfer, Report
  <2>7. NothingFailed' => NothingFailed
    BY <2>6, Spent DEF NothingFailed
  <2>8. QED
    BY <2>4, <2>5, <2>7, EnvironmentStep
<1>5. QED
  BY <1>1, <1>2, <1>3, <1>4 DEF ControllerNext

-----------------------------------------------------------------------------
(* The second invariant holds throughout.                                  *)

\* With nothing outstanding and no device, all of it holds.
LEMMA InitDevInv == Init => DevInv
<1> SUFFICES ASSUME Init PROVE DevInv
  OBVIOUS
<1>1. /\ commands = <<>> /\ events = <<>> /\ slots = {} /\ addressing_port = 0
      /\ devices = [s \in Slots |-> Blank]
      /\ port_config_phase = [p \in 0..MaxPorts |-> "kNotConnected"]
      /\ 0 \in Slots /\ 0 \in 0..MaxPorts /\ Ports \subseteq 0..MaxPorts
  BY DEF Init, ControllerInit, Slots, Ports
<1>2. \A s \in Slots : /\ devices[s].in_port = 0 /\ devices[s].out_port = 0
                       /\ devices[s].allocated = FALSE
  BY <1>1 DEF Blank
<1>3. DOMAIN commands = {} /\ DOMAIN events = {}
  BY <1>1
<1>4. \A C : \A E : AtMostOne(C, E) /\ ~Outstanding(C, E)
  BY <1>3 DEF AtMostOne, Outstanding
<1>5. \A p \in 0..MaxPorts : port_config_phase[p] = "kNotConnected"
  BY <1>1
<1>6. PortsHaveDevices /\ SlotsInUse
  BY <1>1, <1>2, <1>5 DEF PortsHaveDevices, SlotsInUse, HasDevice, HasAddress
<1>7. EnableSlotMatches /\ AddressDeviceMatches /\ ConfigureEndpointMatches
  BY <1>1, <1>2, <1>3, <1>4, <1>5
  DEF EnableSlotMatches, AddressDeviceMatches, ConfigureEndpointMatches
<1>8. Progress /\ SlotsServe
  BY <1>1, <1>2, <1>3, <1>5 DEF Progress, SlotsServe
<1>9. QED
  BY <1>6, <1>7, <1>8 DEF DevInv

\* Every step keeps it.
LEMMA NextDevInv == IInv /\ DevInv /\ [Next]_vars => DevInv'
<1> SUFFICES ASSUME IInv, DevInv, [Next]_vars PROVE DevInv'
  OBVIOUS
<1>1. IInv'
  BY NextIInv
<1>2. CASE ConfigurePort
  BY <1>1, <1>2, BootStep
<1>3. CASE OnPortStatusChange
  BY <1>1, <1>3, PortChangeStep
<1>4. CASE OnTransfer
  BY <1>1, <1>4, TransferStep
<1>5. CASE OnEnableSlotCompleted
  BY <1>5, AddressDeviceStep
<1>6. CASE OnAddressDeviceCompleted
  BY <1>6, AddressedStep
<1>7. CASE OnConfigureEndpointCompleted
  BY <1>1, <1>7, ConfiguredStep
<1>8. CASE ControllerNext /\ UNCHANGED software
  BY <1>1, <1>8, ControllerKeeps
<1>9. CASE UNCHANGED vars
  <2>1. QuietRings /\ PhasesQuiet /\ DevicesKept /\ UNCHANGED slots /\ (NothingFailed' => NothingFailed)
    BY <1>9 DEF vars, hardware, software, QuietRings, PhasesQuiet, DevicesKept, NothingFailed
  <2>2. QED
    BY <1>1, <2>1, QuietStep
<1>10. QED
  BY <1>2, <1>3, <1>4, <1>5, <1>6, <1>7, <1>8, <1>9 DEF Next, ProcessEvent

\* Both invariants, for the theorems about devices.
LEMMA DeviceInvariance == Spec => [](IInv /\ DevInv)
<1>1. IInv /\ DevInv /\ [Next]_vars => (IInv /\ DevInv)'
  BY NextIInv, NextDevInv
<1>2. Init => IInv /\ DevInv
  BY InitIInv, InitDevInv
<1>3. QED
  BY <1>1, <1>2, PTL DEF Spec

-----------------------------------------------------------------------------
(* What the second invariant says of the properties.                       *)

\* From AddressDevice on a port has one device, and no other port's.
THEOREM PortsHaveOneDevice == Spec => []OneDevicePerPort
<1>1. ASSUME IInv, DevInv PROVE OneDevicePerPort
  <2>1. \A s \in Slots : devices[s].out_port \in {0, devices[s].in_port}
    BY <1>1 DEF DevInv, PortsHaveDevices
  <2>2. ASSUME NEW p \in Ports
        PROVE  Cardinality({s \in Slots : devices[s].in_port = p}) =
                 IF port_config_phase[p] \in {"kAddressingDevice", "kInitializingDevice",
                                             "kConfiguringEndpoints", "kConfigured"}
                   THEN 1 ELSE 0
    <3>1. CASE port_config_phase[p] \in HasDevice
      <4>1. PICK s \in Slots : devices[s].in_port = p
        BY <1>1, <3>1 DEF DevInv, PortsHaveDevices
      <4>2. p # 0
        BY DEF Ports
      <4>3. {t \in Slots : devices[t].in_port = p} = {s}
        BY <1>1, <4>1, <4>2 DEF DevInv, PortsHaveDevices
      <4>4. QED
        BY <3>1, <4>3, FS_Singleton DEF HasDevice
    <3>2. CASE port_config_phase[p] \notin HasDevice
      <4>1. {t \in Slots : devices[t].in_port = p} = {}
        BY <1>1, <3>2 DEF DevInv, PortsHaveDevices, Ports
      <4>2. QED
        BY <3>2, <4>1, FS_EmptySet DEF HasDevice
    <3>3. QED
      BY <3>1, <3>2
  <2>3. QED
    BY <2>1, <2>2 DEF OneDevicePerPort
<1>2. QED
  BY <1>1, DeviceInvariance, PTL

\* Without a failure a configured port has a device that went through all of its
\* initialization, with its endpoints configured.
THEOREM ConfiguredIsReady == Spec => []ConfiguredMeansReady
<1>1. ASSUME IInv, DevInv PROVE ConfiguredMeansReady
  <2>1. SUFFICES ASSUME NothingFailed, NEW p \in Ports, port_config_phase[p] = "kConfigured"
                 PROVE  \E s \in Slots \ {0} : /\ devices[s].out_port = p
                                              /\ devices[s].init = 4
                                              /\ devices[s].endpoints
    BY DEF ConfiguredMeansReady
  <2>2. PICK s \in Slots : devices[s].in_port = p
    BY <1>1, <2>1 DEF DevInv, PortsHaveDevices, HasDevice
  <2>3. devices[s].out_port = p /\ p # 0
    BY <1>1, <2>1, <2>2 DEF DevInv, PortsHaveDevices, HasAddress, HasDevice, Ports
  <2>4. s # 0
    BY <1>1, <2>3 DEF DevInv, SlotsInUse
  <2>5. QED
    BY <1>1, <2>1, <2>3, <2>4 DEF DevInv, Progress
<1>2. QED
  BY <1>1, DeviceInvariance, PTL

\* With as many slots as ports and no failure, no device is ever given slot 0,
\* whose entry holds the scratchpad array.
THEOREM ScratchpadIsKept == Spec => []ScratchpadKept
<1>1. ASSUME DevInv PROVE ScratchpadKept
  BY <1>1 DEF DevInv, SlotsServe, ScratchpadKept
<1>2. QED
  BY <1>1, DeviceInvariance, PTL

\* The commands C and completions E on the rings, as InFlight counts them.
Items(C, E) ==
  {<<"command", i>> : i \in {j \in DOMAIN commands : commands[j] \in C}}
  \cup {<<"event", i>> : i \in {j \in DOMAIN events : events[j] \in E}}

\* There are as many of them as are outstanding.
LEMMA CountItems ==
  ASSUME NEW C, NEW E, AtMostOne(C, E)
  PROVE  /\ Cardinality(Items(C, E)) = IF Outstanding(C, E) THEN 1 ELSE 0
         /\ Items(C, E) # {} <=> Outstanding(C, E)
<1>1. CASE \E i \in DOMAIN commands : commands[i] \in C
  <2>1. PICK i \in DOMAIN commands : commands[i] \in C
    BY <1>1
  <2>2. {j \in DOMAIN commands : commands[j] \in C} = {i} /\ {j \in DOMAIN events : events[j] \in E} = {}
    BY <2>1 DEF AtMostOne
  <2>3. Items(C, E) = {<<"command", i>>}
    BY <2>2 DEF Items
  <2>4. QED
    BY <1>1, <2>3, FS_Singleton DEF Outstanding
<1>2. CASE \E i \in DOMAIN events : events[i] \in E
  <2>1. PICK i \in DOMAIN events : events[i] \in E
    BY <1>2
  <2>2. {j \in DOMAIN events : events[j] \in E} = {i} /\ {j \in DOMAIN commands : commands[j] \in C} = {}
    BY <2>1 DEF AtMostOne
  <2>3. Items(C, E) = {<<"event", i>>}
    BY <2>2 DEF Items
  <2>4. QED
    BY <1>2, <2>3, FS_Singleton DEF Outstanding
<1>3. CASE ~Outstanding(C, E)
  <2>1. Items(C, E) = {}
    BY <1>3 DEF Outstanding, Items
  <2>2. QED
    BY <1>3, <2>1, FS_EmptySet
<1>4. QED
  BY <1>1, <1>2, <1>3 DEF Outstanding

\* What InFlight picks out.
LEMMA InFlightItems ==
  ASSUME IInv
  PROVE  /\ \A type \in CommandType : InFlightAny(type) = Items(Commands(type), Completions(type))
         /\ \A s \in Slots : InFlight("ConfigureEndpoint", s) = Items(CommandFor(s), CompletionFor(s))
<1>1. ASSUME NEW type \in CommandType
      PROVE  InFlightAny(type) = Items(Commands(type), Completions(type))
  <2>1. ASSUME NEW x, x \in InFlightAny(type)
        PROVE  x \in Items(Commands(type), Completions(type))
    <3>1. PICK s \in Slots : x \in InFlight(type, s)
      BY <2>1 DEF InFlightAny
    <3>2. /\ [type |-> type, slot |-> s] \in Commands(type)
          /\ [type |-> "CommandCompletion", issuer |-> type, slot |-> s] \in Completions(type)
      BY Kinds
    <3>3. QED
      BY <3>1, <3>2 DEF InFlight, Items
  <2>2. ASSUME NEW x, x \in Items(Commands(type), Completions(type))
        PROVE  x \in InFlightAny(type)
    <3>1. CASE \E i \in DOMAIN commands : commands[i] \in Commands(type) /\ x = <<"command", i>>
      <4>1. PICK i \in DOMAIN commands : commands[i] \in Commands(type) /\ x = <<"command", i>>
        BY <3>1
      <4>2. PICK s \in Slots : commands[i] = [type |-> type, slot |-> s]
        BY <4>1 DEF Commands
      <4>3. x \in InFlight(type, s)
        BY <4>1, <4>2 DEF InFlight
      <4>4. QED
        BY <4>3 DEF InFlightAny
    <3>2. CASE \E i \in DOMAIN events : events[i] \in Completions(type) /\ x = <<"event", i>>
      <4>1. PICK i \in DOMAIN events : events[i] \in Completions(type) /\ x = <<"event", i>>
        BY <3>2
      <4>2. PICK s \in Slots :
              events[i] = [type |-> "CommandCompletion", issuer |-> type, slot |-> s]
        BY <4>1 DEF Completions
      <4>3. x \in InFlight(type, s)
        BY <4>1, <4>2 DEF InFlight
      <4>4. QED
        BY <4>3 DEF InFlightAny
    <3>3. QED
      BY <2>2, <3>1, <3>2 DEF Items
  <2>3. QED
    BY <2>1, <2>2
<1>2. ASSUME NEW s \in Slots
      PROVE  InFlight("ConfigureEndpoint", s) = Items(CommandFor(s), CompletionFor(s))
  BY DEF InFlight, Items, CommandFor, CompletionFor
<1>3. QED
  BY <1>1, <1>2

\* The commands on the ring are for different slots, but for one that is about
\* the port being addressed.
LEMMA RingBounded ==
  ASSUME IInv, DevInv
  PROVE  Len(commands) <= MaxSlots + 1
<1> DEFINE f == [i \in 1..Len(commands) |->
                   IF commands[i].type = "ConfigureEndpoint" THEN commands[i].slot ELSE 0]
<1>1. /\ Len(commands) \in Nat /\ DOMAIN commands = 1..Len(commands)
      /\ \A i \in DOMAIN commands : commands[i] \in Command
  BY DEF IInv, TypeOK, ControllerTypeOK
<1>2. CommandType = {"EnableSlot", "AddressDevice", "ConfigureEndpoint"}
  BY DEF CommandType
<1>3. \A i \in DOMAIN commands : /\ commands[i].type \in CommandType /\ commands[i].slot \in 0..MaxSlots
                                 /\ commands[i].slot \in Slots
  BY <1>1 DEF Command, Slots
<1>4. f \in [1..Len(commands) -> 0..MaxSlots]
  BY <1>1, <1>3
<1>5. \A i \in DOMAIN commands : commands[i].type = "ConfigureEndpoint" => commands[i].slot # 0
  <2>1. ASSUME NEW i \in DOMAIN commands, commands[i].type = "ConfigureEndpoint", commands[i].slot = 0
        PROVE  FALSE
    <3>1. Outstanding(CommandFor(0), CompletionFor(0))
      BY <2>1, OnRing
    <3>2. QED
      BY <3>1, Typed DEF DevInv, ConfigureEndpointMatches, SlotsInUse
  <2>2. QED
    BY <2>1
<1>6. ASSUME NEW i \in DOMAIN commands, NEW j \in DOMAIN commands,
             commands[i].type = "ConfigureEndpoint", commands[j].type = "ConfigureEndpoint",
             commands[i].slot = commands[j].slot
      PROVE  i = j
  <2>1. commands[i].slot \in Slots
    BY <1>3
  <2>2. commands[i] \in CommandFor(commands[i].slot) /\ commands[j] \in CommandFor(commands[i].slot)
    BY <1>1, <1>6, <2>1, PickedOut
  <2>3. AtMostOne(CommandFor(commands[i].slot), CompletionFor(commands[i].slot))
    BY <2>1 DEF DevInv, ConfigureEndpointMatches
  <2>4. QED
    BY <2>2, <2>3 DEF AtMostOne
<1>7. ASSUME NEW i \in DOMAIN commands, NEW j \in DOMAIN commands,
             commands[i].type # "ConfigureEndpoint", commands[j].type # "ConfigureEndpoint"
      PROVE  i = j
  <2>1. /\ Outstanding(Commands(commands[i].type), Completions(commands[i].type))
        /\ Outstanding(Commands(commands[j].type), Completions(commands[j].type))
    BY <1>3, OnRing
  <2>2. commands[i].type = commands[j].type
    BY <1>2, <1>3, <1>7, <2>1 DEF DevInv, EnableSlotMatches, AddressDeviceMatches
  <2>3. AtMostOne(Commands(commands[i].type), Completions(commands[i].type))
    BY <1>2, <1>3, <1>7 DEF DevInv, EnableSlotMatches, AddressDeviceMatches
  <2>4. commands[i] \in Commands(commands[i].type) /\ commands[j] \in Commands(commands[i].type)
    BY <1>1, <1>3, <2>2, PickedOut
  <2>5. QED
    BY <2>3, <2>4 DEF AtMostOne
<1>8. \A i, j \in 1..Len(commands) : f[i] = f[j] => i = j
  BY <1>1, <1>5, <1>6, <1>7
<1> HIDE DEF f
<1>9. f \in Injection(1..Len(commands), 0..MaxSlots)
  BY <1>4, <1>8 DEF Injection, IsInjective
<1>10. /\ IsFiniteSet(0..MaxSlots) /\ Cardinality(0..MaxSlots) = MaxSlots + 1
       /\ Cardinality(1..Len(commands)) = Len(commands)
  <2>1. MaxSlots \in Int /\ 0 \in Int /\ 1 \in Int /\ Len(commands) \in Int
    BY <1>1
  <2>2. /\ IsFiniteSet(0..MaxSlots)
        /\ Cardinality(0..MaxSlots) = IF 0 > MaxSlots THEN 0 ELSE MaxSlots - 0 + 1
    BY <2>1, FS_Interval
  <2>3. Cardinality(1..Len(commands)) = IF 1 > Len(commands) THEN 0 ELSE Len(commands) - 1 + 1
    BY <2>1, FS_Interval
  <2>4. QED
    BY <1>1, <2>2, <2>3
<1>11. QED
  BY <1>9, <1>10, FS_Injection

\* The commands under way are those that the phases call for, one each, and the
\* command ring holds no more than one per slot and one for the addressing.
THEOREM CommandsMatch == Spec => []CommandsMatchPhases
<1>1. ASSUME IInv, DevInv PROVE CommandsMatchPhases
  <2>1. {"EnableSlot", "AddressDevice", "ConfigureEndpoint"} \subseteq CommandType
    BY DEF CommandType
  <2>2. Cardinality(InFlightAny("EnableSlot")) =
          IF \E p \in Ports : port_config_phase[p] = "kEnablingSlot" THEN 1 ELSE 0
    <3>1. (\E p \in Ports : port_config_phase[p] = "kEnablingSlot")
            <=> port_config_phase[addressing_port] = "kEnablingSlot"
      BY <1>1, Typed DEF AddressingPhases
    <3>2. QED
      BY <1>1, <2>1, <3>1, InFlightItems, CountItems DEF DevInv, EnableSlotMatches
  <2>3. ASSUME InFlightAny("AddressDevice") # {}
        PROVE  /\ port_config_phase[addressing_port] = "kAddressingDevice"
               /\ Cardinality(InFlightAny("AddressDevice")) = 1
    BY <1>1, <2>1, <2>3, InFlightItems, CountItems DEF DevInv, AddressDeviceMatches
  <2>4. ASSUME NEW s \in Slots
        PROVE  Cardinality(InFlight("ConfigureEndpoint", s)) =
                 IF port_config_phase[devices[s].out_port] = "kConfiguringEndpoints" THEN 1 ELSE 0
    BY <1>1, InFlightItems, CountItems DEF DevInv, ConfigureEndpointMatches
  <2>5. QED
    BY <1>1, <2>2, <2>3, <2>4, RingBounded DEF CommandsMatchPhases
<1>2. QED
  BY <1>1, DeviceInvariance, PTL

-----------------------------------------------------------------------------
(* The sequencer that the driver implements, when no device is pulled out. *)

\* A port that waits is still connected.
WaitingConnected ==
  \A p \in Ports : port_config_phase[p] = "kWaitingAddressed" => portsc[p].ccs

\* As long as no step of the kind that pulls a device out can be taken, no port
\* is ever disconnected.
LEMMA StaysConnected ==
  ASSUME MaxUnplugs = 0, IInv, [Next]_vars
  PROVE  \A p \in Ports : portsc[p].ccs => portsc'[p].ccs
<1>1. portsc \in [Ports -> PortStatus]
  BY DEF IInv, TypeOK, ControllerTypeOK
<1>2. ASSUME NEW q \in 0..MaxPorts, Reset(q)
      PROVE  \A p \in Ports : portsc[p].ccs => portsc'[p].ccs
  <2>1. CASE q = 0
    BY <1>2, <2>1 DEF Reset
  <2>2. CASE q # 0
    <3>1. q \in Ports
      BY <2>2, Typed
    <3>2. \A p \in Ports : portsc'[p] = IF p = q
            THEN [portsc[p] EXCEPT !.csc = FALSE, !.prc = TRUE, !.ped = TRUE, !.pending = TRUE]
            ELSE portsc[p]
      BY <1>1, <1>2, <2>2, <3>1 DEF Reset
    <3>3. \A p \in Ports : portsc[p] \in PortStatus
      BY <1>1
    <3>4. QED
      BY <3>2, <3>3 DEF PortStatus
  <2>3. QED
    BY <2>1, <2>2
<1>3. ASSUME NEW p \in Ports, AfterReset(ResetPort(p, addressing_port, port_config_phase))
      PROVE  \A q \in Ports : portsc[q].ccs => portsc'[q].ccs
  <2>1. ResetPort(p, addressing_port, port_config_phase) \in Outcome
    BY Typed, ResetPortOutcome DEF ResetPortOutcomes
  <2>2. PICK q \in 0..MaxPorts : Reset(q)
    BY <1>3, <2>1 DEF AfterReset, Outcome
  <2>3. QED
    BY <1>2, <2>2
<1>4. CASE ConfigurePort
  <2>1. boot \in Ports
    BY <1>4 DEF ConfigurePort, IInv, TypeOK, Ports
  <2>2. UNCHANGED portsc \/ AfterReset(ResetPort(boot, addressing_port, port_config_phase))
    BY <1>4 DEF ConfigurePort
  <2>3. QED
    BY <1>3, <2>1, <2>2
<1>5. CASE OnPortStatusChange
  <2>1. Head(events).port \in Ports
    BY <1>5, PoppedEvents, EventFields DEF OnPortStatusChange, Handling
  <2>2. PICK p \in Ports : p = Head(events).port
    BY <2>1
  <2>3. \/ AfterReset(ResetPort(p, addressing_port, port_config_phase))
        \/ EnableSlot(p)
        \/ UNCHANGED portsc
    BY <1>5, <2>2 DEF OnPortStatusChange, Ignored
  <2>4. CASE EnableSlot(p)
    <3>1. UNCHANGED portsc \/ portsc' = [portsc EXCEPT ![p].prc = FALSE]
      BY <2>4 DEF EnableSlot
    <3>2. CASE portsc' = [portsc EXCEPT ![p].prc = FALSE]
      <4>1. \A q \in Ports : portsc'[q] = IF q = p THEN [portsc[p] EXCEPT !.prc = FALSE] ELSE portsc[q]
        BY <1>1, <3>2
      <4>2. portsc[p] \in PortStatus
        BY <1>1
      <4>3. QED
        BY <4>1, <4>2 DEF PortStatus
    <3>3. QED
      BY <3>1, <3>2
  <2>5. QED
    BY <1>3, <2>3, <2>4
<1>6. CASE OnAddressDeviceCompleted
  <2> DEFINE slot == Head(events).slot
             p == devices[slot].out_port
  <2>1. \/ UNCHANGED portsc
        \/ \E r \in ResetNextWaiting :
             AfterReset([r EXCEPT !.phase[p] = "kInitializingDevice"]) \/ AfterReset(r)
    BY <1>6 DEF OnAddressDeviceCompleted, Ignored
  <2> HIDE DEF slot, p
  <2>2. CASE \E r \in ResetNextWaiting :
               AfterReset([r EXCEPT !.phase[p] = "kInitializingDevice"]) \/ AfterReset(r)
    <3>1. PICK r \in ResetNextWaiting :
            AfterReset([r EXCEPT !.phase[p] = "kInitializingDevice"]) \/ AfterReset(r)
      BY <2>2
    <3>2. r \in Outcome
      BY NextWaitingOutcome
    <3>3. Reset(r.reset) /\ r.reset \in 0..MaxPorts
      BY <3>1, <3>2 DEF AfterReset, Outcome
    <3>4. QED
      BY <1>2, <3>3
  <2>3. QED
    BY <2>1, <2>2
<1>7. CASE OnTransfer \/ OnEnableSlotCompleted \/ OnConfigureEndpointCompleted
  BY <1>7 DEF OnTransfer, OnEnableSlotCompleted, OnConfigureEndpointCompleted, Ignored
<1>8. CASE ControllerNext
  <2>1. CASE ExecuteCommand
    <3>1. UNCHANGED portsc
      BY <2>1 DEF ExecuteCommand, ExecuteEnableSlot, ExecuteAddressDevice,
                  ExecuteConfigureEndpoint, FailCommand, Complete
    <3>2. QED
      BY <3>1
  <2>2. CASE \E p \in Ports : Plug(p) \/ Unplug(p)
    <3>1. PICK p \in Ports : SetConnection(p, TRUE)
      <4>1. PICK p \in Ports : Plug(p) \/ Unplug(p)
        BY <2>2
      <4>2. ~Unplug(p)
        <5>1. budget["unplug"] \in 0..0
          BY DEF IInv, TypeOK, ControllerTypeOK, Budget
        <5>2. ~Spend("unplug")
          BY <5>1 DEF Spend
        <5>3. QED
          BY <5>2 DEF Unplug
      <4>3. QED
        BY <4>1, <4>2 DEF Plug
    <3>2. portsc[p] \in PortStatus
      BY <1>1
    <3>3. /\ \A q \in Ports : q # p => portsc'[q] = portsc[q]
          /\ portsc'[p].ccs
      BY <1>1, <3>1, <3>2 DEF SetConnection, PortStatus
    <3>4. QED
      BY <3>3
  <2>3. CASE \E p \in Ports : ReportPortChange(p)
    <3>1. PICK p \in Ports : portsc' = [portsc EXCEPT ![p].pending = FALSE]
      BY <2>3 DEF ReportPortChange
    <3>2. portsc[p] \in PortStatus
      BY <1>1
    <3>3. \A q \in Ports : portsc'[q] = IF q = p THEN [portsc[p] EXCEPT !.pending = FALSE] ELSE portsc[q]
      BY <1>1, <3>1
    <3>4. QED
      BY <3>2, <3>3 DEF PortStatus
  <2>4. CASE \E s \in Slots : CompleteTransfer(s) \/ Report(s)
    BY <2>4 DEF CompleteTransfer, Report, TransferEnds
  <2>5. QED
    BY <1>8, <2>1, <2>2, <2>3, <2>4 DEF ControllerNext
<1>9. CASE UNCHANGED vars
  BY <1>9 DEF vars, hardware
<1>10. QED
  BY <1>4, <1>5, <1>6, <1>7, <1>8, <1>9 DEF Next, ProcessEvent

\* ResetPort of a connected port does not leave it where it is.
LEMMA ResetPortConnected ==
  ASSUME IInv, NEW p \in Ports, portsc[p].ccs, NEW owner \in 0..MaxPorts,
         port_config_phase[p] \in {"kNotConnected", "kWaitingAddressed"}
  PROVE  /\ owner # 0 =>
              /\ ResetPort(p, owner, port_config_phase).owner = owner
              /\ ResetPort(p, owner, port_config_phase).phase =
                   [port_config_phase EXCEPT ![p] = "kWaitingAddressed"]
         /\ owner = 0 =>
              /\ ResetPort(p, owner, port_config_phase).owner = p
              /\ ResetPort(p, owner, port_config_phase).phase =
                   [port_config_phase EXCEPT ![p] = "kResettingPort"]
BY DEF ResetPort

\* Ports that wait stay connected.
LEMMA WaitingStaysConnected ==
  ASSUME MaxUnplugs = 0, IInv, WaitingConnected, [Next]_vars
  PROVE  WaitingConnected'
<1>1. ASSUME NEW p \in Ports, port_config_phase'[p] = "kWaitingAddressed"
      PROVE  portsc[p].ccs
  <2>1. CASE port_config_phase[p] = "kWaitingAddressed"
    BY <2>1 DEF WaitingConnected
  <2>2. CASE port_config_phase[p] # "kWaitingAddressed"
    <3>1. ASSUME NEW q \in Ports, port_config_phase[q] = "kNotConnected",
                 AfterReset(ResetPort(q, addressing_port, port_config_phase))
          PROVE  portsc[p].ccs
      <4>1. port_config_phase' = ResetPort(q, addressing_port, port_config_phase).phase
        BY <3>1 DEF AfterReset
      <4>2. CASE portsc[q].ccs
        <5>1. \/ port_config_phase' = [port_config_phase EXCEPT ![q] = "kWaitingAddressed"]
              \/ port_config_phase' = [port_config_phase EXCEPT ![q] = "kResettingPort"]
          BY <3>1, <4>1, <4>2, Typed, ResetPortConnected
        <5>2. p = q
          BY <1>1, <2>2, <5>1, Typed
        <5>3. QED
          BY <4>2, <5>2
      <4>3. CASE ~portsc[q].ccs
        BY <1>1, <2>2, <4>1, <4>3 DEF ResetPort
      <4>4. QED
        BY <4>2, <4>3
    <3>2. CASE ConfigurePort
      <4>1. boot \in Ports
        BY <3>2 DEF ConfigurePort, IInv, TypeOK, Ports
      <4>2. QED
        BY <1>1, <2>2, <3>1, <3>2, <4>1 DEF ConfigurePort
    <3>3. CASE OnPortStatusChange
      <4>1. Head(events).port \in Ports
        BY <3>3, PoppedEvents, EventFields DEF OnPortStatusChange, Handling
      <4>2. PICK q \in Ports : q = Head(events).port
        BY <4>1
      <4>3. \/ /\ port_config_phase[q] = "kNotConnected"
               /\ AfterReset(ResetPort(q, addressing_port, port_config_phase))
            \/ UNCHANGED port_config_phase
            \/ SetPhase(q, "kEnablingSlot")
        BY <3>3, <4>2 DEF OnPortStatusChange, Ignored, EnableSlot
      <4>4. QED
        BY <1>1, <2>2, <3>1, <4>3, Typed DEF SetPhase
    <3>4. CASE OnAddressDeviceCompleted
      <4> DEFINE slot == Head(events).slot
                 q == devices[slot].out_port
      <4>1. \/ UNCHANGED port_config_phase
            \/ \E r \in ResetNextWaiting :
                 /\ r.ok => AfterReset([r EXCEPT !.phase[q] = "kInitializingDevice"])
                 /\ ~r.ok => AfterReset(r)
        BY <3>4 DEF OnAddressDeviceCompleted, Ignored
      <4> HIDE DEF slot, q
      <4>2. CASE \E r \in ResetNextWaiting :
                   /\ r.ok => AfterReset([r EXCEPT !.phase[q] = "kInitializingDevice"])
                   /\ ~r.ok => AfterReset(r)
        <5>1. PICK r \in ResetNextWaiting :
                /\ r.ok => AfterReset([r EXCEPT !.phase[q] = "kInitializingDevice"])
                /\ ~r.ok => AfterReset(r)
          BY <4>2
        <5>2. /\ r.ok = TRUE /\ r \in Outcome
              /\ \/ r.phase = port_config_phase
                 \/ \E w \in Ports : r.phase = [port_config_phase EXCEPT ![w] = "kResettingPort"]
          BY NextWaitingOutcome
        <5>3. port_config_phase' = [r.phase EXCEPT ![q] = "kInitializingDevice"]
          BY <5>1, <5>2 DEF AfterReset, Outcome
        <5>4. QED
          BY <1>1, <2>2, <5>2, <5>3, Typed
      <4>3. QED
        BY <1>1, <2>2, <4>1, <4>2
    <3>5. CASE OnTransfer \/ OnEnableSlotCompleted \/ OnConfigureEndpointCompleted
      <4>1. \/ UNCHANGED port_config_phase
            \/ \E q, phase : SetPhase(q, phase) /\ phase # "kWaitingAddressed"
        BY <3>5
        DEF OnTransfer, OnEnableSlotCompleted, OnConfigureEndpointCompleted, AddressDevice, Ignored
      <4>2. QED
        BY <1>1, <2>2, <4>1, Typed DEF SetPhase
    <3>6. CASE (ControllerNext /\ UNCHANGED software) \/ UNCHANGED vars
      BY <1>1, <2>2, <3>6 DEF vars, software
    <3>7. QED
      BY <3>2, <3>3, <3>4, <3>5, <3>6 DEF Next, ProcessEvent
  <2>3. QED
    BY <2>1, <2>2
<1>2. QED
  BY <1>1, StaysConnected DEF WaitingConnected

\* The stages of the abstract sequencer.
Stages == [p \in Ports |-> StageOf(port_config_phase[p])]

\* What the sequencer sees of a phase.
LEMMA StageOfPhase ==
  /\ StageOf("kNotConnected") = "idle"
  /\ StageOf("kWaitingAddressed") = "waiting"
  /\ \A phase \in AddressingPhases : StageOf(phase) = "owner"
  /\ \A phase \in ConfigPhase :
       /\ StageOf(phase) = "waiting" <=> phase = "kWaitingAddressed"
       /\ phase \notin {"kNotConnected", "kWaitingAddressed"} \cup AddressingPhases
            => StageOf(phase) = "done"
BY DEF StageOf, AddressingPhases

\* One port goes on.
LEMMA OneStage ==
  ASSUME IInv, NEW p \in Ports, NEW phase,
         port_config_phase' = [port_config_phase EXCEPT ![p] = phase]
  PROVE  Stages' = [Stages EXCEPT ![p] = StageOf(phase)]
<1>1. \A q \in Ports : port_config_phase'[q] = IF q = p THEN phase ELSE port_config_phase[q]
  BY Typed
<1>2. Stages' = [q \in Ports |-> IF q = p THEN StageOf(phase) ELSE StageOf(port_config_phase[q])]
  BY <1>1 DEF Stages
<1>3. QED
  BY <1>2 DEF Stages

\* Within a stage.
LEMMA SameStage ==
  ASSUME IInv, NEW p \in Ports, NEW phase, StageOf(phase) = StageOf(port_config_phase[p]),
         port_config_phase' = [port_config_phase EXCEPT ![p] = phase]
  PROVE  Stages' = Stages
<1>1. Stages' = [Stages EXCEPT ![p] = StageOf(phase)]
  BY OneStage
<1>2. QED
  BY <1>1 DEF Stages

\* ResetPort of a connected port that is idle takes the turn or waits for it.
LEMMA ResetIsTurn ==
  ASSUME IInv, NEW p \in Ports, port_config_phase[p] = "kNotConnected",
         AfterReset(ResetPort(p, addressing_port, port_config_phase))
  PROVE  Sequencer!Next \/ UNCHANGED <<addressing_port, Stages>>
<1> DEFINE r == ResetPort(p, addressing_port, port_config_phase)
<1>1. addressing_port' = r.owner /\ port_config_phase' = r.phase
  BY DEF AfterReset
<1>2. CASE ~portsc[p].ccs
  BY <1>1, <1>2 DEF ResetPort, Stages
<1>3. CASE portsc[p].ccs
  <2>1. IF addressing_port # 0
          THEN /\ r.owner = addressing_port
               /\ r.phase = [port_config_phase EXCEPT ![p] = "kWaitingAddressed"]
          ELSE r.owner = p /\ r.phase = [port_config_phase EXCEPT ![p] = "kResettingPort"]
    BY <1>3, Typed, ResetPortConnected
  <2> HIDE DEF r
  <2>2. Stages[p] = "idle"
    BY StageOfPhase DEF Stages
  <2>3. CASE addressing_port # 0
    <3>1. Stages' = [Stages EXCEPT ![p] = "waiting"] /\ UNCHANGED addressing_port
      BY <1>1, <2>1, <2>3, OneStage, StageOfPhase
    <3>2. Sequencer!Wait(p)
      BY <2>2, <2>3, <3>1 DEF Sequencer!Wait, Stages
    <3>3. QED
      BY <3>2 DEF Sequencer!Next
  <2>4. CASE addressing_port = 0
    <3>1. Stages' = [Stages EXCEPT ![p] = "owner"] /\ addressing_port' = p
      BY <1>1, <2>1, <2>4, OneStage, StageOfPhase DEF AddressingPhases
    <3>2. Sequencer!Acquire(p)
      BY <2>2, <2>4, <3>1 DEF Sequencer!Acquire, Stages
    <3>3. QED
      BY <3>2 DEF Sequencer!Next
  <2>5. QED
    BY <2>3, <2>4
<1>4. QED
  BY <1>2, <1>3

\* The port with its address passes the turn on.
LEMMA AddressedIsRelease ==
  ASSUME IInv, WaitingConnected, OnAddressDeviceCompleted
  PROVE  Sequencer!Next \/ UNCHANGED <<addressing_port, Stages>>
<1> DEFINE slot == Head(events).slot
           p == devices[slot].out_port
<1>1. CASE /\ devices[slot].allocated
           /\ p = addressing_port
           /\ port_config_phase[p] = "kAddressingDevice"
  <2>1. PICK r \in ResetNextWaiting :
          IF r.ok
            THEN /\ AfterReset([r EXCEPT !.phase[p] = "kInitializingDevice"])
                 /\ devices' = [devices EXCEPT ![slot].init = 1, ![slot].transfer = TRUE]
            ELSE AfterReset(r) /\ UNCHANGED devices
    BY <1>1 DEF OnAddressDeviceCompleted
  <2>2. r.ok = TRUE /\ r \in Outcome
    BY NextWaitingOutcome
  <2>3. p \in Ports /\ p = addressing_port /\ port_config_phase[p] = "kAddressingDevice"
    BY <1>1, Typed DEF AddressingPhases
  <2> HIDE DEF p, slot
  <2>4. addressing_port' = r.owner /\ port_config_phase' = [r.phase EXCEPT ![p] = "kInitializingDevice"]
    BY <2>1, <2>2 DEF AfterReset, Outcome
  <2>5. CASE WaitingPorts = {}
    <3>1. r.owner = 0 /\ r.phase = port_config_phase
      BY <2>5 DEF ResetNextWaiting
    <3>2. \A q \in Ports : port_config_phase[q] # "kWaitingAddressed"
      BY <2>5, Typed DEF WaitingPorts
    <3>3. \A q \in Ports : Stages[q] # "waiting"
      BY <3>2, Typed, StageOfPhase DEF Stages
    <3>4. Stages' = [Stages EXCEPT ![p] = "done"] /\ addressing_port' = 0
      <4>1. StageOf("kInitializingDevice") = "done"
        BY DEF StageOf, AddressingPhases
      <4>2. QED
        BY <2>3, <2>4, <3>1, <4>1, OneStage
    <3>5. Sequencer!Release(p)
      BY <2>3, <3>3, <3>4 DEF Sequencer!Release, Stages
    <3>6. QED
      BY <2>3, <3>5 DEF Sequencer!Next
  <2>6. CASE WaitingPorts # {}
    <3>1. PICK q \in WaitingPorts : r = ResetPort(q, 0, port_config_phase)
      BY <2>6 DEF ResetNextWaiting
    <3>2. q \in Ports /\ port_config_phase[q] = "kWaitingAddressed" /\ q # p
      BY <2>3, Typed DEF WaitingPorts
    <3>3. r.owner = q /\ r.phase = [port_config_phase EXCEPT ![q] = "kResettingPort"]
      <4>1. 0 \in 0..MaxPorts /\ portsc[q].ccs
        BY <3>2 DEF WaitingConnected
      <4>2. QED
        BY <3>1, <3>2, <4>1, ResetPortConnected
    <3>4. \A s \in Ports : port_config_phase'[s] =
            IF s = p THEN "kInitializingDevice" ELSE IF s = q THEN "kResettingPort"
            ELSE port_config_phase[s]
      BY <2>3, <2>4, <3>2, <3>3, Typed
    <3>5. /\ Stages' = [Stages EXCEPT ![p] = "done", ![q] = "owner"]
          /\ addressing_port' = q /\ Stages[q] = "waiting"
      <4>1. StageOf("kInitializingDevice") = "done" /\ StageOf("kResettingPort") = "owner"
        BY DEF StageOf, AddressingPhases
      <4>2. Stages' = [Stages EXCEPT ![p] = "done", ![q] = "owner"]
        BY <2>3, <3>2, <3>4, <4>1 DEF Stages
      <4>3. QED
        BY <2>4, <3>2, <3>3, <4>2, StageOfPhase DEF Stages
    <3>6. Sequencer!Release(p)
      BY <2>3, <3>2, <3>5 DEF Sequencer!Release, Stages
    <3>7. QED
      BY <2>3, <3>6 DEF Sequencer!Next
  <2>7. QED
    BY <2>5, <2>6
<1>2. CASE ~ (/\ devices[slot].allocated
              /\ p = addressing_port
              /\ port_config_phase[p] = "kAddressingDevice")
  BY <1>2 DEF OnAddressDeviceCompleted, Ignored, Stages
<1>3. QED
  BY <1>1, <1>2

\* Every step of the driver is one of the sequencer, or none.
LEMMA StepIsTurn ==
  ASSUME IInv, WaitingConnected, [Next]_vars
  PROVE  Sequencer!Next \/ UNCHANGED <<addressing_port, Stages>>
<1>1. CASE ConfigurePort
  <2>1. boot \in Ports
    BY <1>1 DEF ConfigurePort, IInv, TypeOK, Ports
  <2>2. \/ UNCHANGED <<addressing_port, port_config_phase>>
        \/ /\ port_config_phase[boot] = "kNotConnected"
           /\ AfterReset(ResetPort(boot, addressing_port, port_config_phase))
    BY <1>1 DEF ConfigurePort
  <2>3. QED
    BY <2>1, <2>2, ResetIsTurn DEF Stages
<1>2. CASE OnPortStatusChange
  <2>1. Head(events).port \in Ports
    BY <1>2, PoppedEvents, EventFields DEF OnPortStatusChange, Handling
  <2>2. PICK p \in Ports : p = Head(events).port
    BY <2>1
  <2>3. \/ /\ port_config_phase[p] = "kNotConnected"
           /\ AfterReset(ResetPort(p, addressing_port, port_config_phase))
        \/ /\ port_config_phase[p] = "kResettingPort"
           /\ SetPhase(p, "kEnablingSlot")
           /\ UNCHANGED addressing_port
        \/ UNCHANGED <<addressing_port, port_config_phase>>
    BY <1>2, <2>2 DEF OnPortStatusChange, Ignored, EnableSlot
  <2>4. StageOf("kEnablingSlot") = StageOf("kResettingPort")
    BY StageOfPhase DEF AddressingPhases
  <2>5. QED
    BY <2>3, <2>4, ResetIsTurn, SameStage DEF SetPhase, Stages
<1>3. CASE OnTransfer
  <2>1. PICK slot \in Slots : slot = Head(events).slot
    BY <1>3, PoppedEvents, EventFields DEF OnTransfer, Handling
  <2>2. AfterTransfer(devices[slot]).out_port \in 0..MaxPorts
    BY Typed, AfterTransferKeeps
  <2>3. PICK p \in 0..MaxPorts : p = AfterTransfer(devices[slot]).out_port
    BY <2>2
  <2>4. /\ \/ UNCHANGED port_config_phase
           \/ /\ port_config_phase[p] = "kInitializingDevice"
              /\ SetPhase(p, "kConfiguringEndpoints")
        /\ UNCHANGED addressing_port
    BY <1>3, <2>1, <2>3 DEF OnTransfer, Ignored
  <2>5. StageOf("kInitializingDevice") = StageOf("kConfiguringEndpoints")
    BY DEF StageOf, AddressingPhases
  <2>6. QED
    BY <2>4, <2>5, SameStage, Typed DEF SetPhase, Stages
<1>4. CASE OnEnableSlotCompleted
  <2>1. /\ \/ UNCHANGED port_config_phase
           \/ /\ port_config_phase[addressing_port] = "kEnablingSlot"
              /\ SetPhase(addressing_port, "kAddressingDevice")
        /\ UNCHANGED addressing_port
    BY <1>4 DEF OnEnableSlotCompleted, AddressDevice, Ignored
  <2>2. PICK p \in 0..MaxPorts : p = addressing_port
    BY Typed
  <2>3. StageOf("kEnablingSlot") = StageOf("kAddressingDevice")
    BY StageOfPhase DEF AddressingPhases
  <2>4. QED
    BY <2>1, <2>2, <2>3, SameStage, Typed DEF SetPhase, Stages
<1>5. CASE OnAddressDeviceCompleted
  BY <1>5, AddressedIsRelease
<1>6. CASE OnConfigureEndpointCompleted
  <2>1. PICK slot \in Slots : slot = Head(events).slot
    BY <1>6, PoppedEvents, EventFields DEF OnConfigureEndpointCompleted, Handling
  <2>2. PICK p \in 0..MaxPorts : p = devices[slot].out_port
    BY Typed
  <2>3. /\ \/ UNCHANGED port_config_phase
           \/ /\ port_config_phase[p] = "kConfiguringEndpoints"
              /\ SetPhase(p, "kConfigured")
        /\ UNCHANGED addressing_port
    BY <1>6, <2>1, <2>2 DEF OnConfigureEndpointCompleted, Ignored
  <2>4. StageOf("kConfiguringEndpoints") = StageOf("kConfigured")
    BY DEF StageOf, AddressingPhases
  <2>5. QED
    BY <2>3, <2>4, SameStage, Typed DEF SetPhase, Stages
<1>7. CASE (ControllerNext /\ UNCHANGED software) \/ UNCHANGED vars
  BY <1>7 DEF vars, software, Stages
<1>8. QED
  BY <1>1, <1>2, <1>3, <1>4, <1>5, <1>6, <1>7 DEF Next, ProcessEvent

\* When no device is pulled out, the driver takes the ports through the stretch
\* as the sequencer does: one at a time, and nobody who waits is left behind.
THEOREM DriverImplementsSequencer ==
  ASSUME MaxUnplugs = 0
  PROVE  Spec => ImplementsSequencer
<1>1. Init => IInv /\ WaitingConnected
  BY InitIInv DEF Init, WaitingConnected, Ports
<1>2. IInv /\ WaitingConnected /\ [Next]_vars => (IInv /\ WaitingConnected)'
  BY NextIInv, WaitingStaysConnected
<1>3. Init => Sequencer!Init
  BY StageOfPhase DEF Init, Sequencer!Init, Ports
<1>4. IInv /\ WaitingConnected /\ [Next]_vars => [Sequencer!Next]_<<addressing_port, Stages>>
  BY StepIsTurn
<1>5. QED
  BY <1>1, <1>2, <1>3, <1>4, PTL DEF Spec, ImplementsSequencer, Sequencer!Spec, Stages

\* Somebody has the turn while a port waits for it.
TurnComing == (\E p \in Ports : Stages[p] = "waiting") => addressing_port # 0

\* The sequencer does not let go of the turn while somebody waits.
LEMMA TurnIsPassedOn ==
  ASSUME IInv, TurnComing, Sequencer!Next \/ UNCHANGED <<addressing_port, Stages>>
  PROVE  TurnComing'
<1>1. DOMAIN Stages = Ports /\ \A p \in Ports : p # 0
  BY DEF Stages, Ports
<1>2. CASE UNCHANGED <<addressing_port, Stages>>
  BY <1>2 DEF TurnComing
<1>3. ASSUME NEW p \in Ports, Sequencer!Acquire(p)
      PROVE  TurnComing'
  BY <1>1, <1>3 DEF TurnComing, Sequencer!Acquire
<1>4. ASSUME NEW p \in Ports, Sequencer!Wait(p)
      PROVE  TurnComing'
  BY <1>1, <1>4 DEF TurnComing, Sequencer!Wait
<1>5. ASSUME NEW p \in Ports, Sequencer!Release(p)
      PROVE  TurnComing'
  <2>1. CASE \E q \in Ports : Stages[q] = "waiting" /\ addressing_port' = q
    BY <1>1, <2>1 DEF TurnComing
  <2>2. CASE /\ \A q \in Ports : Stages[q] # "waiting"
             /\ Stages' = [Stages EXCEPT ![p] = "done"]
    BY <1>1, <2>2 DEF TurnComing
  <2>3. QED
    BY <1>5, <2>1, <2>2 DEF Sequencer!Release, Stages
<1>6. QED
  BY <1>2, <1>3, <1>4, <1>5 DEF Sequencer!Next

\* While a port waits, another one is in the stretch and will pass it on, unless
\* a device is pulled out: that is the one way to leave a port waiting.
THEOREM TurnComesUnlessUnplugged ==
  ASSUME MaxUnplugs = 0
  PROVE  Spec => []WaitingHasATurnComing
<1>1. Init => IInv /\ WaitingConnected /\ TurnComing
  <2>1. Init => TurnComing
    BY StageOfPhase DEF Init, TurnComing, Stages, Ports
  <2>2. QED
    BY <2>1, InitIInv DEF Init, WaitingConnected, Ports
<1>2. IInv /\ WaitingConnected /\ TurnComing /\ [Next]_vars
        => (IInv /\ WaitingConnected /\ TurnComing)'
  BY NextIInv, WaitingStaysConnected, StepIsTurn, TurnIsPassedOn
<1>3. IInv /\ TurnComing => WaitingHasATurnComing
  BY StageOfPhase DEF TurnComing, Stages, WaitingHasATurnComing
<1>4. QED
  BY <1>1, <1>2, <1>3, PTL DEF Spec

=============================================================================
