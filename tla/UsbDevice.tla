----------------------------- MODULE UsbDevice -----------------------------
(***************************************************************************)
(* A USB device from the assignment of its address to its reports: the     *)
(* initialization of src/kernel/usb/device.cpp, the control and interrupt  *)
(* transfers of src/kernel/usb/xhci/device.cpp, and the HID drivers of     *)
(* src/kernel/usb/classdriver. The event handlers are those of xhci.cpp,   *)
(* with the port reduced to the phases it has from there on.               *)
(*                                                                         *)
(* A transfer is answered by an event, in the device's own time, and all   *)
(* goes on only by what the handler of that event does next. An operator   *)
(* named _Mutant is what a plausible slip would have made of the           *)
(* definition after it; nothing refers to it.                              *)
(***************************************************************************)
EXTENDS Integers, Sequences, SequencesExt, FiniteSets

CONSTANTS
  Configurations,  \* configuration descriptors a device may have
  EpConfigEntries, \* size of ep_configs_
  RingSize,        \* TRBs of a transfer ring, the link included
  SetupEntries,    \* size of setup_stage_map_
  WaiterEntries,   \* size of event_waiters_
  Heads,           \* values of the first byte of a report
  Codes,           \* key codes
  MaxReports       \* bound: reports that the device sends

EndpointDescriptor == [type : {"endpoint"}, number : 1..15, in : BOOLEAN, interrupt : BOOLEAN]

Descriptor ==
  [type : {"interface"}, protocol : {"keyboard", "mouse", "other"}, num_endpoints : Nat]
    \union EndpointDescriptor \union [type : {"other"}]

IsInterface(desc) == desc.type = "interface"
IsEndpoint(desc) == desc.type = "endpoint"

\* The endpoint descriptors that follow descriptor k.
EndpointsBehind(config, k) == SelectSeq(SubSeq(config, k + 1, Len(config)), IsEndpoint)

\* HID interfaces of the boot subclass, keyboard or mouse.
Supported(desc) == IsInterface(desc) /\ desc.protocol \in {"keyboard", "mouse"}

\* What a device with a valid configuration descriptor keeps to, and the buffer
\* of 256 bytes does not cut off. That its endpoints fit into ep_configs_ is not
\* looked at when they are put there.
ASSUME ConfigurationsAssumption ==
  \A config \in Configurations :
    /\ config \in Seq(Descriptor)
    /\ \A k \in DOMAIN config :
         Supported(config[k]) =>
           LET n == config[k].num_endpoints
               endpoints == EndpointsBehind(config, k)
               numbers == {endpoints[e].number : e \in 1..n}
           IN  /\ endpoints \in Seq(EndpointDescriptor)
               /\ n <= Len(endpoints) /\ n <= EpConfigEntries
               /\ \E e \in 1..n : endpoints[e].interrupt /\ endpoints[e].in
               /\ 2 * Cardinality(numbers) <= RingSize - 2
               /\ Cardinality(numbers) <= SetupEntries

ASSUME TablesAssumption ==
  /\ RingSize \in Nat /\ RingSize >= 6
  /\ EpConfigEntries \in Nat \ {0}
  /\ SetupEntries \in Nat \ {0}
  /\ WaiterEntries \in Nat \ {0}
  /\ MaxReports \in Nat
  /\ 0 \in Heads /\ 0 \notin Codes

GetDescriptor == {"GetDescriptor_Device", "GetDescriptor_Configuration"}

VARIABLES
  config,             \* the device's configuration descriptor
  port_config_phase,
  initialize_phase,
  is_initialized,
  buf,                \* what the device wrote into buf_ last
  ep_configs,
  class_drivers,      \* endpoint numbers that have the class driver
  control,            \* the control endpoint: see ControlTransfer
  hid,                \* the class driver
  hid_buf,            \* buf_ of the class driver
  transfer_rings,     \* endpoints other than 0 that have a transfer ring
  interrupt_ins,      \* interrupt transfers outstanding
  events,             \* events of this device on the event ring
  device,             \* what the device was told and did, and if it is there
  sent,               \* reports that the device sent
  told                \* what the observers were told of them

driver == <<ep_configs, class_drivers, hid>>
phases == <<port_config_phase, initialize_phase, is_initialized>>
vars == <<config, phases, buf, driver, control, hid_buf, transfer_rings,
          interrupt_ins, events, device, sent, told>>

Report == [head: Heads, keys: SUBSET Codes]

NoReport == [head |-> 0, keys |-> {}]

EndpointID == [number: Nat, in: BOOLEAN]

NoEndpoint == [number |-> 0, in |-> FALSE]

Init ==
  /\ config \in Configurations
  /\ port_config_phase = "kAddressingDevice"
  /\ initialize_phase = 0 /\ is_initialized = FALSE
  /\ buf = "none"
  /\ ep_configs = <<>> /\ class_drivers = {}
  /\ control = [ring |-> <<>>, write_index |-> 0, setup_stage_map |-> <<>>, event_waiters |-> <<>>]
  /\ hid = [kind |-> "none", phase |-> 0, in |-> NoEndpoint, previous |-> NoReport]
  /\ hid_buf = NoReport
  /\ transfer_rings = {}
  /\ interrupt_ins = 0
  /\ events = <<>>
  /\ device = [configured |-> FALSE, boot |-> FALSE, endpoints |-> FALSE, halted |-> {},
               plugged |-> TRUE]
  /\ sent = <<>> /\ told = <<>>

-----------------------------------------------------------------------------
(* Transfers.                                                              *)

\* The size is not looked at.
Put_Mutant(table, entry, size) == Append(table, entry)

\* ArrayMap::Put. Entries of one key have one value, so which free place is
\* taken does not matter.
Put(table, entry, size) == IF Len(table) < size THEN Append(table, entry) ELSE table

\* Where on a ring the n-th TRB from the write index goes; the link is the last entry.
Place(index, n) == (index + n) % (RingSize - 1)

\* ControlIn and ControlOut: the control endpoint c after a request has been pushed
\* on its ring. The second TRB interrupts on completion, the data stage or, without
\* data, the status stage; issuer says whether the class driver is to be told.
ControlTransfer(c, request, data, issuer) ==
  LET stages == IF data THEN <<"setup", "data", "status">> ELSE <<"setup", "status">>
      trbs == [k \in DOMAIN stages |->
                 [place |-> Place(c.write_index, k - 1), stage |-> stages[k],
                  request |-> request, ioc |-> k = 2]]
  IN  [ring |-> c.ring \o trbs,
       write_index |-> Place(c.write_index, Len(trbs)),
       setup_stage_map |->
         Put(c.setup_stage_map, [place |-> trbs[2].place, request |-> request], SetupEntries),
       event_waiters |->
         IF issuer THEN Put(c.event_waiters, request, WaiterEntries) ELSE c.event_waiters]

\* An endpoint without a transfer ring gives an error.
InterruptIn ==
  interrupt_ins' = IF hid.in \in transfer_rings THEN interrupt_ins + 1 ELSE interrupt_ins

-----------------------------------------------------------------------------
(* The controller and the device.                                          *)

Post(type, place, ok) ==
  events' = Append(events, [type |-> type, place |-> place, ok |-> ok])

\* The user pulls the device out, and does not plug it in again. What is asked of
\* it then can only fail.
PullOut ==
  /\ device.plugged
  /\ device' = [device EXCEPT !.plugged = FALSE]
  /\ UNCHANGED <<config, phases, buf, driver, control, hid_buf, transfer_rings,
                 interrupt_ins, events, sent, told>>

\* The next stage on the control ring. The device takes part in the data stage,
\* by which it answers, and in the status stage, by which it has done as told.
ControlStage ==
  /\ control.ring # <<>>
  /\ "control" \notin device.halted
  /\ device.plugged
  /\ LET trb == Head(control.ring) IN
       /\ control' = [control EXCEPT !.ring = Tail(@)]
       /\ buf' = IF trb.stage = "data" THEN trb.request ELSE buf
       /\ device' = IF trb.stage # "status" THEN device
                    ELSE [device EXCEPT !.configured = @ \/ trb.request = "SetConfiguration",
                                        !.boot = @ \/ trb.request = "SetProtocol"]
       /\ IF trb.ioc THEN Post("control", trb.place, TRUE) ELSE UNCHANGED events
  /\ UNCHANGED <<config, phases, driver, hid_buf, transfer_rings, interrupt_ins, sent, told>>

\* A stage fails, and the endpoint halts.
FailControlStage ==
  /\ control.ring # <<>>
  /\ "control" \notin device.halted
  /\ control' = [control EXCEPT !.ring = Tail(@)]
  /\ Post("control", Head(control.ring).place, FALSE)
  /\ device' = [device EXCEPT !.halted = @ \union {"control"}]
  /\ UNCHANGED <<config, phases, buf, driver, hid_buf, transfer_rings, interrupt_ins, sent, told>>

\* The completion code of the command is not looked at.
ExecuteConfigureEndpoint ==
  /\ device.endpoints = FALSE
  /\ port_config_phase = "kConfiguringEndpoints"
  /\ ~\E k \in DOMAIN events : events[k].type = "command"
  /\ \E ok \in BOOLEAN : /\ device' = [device EXCEPT !.endpoints = ok]
                         /\ Post("command", 0, ok)
  /\ UNCHANGED <<config, phases, buf, driver, control, hid_buf, transfer_rings,
                 interrupt_ins, sent, told>>

CanReport ==
  interrupt_ins > 0 /\ device.endpoints /\ "interrupt" \notin device.halted

\* A report goes to the buffer of the class driver at once, whatever is there.
SendReport ==
  /\ CanReport /\ device.plugged
  /\ Len(sent) < MaxReports
  /\ \E report \in Report : hid_buf' = report /\ sent' = Append(sent, report)
  /\ interrupt_ins' = interrupt_ins - 1
  /\ Post("interrupt", 0, TRUE)
  /\ UNCHANGED <<config, phases, buf, driver, control, transfer_rings, device, told>>

FailInterruptIn ==
  /\ CanReport
  /\ interrupt_ins' = interrupt_ins - 1
  /\ device' = [device EXCEPT !.halted = @ \union {"interrupt"}]
  /\ Post("interrupt", 0, FALSE)
  /\ UNCHANGED <<config, phases, buf, driver, control, hid_buf, transfer_rings, sent, told>>

-----------------------------------------------------------------------------
(* Initialization.                                                         *)

\* InitializeDevice, StartInitialize.
InitializeDevice ==
  /\ port_config_phase = "kAddressingDevice"
  /\ port_config_phase' = "kInitializingDevice"
  /\ is_initialized' = FALSE
  /\ initialize_phase' = 1
  /\ control' = ControlTransfer(control, "GetDescriptor_Device", TRUE, FALSE)
  /\ UNCHANGED <<config, buf, driver, hid_buf, transfer_rings, interrupt_ins, events,
                 device, sent, told>>

InitializePhase1(c) ==
  /\ initialize_phase' = 2
  /\ control' = ControlTransfer(c, "GetDescriptor_Configuration", TRUE, FALSE)
  /\ UNCHANGED <<port_config_phase, is_initialized, driver, transfer_rings, interrupt_ins>>

EpConfig(desc) ==
  [ep_id |-> [number |-> desc.number, in |-> desc.in], interrupt |-> desc.interrupt]

\* Takes the first interface for which there is a driver, and of it the endpoints.
\* Without any there is nothing more to do.
InitializePhase2(c) ==
  /\ LET first == SelectInSeq(config, Supported) IN
     IF first # 0
       THEN LET found == SubSeq(EndpointsBehind(config, first), 1, config[first].num_endpoints)
            IN  /\ hid' = [hid EXCEPT !.kind = config[first].protocol]
                /\ ep_configs' = [e \in DOMAIN found |-> EpConfig(found[e])]
                /\ class_drivers' = {found[e].number : e \in DOMAIN found}
                /\ initialize_phase' = 3
                /\ control' = ControlTransfer(c, "SetConfiguration", FALSE, FALSE)
       ELSE control' = c /\ UNCHANGED <<driver, initialize_phase>>
  /\ UNCHANGED <<port_config_phase, is_initialized, transfer_rings, interrupt_ins>>

IsInterruptIn(conf) == conf.interrupt /\ conf.ep_id.in

\* ConfigureEndpoints in xhci.cpp. It gives up when PORTSC shows no valid speed:
\* without a device on the port the field is undefined.
ConfigureEndpoints ==
  \/ /\ transfer_rings' = {ep_configs[e].ep_id : e \in DOMAIN ep_configs}
     /\ port_config_phase' = "kConfiguringEndpoints"
  \/ ~device.plugged /\ UNCHANGED <<transfer_rings, port_config_phase>>

\* The device does not say that it is initialized.
InitializePhase3_Mutant(c) ==
  /\ hid' = [hid EXCEPT !.in = ep_configs[SelectLastInSeq(ep_configs, IsInterruptIn)].ep_id]
  /\ initialize_phase' = 4
  /\ control' = c
  /\ UNCHANGED <<is_initialized, transfer_rings, port_config_phase, ep_configs, class_drivers, interrupt_ins>>

\* SetEndpoint of the driver, for each endpoint; with the device initialized,
\* OnEvent goes on to the endpoints. It would do so at any later event, too, but if
\* that gives up nothing is asked of the device any more.
InitializePhase3(c) ==
  /\ hid' = [hid EXCEPT !.in = ep_configs[SelectLastInSeq(ep_configs, IsInterruptIn)].ep_id]
  /\ initialize_phase' = 4
  /\ is_initialized' = TRUE
  /\ IF port_config_phase = "kInitializingDevice"
       THEN ConfigureEndpoints
       ELSE UNCHANGED <<transfer_rings, port_config_phase>>
  /\ control' = c
  /\ UNCHANGED <<ep_configs, class_drivers, interrupt_ins>>

-----------------------------------------------------------------------------
(* The class driver.                                                       *)

\* OnEndpointsConfigured, called for each endpoint number that has the driver:
\* so many requests for the boot protocol.
OnEndpointsConfigured ==
  LET Requested[n \in 0..Cardinality(class_drivers)] ==
        IF n = 0 THEN control
        ELSE ControlTransfer(Requested[n - 1], "SetProtocol", FALSE, TRUE)
  IN  /\ control' = Requested[Cardinality(class_drivers)]
      /\ hid' = IF class_drivers = {} THEN hid ELSE [hid EXCEPT !.phase = 1]

\* Every answer starts reading reports.
HIDControlCompleted_Mutant ==
  /\ hid' = [hid EXCEPT !.phase = 2]
  /\ InterruptIn

\* Only the first answer starts reading reports; on others nothing is done.
HIDControlCompleted ==
  IF hid.phase = 1
    THEN hid' = [hid EXCEPT !.phase = 2] /\ InterruptIn
    ELSE UNCHANGED <<hid, interrupt_ins>>

\* What OnDataReceived tells the observers. A key of the keyboard is new if its
\* code is nowhere in the previous report, the first byte included.
News(report) ==
  IF hid.kind = "keyboard"
    THEN [head |-> 0,
          keys |-> report.keys \ (hid.previous.keys \union {hid.previous.head})]
    ELSE report

-----------------------------------------------------------------------------
(* The event handlers.                                                     *)

\* ProcessEvent found an event of this type at the front, and pops it.
Handling(type) ==
  /\ events # <<>>
  /\ Head(events).type = type
  /\ events' = Tail(events)
  /\ UNCHANGED <<config, buf, hid_buf, device, sent>>

Ignored == UNCHANGED <<phases, driver, control, transfer_rings, interrupt_ins, told>>

\* A transfer that failed is not tried again, and its entry stays.
OnTransferFailed ==
  /\ Handling("control") \/ Handling("interrupt")
  /\ ~Head(events).ok
  /\ Ignored

\* OnControlCompleted with the request that setup_stage_map_ has for the event,
\* and the control endpoint c without that entry.
OnControlCompleted(request, c) ==
  IF is_initialized
    THEN /\ IF request \in ToSet(c.event_waiters)
              THEN HIDControlCompleted
              ELSE UNCHANGED <<hid, interrupt_ins>>
         /\ control' = c
         /\ UNCHANGED <<phases, ep_configs, class_drivers, transfer_rings>>
    ELSE CASE /\ initialize_phase = 1
              /\ request \in GetDescriptor
              /\ buf = "GetDescriptor_Device" -> InitializePhase1(c)
           [] /\ initialize_phase = 2
              /\ request \in GetDescriptor
              /\ buf = "GetDescriptor_Configuration" -> InitializePhase2(c)
           [] initialize_phase = 3 /\ request = "SetConfiguration" -> InitializePhase3(c)
           [] OTHER -> /\ control' = c
                       /\ UNCHANGED <<phases, driver, transfer_rings, interrupt_ins>>

\* The entry of setup_stage_map_ for the event, 0 if there is none.
EntryOf(event) ==
  SelectInSeq(control.setup_stage_map, LAMBDA entry : entry.place = event.place)

\* The entry is not deleted.
OnControlEvent_Mutant ==
  /\ Handling("control")
  /\ Head(events).ok
  /\ LET entry == EntryOf(Head(events))
     IN  IF entry = 0 THEN Ignored
         ELSE /\ OnControlCompleted(control.setup_stage_map[entry].request, control)
              /\ UNCHANGED told

\* An event without an entry is dropped.
OnControlEvent ==
  /\ Handling("control")
  /\ Head(events).ok
  /\ LET entry == EntryOf(Head(events))
     IN  IF entry = 0 THEN Ignored
         ELSE /\ OnControlCompleted(control.setup_stage_map[entry].request,
                   [control EXCEPT !.setup_stage_map = RemoveAt(@, entry)])
              /\ UNCHANGED told

\* The report is not kept for the next one.
OnInterruptEvent_Mutant ==
  /\ Handling("interrupt")
  /\ Head(events).ok
  /\ hid.in.number \in class_drivers
  /\ told' = Append(told, News(hid_buf))
  /\ InterruptIn
  /\ UNCHANGED <<phases, ep_configs, class_drivers, hid, control, transfer_rings>>

OnInterruptEvent ==
  /\ Handling("interrupt")
  /\ Head(events).ok
  /\ IF hid.in.number \in class_drivers
       THEN /\ told' = Append(told, News(hid_buf))
            /\ hid' = [hid EXCEPT !.previous = hid_buf]
            /\ InterruptIn
            /\ UNCHANGED <<phases, ep_configs, class_drivers, control, transfer_rings>>
       ELSE Ignored

\* Reading reports does not wait for the boot protocol.
OnConfigureEndpointCompleted_Mutant ==
  /\ Handling("command")
  /\ port_config_phase = "kConfiguringEndpoints"
  /\ OnEndpointsConfigured
  /\ InterruptIn
  /\ port_config_phase' = "kConfigured"
  /\ UNCHANGED <<initialize_phase, is_initialized, ep_configs, class_drivers, transfer_rings, told>>

\* CompleteConfiguration goes on although the command may have failed.
OnConfigureEndpointCompleted ==
  /\ Handling("command")
  /\ IF port_config_phase = "kConfiguringEndpoints"
       THEN /\ OnEndpointsConfigured
            /\ port_config_phase' = "kConfigured"
            /\ UNCHANGED <<initialize_phase, is_initialized, ep_configs, class_drivers,
                           transfer_rings, interrupt_ins, told>>
       ELSE Ignored

ProcessEvent ==
  OnTransferFailed \/ OnControlEvent \/ OnInterruptEvent \/ OnConfigureEndpointCompleted

-----------------------------------------------------------------------------

Controller ==
  ControlStage \/ FailControlStage \/ ExecuteConfigureEndpoint

Next ==
  \/ InitializeDevice \/ ProcessEvent
  \/ Controller \/ SendReport \/ FailInterruptIn \/ PullOut

Spec == Init /\ [][Next]_vars

\* The event loop goes on and misses no event (module EventLoop), and the
\* controller executes what it is given, with one outcome or another. A device
\* need not have anything to report.
FairSpec ==
  /\ Spec
  /\ WF_vars(InitializeDevice)
  /\ WF_vars(ProcessEvent)
  /\ WF_vars(Controller)

-----------------------------------------------------------------------------
(* Properties.                                                             *)

Request ==
  {"GetDescriptor_Device", "GetDescriptor_Configuration", "SetConfiguration", "SetProtocol"}

Places == 0..(RingSize - 2)

\* Only what a request for a descriptor asks for has a data stage.
TRB ==
  {trb \in [place: Places, stage: {"setup", "data", "status"}, request: Request, ioc: BOOLEAN] :
     trb.stage = "data" => trb.request \in GetDescriptor}

\* Every variable has its type: the tables do not outgrow their sizes.
TypeOK ==
  /\ config \in Configurations
  /\ port_config_phase \in {"kAddressingDevice", "kInitializingDevice",
                            "kConfiguringEndpoints", "kConfigured"}
  /\ initialize_phase \in 0..4
  /\ is_initialized \in BOOLEAN
  /\ buf \in {"none"} \union GetDescriptor
  /\ ep_configs \in Seq([ep_id: EndpointID, interrupt: BOOLEAN])
  /\ Len(ep_configs) <= EpConfigEntries
  /\ class_drivers \subseteq Nat \ {0}
  /\ transfer_rings \subseteq EndpointID
  /\ control \in
       [ring: Seq(TRB),
        write_index: Places,
        setup_stage_map: Seq([place: Places, request: Request]),
        event_waiters: Seq(Request)]
  /\ Len(control.setup_stage_map) <= SetupEntries
  /\ Len(control.event_waiters) <= WaiterEntries
  /\ hid \in [kind: {"none", "keyboard", "mouse"}, phase: 0..2, in: EndpointID, previous: Report]
  /\ hid_buf \in Report
  /\ interrupt_ins \in Nat
  /\ events \in Seq([type: {"control", "interrupt", "command"}, place: Places, ok: BOOLEAN])
  /\ device \in [configured: BOOLEAN, boot: BOOLEAN, endpoints: BOOLEAN,
                 halted: SUBSET {"control", "interrupt"}, plugged: BOOLEAN]
  /\ sent \in Seq(Report) /\ told \in Seq(Report)

\* Completions of control transfers to come: in events, and on the ring.
Posted == {k \in DOMAIN events : events[k].type = "control" /\ events[k].ok}
Due == {k \in DOMAIN control.ring : control.ring[k].ioc}

\* There is an entry for the place, and one only.
HasOneEntry(place) ==
  \E e \in DOMAIN control.setup_stage_map :
    \A f \in DOMAIN control.setup_stage_map :
      control.setup_stage_map[f].place = place <=> f = e

\* Every completion of a control transfer will find the setup stage it belongs to,
\* and only that: neither table drops an entry that is needed, although Put does
\* not say when it does, and no request overwrites one still on the ring. A class
\* driver's request will find its waiter, too.
AnswersFindTheirRequests ==
  /\ \A k \in Posted :
       /\ HasOneEntry(events[k].place)
       /\ \A j \in Posted \ {k} : events[j].place # events[k].place
       /\ \A j \in Due : control.ring[j].place # events[k].place
  /\ \A k \in Due :
       /\ HasOneEntry(control.ring[k].place)
       /\ \A j \in Due \ {k} : control.ring[j].place # control.ring[k].place
  /\ \A e \in DOMAIN control.setup_stage_map :
       control.setup_stage_map[e].request = "SetProtocol" =>
         "SetProtocol" \in ToSet(control.event_waiters)
  /\ Len(control.ring) <= RingSize - 2

\* Reports are read only from a device that is configured and was told to use the
\* boot protocol, whose layout of a report is the one the drivers know.
ReportsAreBootReports ==
  interrupt_ins > 0 => device.configured /\ device.boot /\ is_initialized

\* The observers are told of every report, in order and before the next one can
\* be sent: one buffer serves them all.
Reports == INSTANCE BoundedQueue WITH
  Capacity <- 1, put <- Len(sent), got <- Len(told), last <- Len(told)

ReportsOneByOne == Reports!Spec

KeysBefore(k) == IF k = 1 THEN {} ELSE sent[k - 1].keys
HeadBefore(k) == IF k = 1 THEN 0 ELSE sent[k - 1].head

\* The mouse's observers are told each report as it was sent. The keyboard's are
\* told of a key once when it goes down, not while it is held, with one exception:
\* a code that was the value of the modifiers before.
ObserversToldRight ==
  \A k \in DOMAIN told :
    IF hid.kind = "mouse" THEN told[k] = sent[k]
    ELSE LET pressed == sent[k].keys \ KeysBefore(k) IN
         /\ told[k].keys \subseteq pressed
         /\ pressed \ {HeadBefore(k)} \subseteq told[k].keys

\* As long as nothing fails and it is there, a device with a driver is always asked
\* for its next report in the end, however the answers come.
AlwaysAskedAgain ==
  (\E k \in DOMAIN config : Supported(config[k])) =>
    []<>(interrupt_ins = 1 \/ device.halted # {} \/ ~device.plugged)

=============================================================================
