# A verification project for the MikanOS kernel in this repository

The repository is a small x86-64 operating system: a UEFI boot loader
(`MikanLoaderPkg`), and a kernel that sets up memory, scans PCI, drives the
xHCI USB host controller, and shows a mouse, windows and a text console. The
kernel has one flow of control, the event loop at the end of
`KernelMainNewStack`, one interrupt handler, `IntHandlerXHCI`, and one device
that acts on its own, the xHCI controller. Almost all of its state machine
logic, and all of its concurrency but that with the firmware during the start,
is in the USB stack; the project begins there and goes on to the rest.

- [Inventory](#inventory)
- [The modules](#the-modules)
- [The runs](#the-runs)
- [Fairness](#fairness)
- [The proofs](#the-proofs)
- [Findings and known limits](#findings-and-known-limits)
- [What is not modelled](#what-is-not-modelled)
- [Plan](#plan)

To repeat the checks: `tlc -config X.cfg M` for each run of `PROJECT.json`, and
`tlapm M.tla` for the modules named `*_proofs`.

## Inventory

Paths are relative to `src/`.

### xHCI root hub ports (`kernel/usb/xhci/xhci.cpp`, `port.cpp`) - modelled

*State.* `port_config_phase[port]`, one of eight phases; `addressing_port`, the
port that is between reset and address assignment; both file-local.
*Operations.* The loop over the ports at the end of `Initialize`
(`ConfigurePort`), and the event handlers of `ProcessEvent`: `OnEvent` for port
status changes, for command completions (three kinds of command) and for
transfers. `ResetPort`, `EnableSlot`, `AddressDevice`, `InitializeDevice`,
`ConfigureEndpoints` and `CompleteConfiguration` are what they are made of.
*Interaction.* The handlers run one at a time, from the event loop. They write
`PORTSC`, push commands on the command ring and transfers on a device's rings;
the controller answers by events, in its own time.
*Hard.* Ports progress independently but share one stretch of addressing. A
command completion does not name a port: it is matched through
`addressing_port` or through a context that the controller wrote. Completion
codes are not looked at. Devices come and go at any time.
*Correct if* at most one port is in the stretch and `addressing_port` names it;
phases only advance; every outstanding command belongs to the phase of its port;
a port has one device and no other port's; every device gets its turn and ends
up configured.

### Event loop and interrupts (`kernel/main.cpp`, `interrupt.cpp`, `message.hpp`) - modelled

*State.* `main_queue`, a deque that starts with 32 messages; the interrupt flag;
the pending interrupt of the local APIC.
*Operations.* The loop: draw, `cli`, look at the queue, pop, `sti`,
`ProcessEvents`; the handler: push a message, end of interrupt.
*Interaction.* The handler preempts the loop wherever interrupts are enabled and
shares the queue with it; the controller shares the event ring and the `ERDP`
register with it.
*Hard.* Every interleaving of three actors on two shared objects; a lost wakeup
would stop the machine's input for good.
*Correct if* the queue is never touched by both at once, does not grow without
bound, and every event posted is handled.

### xHCI rings (`kernel/usb/xhci/ring.cpp`, `trb.hpp`) - modelled

*State.* A producer ring (`Ring`: buffer, cycle bit, write index, with a link
TRB in the last entry) and the consumer's event ring (`EventRing`: buffer, cycle
bit, the dequeue pointer in `ERDP`, segment table of one entry).
*Operations.* `Push`, `HasFront`, `Front`, `Pop`, `WriteDequeuePointer`.
*Hard.* Wrap-around and cycle bits on both sides of memory shared with hardware;
`Push` never looks whether there is room.
*Correct if* the ring is a bounded first-in-first-out queue: nothing lost,
duplicated or reordered over any number of turns, as long as the producer keeps
within the ring; and the bounds of what is outstanding are really kept.
`XhciPorts` and `EventLoop` use the rings as the queues they are shown to be.

### Device manager (`kernel/usb/xhci/devmgr.cpp`) - partly

*State.* `devices_` by slot and the device context base address array.
*Operations.* `AllocDevice`, `LoadDCBAA`, `FindBySlot`; `Remove` and
`FindByPort` have no caller.
*Correct if* a slot has one device, and entry 0 of the array stays the
scratchpad's. `XhciStart` has its allocations, `XhciController` its `devices`,
slot 0 included.

### Start of the controller (`Initialize`, `Controller::Initialize`, `Run` in `kernel/usb/xhci/xhci.cpp`) - modelled

*State.* The controller picked; the registers; the memory that the controller is
told of. *Operations.* Picking an xHC among the PCI devices, MSI,
`SwitchEhci2Xhci`, `RequestHCOwnership`, halt, reset, the set-up of slots,
scratchpad, contexts, rings and interrupter, `Run`.
*Interaction.* The firmware may own the controller and use it until it is asked
to let go; the controller takes its time to halt, to reset and to start.
*Hard.* Six polling loops that must come in the right order, each for something
that does come; memory that may run out half way.
*Correct if* the controller is reset only when halted, runs in the end with the
registers as written and memory of its own behind them, and nothing is waited for
in vain.

### Device initialization (`kernel/usb/device.cpp`, `usb/xhci/device.cpp`) - modelled

*State.* `initialize_phase_`, `is_initialized_`, `num_configurations_`,
`class_drivers_` by endpoint, `event_waiters_` (four entries, by setup data);
in the xHCI device `setup_stage_map_` (16 entries, from the TRB whose completion
is awaited to the setup TRB) and the transfer rings.
*Operations.* `StartInitialize`, `OnControlCompleted`, `InitializePhase1` to `4`,
`OnEndpointsConfigured`, `ControlIn`, `ControlOut`, `InterruptIn`,
`OnTransferEventReceived`.
*Hard.* A protocol of four phases driven by completions; tables of fixed size
that fail silently; entries that are not removed when a transfer fails.
*Correct if* every transfer issued is answered to the one who issued it, the
phases are gone through once, and tables do not fill up over a long session.
`XhciPorts` has the phases as a counter, `UsbDevice` all of it for one device.

### Class drivers (`kernel/usb/classdriver/`) - modelled

*State.* HID base: `initialize_phase_`, report buffers; observers of keyboard
and mouse. *Operations.* `SetEndpoint`, `OnEndpointsConfigured`,
`OnControlCompleted`, `OnInterruptCompleted`, `OnDataReceived`.
*Interaction.* Callbacks from the device, and to the observers that move the
cursor and print keys. *Correct if* each report leads to exactly one next
request, and a driver with two endpoints is not configured twice.

### USB memory pool (`kernel/usb/memory.cpp`) - modelled

*State.* `alloc_ptr`. *Operations.* `AllocMem(size, alignment, boundary)`;
`FreeMem` does nothing.
*Hard.* Alignment first, then the boundary, then the end of the pool; the pool is
aligned to 64 bytes only, so where a page ends in it is the linker's choice.
*Correct if* blocks are aligned, disjoint, within the pool, and cross no boundary
that they are small enough not to cross.

### Frame allocator and heap (`kernel/memory_manager.cpp`, `newlib_support.c`) - modelled

*State.* The bitmap `alloc_map_`, `range_begin_`, `range_end_`; the program
break. *Operations.* `Allocate`, `Free`, `MarkAllocated`, `SetMemoryRange`,
`InitializeMemoryManager` from the memory map, `sbrk`.
*Hard.* The memory map is read once, with holes and reserved stretches in any
order, and nothing later would notice a frame wrongly taken for free; the search
has to start again behind a taken frame without passing over a run.
*Correct if* a frame is given out once, what is given out is usable memory, the
first fit is found whenever there is one, and the break stays in the heap.

### Layers, mouse and windows (`kernel/layer.cpp`, `mouse.cpp`, `window.cpp`, `graphics.*`, `frame_buffer.cpp`) - modelled

*State.* `layers_`, the stack of those shown, positions, the back buffer; the
mouse's position, buttons and the layer it drags.
*Operations.* `NewLayer`, `UpDown`, `Hide`, `Move`, `MoveRelative`, `Draw`,
`FindLayerByPosition`, `Mouse::OnInterrupt`.
*Interaction.* All on the main flow: the loop draws the counter, a USB report moves
the mouse (through the driver's observer), the console asks to have its layer drawn.
*Hard.* Only the areas thought to be touched are drawn again, over a back buffer that
keeps what earlier calls left; positions may be beyond the edges.
*Correct if* the stack holds each shown layer once in the intended order, and
after each operation the screen shows what a full redraw would.

### Console and logger (`kernel/console.cpp`, `logger.cpp`) - modelled

*State.* `buffer_`, cursor, writer or window. *Operations.* `PutString`,
`Newline`, `SetWriter`, `SetWindow`, `Refresh`; `printk` and `Log`, which print.
*Hard.* Two ways of scrolling and a change from the one to the other in the
middle of the text. *Correct if* what is on display is the text a terminal would
show, before and after the change, and the cursor stays inside.

### PCI scan and MSI (`kernel/pci.cpp`) - modelled

*State.* `devices` (32 entries), `num_device`; the configuration space of the
device picked. *Operations.* `ScanAllBus`, recursive over bridges; `ConfigureMSI`.
*Hard.* Multi-function devices, several host bridges, bridges; a list of
capabilities in any order; four layouts of MSI.
*Correct if* every function that can be reached is listed once as long as the
table has room, and the message asked for is what the device sends, with nothing
else of its configuration changed.

### Boot loader (`MikanLoaderPkg/Main.c`, `kernel/elf.hpp`) - modelled

*State.* The memory map with its key, the buffer of the file, the pages of the
kernel. *Operations.* `UefiMain`: memory map, files, buffer, pages,
`CopyLoadSegments`, `ExitBootServices`, entry.
*Interaction.* The firmware takes memory at any time, within calls and on timers,
and changes the key of its map when it does. *Hard.* The key that is used first
is always an old one; everything may fail; the zeros of the last segment reach
beyond the file. *Correct if* the kernel is complete in memory that is the
loader's when it is entered, with the map that the firmware left.

### The rest

Paging and segmentation (tables filled once), controller registers (as far as
used, in the modules named above), local APIC timer (no caller), fonts, errors and
stubs, build scripts: see [below](#what-is-not-modelled).

## The modules

```
XhciController   the host controller and the user     (environment)
   ^ EXTENDS
XhciPorts        the driver's port state machine  --INSTANCE-->  PortSequencer
   ^ EXTENDS                                        (refinement)  (abstract)
XhciPorts_proofs

EventRingSize    constants of the two
   ^ EXTENDS
EventLoop        main flow, interrupt handler, interrupter: events as counts
EventRing        controller and driver on the event ring  --INSTANCE-->  BoundedQueue
   ^ EXTENDS EventLoop, INSTANCE EventRing
EventPath        both at work on the same events  --as a property-->  EventLoop
   ^ EXTENDS
EventPath_proofs       (EventLoop and EventPath; EventRing_proofs, which it uses)

TrbRing          driver and controller on a ring  --INSTANCE-->  BoundedQueue
   ^ EXTENDS
TrbRing_proofs

FrameAllocator   bitmap, first fit, heap          --INSTANCE-->  FramePool
   ^ EXTENDS
FrameAllocator_proofs

UsbDevice        initialization, transfers, HID drivers  --INSTANCE-->  BoundedQueue
   ^ EXTENDS
MCUsbDevice            (and UsbDevice_proofs)

Layers           stack, drawing, mouse
Console          PutString, scrolling, screen and window  --INSTANCE-->  Terminal
   ^ EXTENDS both
Screen_proofs

PciScan, PciMsi, UsbMemory
   ^ EXTENDS
XhciStart        the start of the controller, beside firmware and controller
BootLoader       the loader, beside the firmware
   ^ EXTENDS both
Startup          from power on to the event loop
   ^ EXTENDS
MCStartup              (and Startup_proofs)
```

The cfg files instantiate the modules directly, since all constants are numbers,
sets of numbers and Booleans, but for `UsbDevice` and `Startup`: the
configuration descriptors of the one are defined in `MCUsbDevice`, the kernel
files, machines and capabilities of the other in `MCStartup`.

### XhciController

The hardware, described only as far as the driver relies on it; `PROJECT.json`
marks its actions as external.

| TLA+ | code or hardware |
| --- | --- |
| `portsc` | `PORTSC` of each port (CCS, PED, CSC, PRC), and whether the controller still owes a change event |
| `commands`, `events` | the command ring and the event ring, as sequences |
| `devices` | `DeviceManager::devices_` by slot, with the two contexts of the slot, and how far initialization is |
| `slots` | slots the controller has enabled |
| `budget` | what the user and a failing controller may still do (bounds) |
| `Plug`, `Unplug` | the user |
| `ReportPortChange` | Port Status Change Event; a change is reported only if no change bit was set |
| `ExecuteEnableSlot`, `ExecuteAddressDevice`, `ExecuteConfigureEndpoint`, `FailCommand` | execution of the command at the front, with its completion event |
| `CompleteTransfer`, `Report` | a control transfer of the initialization ends; a device reports |

A command fails when it cannot succeed (no free slot; the slot is not enabled or
its port is not), and otherwise only at the expense of `budget.fail`. A device
that is there when the kernel starts may or may not be announced by an event.
`slots` never shrinks, since the driver never disables a slot.

### XhciPorts

| TLA+ | code |
| --- | --- |
| `port_config_phase`, `addressing_port` | the variables of these names |
| `boot` | the loop variable `i` at the end of `Initialize` |
| `ConfigurePort` | one turn of that loop |
| `OnPortStatusChange` | `OnEvent(PortStatusChangeEventTRB)` |
| `OnEnableSlotCompleted`, `OnAddressDeviceCompleted`, `OnConfigureEndpointCompleted` | the three branches of `OnEvent(CommandCompletionEventTRB)` |
| `OnTransfer` | `OnEvent(TransferEventTRB)` |
| `ResetPort` | the function, as the outcome of a call |
| `ResetNextWaiting` | the scan for the next waiting port |
| `Reset` | `Port::Reset`, which spins until the reset is over |
| `AfterTransfer`, `IsInitialized` | `OnControlCompleted` and the initialization phases of the device |

Each handler runs to completion on the one flow of control, so it is one action.
While `Port::Reset` spins only the port under reset is waited for; a change of
the other ports in that time is the same as one just before or just after the
handler. The handlers read the queues at their front and the event is popped once
the handler has returned, as `ProcessEvents` does, error or not. `Ignored` is an
error return (or an uninteresting phase): the code returns before it has changed
anything.

### PortSequencer

What the comment at `xhci.cpp:35-46` promises: one port at a time is taken
through the stretch; a port that comes meanwhile waits; whoever leaves the
stretch passes it on. `XhciPorts` maps its eight phases on the four stages
`idle`, `waiting`, `owner` and `done`.

### EventLoop

All messages are alike, so the queue is its length. Events are numbered as they
are posted: `posted`, `handled` and `dequeued` count them, and the ring is the
difference. `pc` is where the main
flow is; `Step` is a step of it, possible only while the handler does not run.
`WriteDequeuePointer` is the two steps it is in the code, `ReadErdp` and
`WriteErdp`, because the register it reads and writes back holds `EHB`, which the
controller sets and a written 1 clears.
`Moderated` says whether the controller may put off an interrupt that is due
(interrupt moderation). The driver leaves the interrupter's moderation register
as it finds it, so both values are worth checking.

### EventPath

The event loop on the ring with its entries. The controller writes an entry and
its cycle bit and looks for room by the place in `ERDP`; the driver looks for an
event by the cycle bit at that place. A step of `EventPath` is a step of both
modules, or of `EventLoop` alone where it does not touch the ring, but what
depends on the ring is decided by the entries: `SeeFront` and `SeeNoFront` by
`HasFront`, `PostEntry` by the room in `Post`. That the counts of `EventLoop` come
to the same is the property `ImplementsEventLoop`.

### TrbRing, EventRing and BoundedQueue

`BoundedQueue` is what a ring is for: items go in and come out in order, at most
`Capacity` of them inside. Items are numbered, so that order, loss, duplication
and staleness all show in the number of the item got out last.

| TLA+ | code or hardware |
| --- | --- |
| `buf`, `cycle_bit`, `write_index` | the members of `Ring` |
| `StartTransfer`, `RingDoorbell` | `ControlIn`, `ControlOut`, `InterruptIn`, and the pushes of commands: one to three TRBs, then the doorbell |
| `PushData`, `PushControl` | `Push`, the two halves of `CopyToLast` |
| `LinkData`, `LinkControl` | the link TRB at the end of `Push`, likewise |
| `HearDoorbell`, `Consume`, `FollowLink`, `Rest` | the controller |
| `EventRing!HandleFront`, `Pop` | `ProcessEvents`, `ProcessEvent`: an event is dealt with and then popped |
| `erdp` | the dequeue pointer, which the driver keeps nowhere but in `ERDP` |

An entry is written in two steps, words 0 to 2 and then word 3 with the cycle
bit, since the controller reads the ring at any time. The order is that of the
comment in `CopyToLast`; the model takes it that the build keeps it. The link
costs no TRB a number, and is a step of its own for the controller, too.

`Push` never asks whether there is room. What the callers must keep is
`Outstanding <= Size - 2`, one less than the entries beside the link. With
`Size - 1` the controller may have consumed the last entry before the link and
not yet followed it; the driver then fills all of the next turn and writes the
link over with the next cycle bit, and the controller waits at it for ever
(`EveryTrbConsumed` fails). The command ring keeps the bound
(`CommandsMatchPhases` in `XhciPorts`: one command for each port at most, 32
entries).

### FrameAllocator and FramePool

`FramePool` is the promise: runs of usable frames, each frame to one party at a
time, and no refusal while a run is long enough.

| TLA+ | code |
| --- | --- |
| `memory_map`, `next`, `available_end` | the map and the two loop variables of `InitializeMemoryManager` |
| `alloc_map` | the bitmap, as the set of the frames whose bit is set |
| `range_begin`, `range_end` | the members of these names |
| `num_frames`, `start_frame_id`, `i` | the parameter and the loop variables of `Allocate` |
| `blocks` | what was given out and not given back; kept by nobody in the code |
| `heap_start`, `program_break`, `program_break_end` | `InitializeHeap` and `newlib_support.c` |
| `ReadDescriptor`, `SetMemoryRange`, `InitializeHeap` | start-up |
| `StartAllocate`, `NoEnoughMemory`, `FrameTaken`, `FrameFree`, `Found` | `Allocate`, one turn of its inner loop a step |
| `Free`, `Sbrk` | the functions; a refused `sbrk` changes nothing |

The unit is the frame: pages of a UEFI map and frames are both 4 KiB. The model
assumes what the code relies on and never checks: that the map is sorted, does not
overlap and lies within the 128 GiB of the bitmap; that `malloc` gives `sbrk` back no
more than it got; that a party frees what it got, and nobody the heap. `sbrk`
refuses an increment that would make the break equal to the end, so the last byte
of the heap is never used and `HeapInside` can say `<`.

### UsbDevice

One device from the moment it has its address. `XhciPorts` cares for the ports it
competes with; here the answers to its transfers matter.

| TLA+ | code |
| --- | --- |
| `port_config_phase` | that of the device's port, from `kAddressingDevice` on |
| `initialize_phase`, `is_initialized`, `ep_configs` | the members of these names |
| `class_drivers` | the endpoint numbers whose entry is set; there is one driver, since parsing stops at the first interface that has one |
| `control` | the control endpoint: TRBs on its ring, write index, `setup_stage_map_`, `event_waiters_` |
| `hid`, `hid_buf` | the HID driver; its buffer, which the device writes |
| `buf` | which answer the device's own `buf_` holds |
| `interrupt_ins`, `transfer_rings` | interrupt transfers outstanding; endpoints that have a ring |
| `device`, `sent`, `told` | what the device was told, what it reported, what the observers heard |
| `ControlTransfer`, `InterruptIn` | `ControlIn` and `ControlOut`; `InterruptIn` |
| `OnControlEvent`, `OnInterruptEvent`, `OnTransferFailed` | `OnTransferEventReceived` and all it calls, up to the continuation in `xhci.cpp` |
| `InitializePhase1` to `3`, `OnEndpointsConfigured`, `HIDControlCompleted`, `News` | the functions of the device and of the drivers |
| `ConfigureEndpoints` | that of `xhci.cpp`: the rings of the endpoints and the phase, or nothing if the port has no speed |
| `ControlStage`, `SendReport`, `Fail...`, `ExecuteConfigureEndpoint`, `PullOut` | controller, device and user |

A configuration descriptor is the sequence of its descriptors. The devices modelled
have a valid one that fits the buffer of 256 bytes, and not more endpoints than
`ep_configs_` has entries (`EpConfigEntries`), which the code checks nowhere
(`device.cpp:227`); both are in `ConfigurationsAssumption`.
Once the device is pulled out it answers and reports no more; what it sent before is
still on the event ring. If that happens before the last answer of the initialization
is handled, `ConfigureEndpoints` finds no speed at the port and gives up
(`xhci.cpp:459`), with the device initialized and the port not. What a
device plugged in later does at the port is in `XhciPorts`. An
entry of `setup_stage_map_` holds the request itself, where the code holds the
address of the setup TRB; that the TRB is still there is the last conjunct of
`AnswersFindTheirRequests`. The same conjunct is the bound that `TrbRing` assumes.

### Layers

A screen of a few pixels; what a window shows is one color, of `main_window` one that
changes with the counter. All runs on the main flow, so a call is an action.

| TLA+ | code |
| --- | --- |
| `layer_stack`, `pos`, `back_buffer`, `screen` | `layer_stack_`, `pos_` of each layer, `back_buffer_`, the frame buffer |
| `position`, `previous_pressed`, `drag_layer_id` | the members of `Mouse`; of the buttons only the left one matters |
| `Intersection` | `operator&` of rectangles, with the comparison it has |
| `Copy`, `DrawTo` | `FrameBuffer::Copy`, `Window::DrawTo` |
| `DrawArea`, `DrawLayer`, `Moved`, `UpDown` | `LayerManager::Draw` (both), `Move` and `MoveRelative`, `UpDown` |
| `InitializeLayer` to `DrawScreen` | the last part of the start-up |
| `CountUp`, `PutString`, `OnInterrupt` | the loop's drawing, `Console::PutString`, `Mouse::OnInterrupt` |

A buffer with what has been drawn on it is passed from operator to operator, as a call
draws several times. `Draw` of a layer that is not shown, which `InitializeMouse`
does, copies an area that was never set: any one, of which only the part on the screen
counts. (One of a negative width, which `memcpy` would take for a large number, is left
out.) The specification to compare with is
`Composed`, the color of a pixel when everything is drawn from scratch.

### BootLoader

Memory is a row of cells, some to a page, and a cell's content is the offset of the
file's cell that was copied there, zero, or junk.

| TLA+ | code or firmware |
| --- | --- |
| `loader` | where `UefiMain` is: one step for each call to the firmware |
| `memmap` | the variable of that name: the use of each page, and the key |
| `kernel_buffer`, `kernel_first` | `kernel_buffer`, `kernel_first_addr` |
| `page_type`, `map_key`, `boot_services` | the firmware's knowledge |
| `FirmwareAllocates` | a driver of the firmware takes a page |
| `KernelPages`, `AllocatePages` | `CalcLoadAddressRange`, `num_pages`, the call with `AllocateAddress` |
| `Loaded`, `CopyLoadSegments` | `CopyMem` and `SetMem` for each `PT_LOAD` |
| `ExitAtOnce`, `GetMapAgain`, `ExitAgain` | `ExitBootServices` with the old key, a new map, once more |
| `FailCall` | any call that fails: `Halt` |

Page 0 stands for the loader itself with its stack, where the buffer of the map is:
memory of the boot services, which the kernel may take over after it has read the
map. Segments are apart and the first begins a page and has the ELF header
(`BootLoaderAssumption`), as the linker lays them; the code relies on it where it
reads the entry point at 24 bytes behind `kernel_first_addr`.

### PciScan, PciMsi and UsbMemory

| TLA+ | code |
| --- | --- |
| `machine` | what the configuration space answers, by bus, device and function |
| `devices` | the table; `num_device` is its length |
| `scan_stack` | the loop variables of the calls of `ScanBus` and `ScanDevice` under way |
| `host` | the loop variable of `ScanAllBus` |
| `ScanFunction`, `AddDevice`, `SkipPlace`, `ReturnFromBus` | turns of the loops and their ends |
| `cap_addr`, `msi_cap_addr`, `msix_cap_addr` | the variables of `ConfigureMSI` |
| `cap_header`, `conf` | registers of the device's configuration space that begin a capability, and the others |
| `ReadMSICapability`, `WriteMSICapability`, `ConfigureMSIRegister` | the functions |
| `pool_base`, `alloc_ptr`, `blocks` | `memory_pool`, `alloc_ptr`, and what was handed out, kept by nobody in the code |
| `BlockAt`, `Allocated`, `AllocMem` | `AllocMem`: where, whether, and what it leaves behind |

Every function of device 0 on bus 0 is a host bridge, as the comment at
`pci.cpp:256-259` says (`PciScanAssumption`). What can be reached (`Reachable`) is what
is shown on the smallest set of buses that has the root buses and, with a bridge, the
bus behind it. A list of capabilities ends
(`PciMsiAssumption`): on one that does not, the walk at `pci.cpp:322` would not
either.

### XhciStart and Startup

| TLA+ | code or hardware |
| --- | --- |
| `start` | how far `Initialize`, `Controller::Initialize` and `Run` are |
| `xhc` | `xhc_dev` |
| `owner`, `legacy` | the two semaphores of `USBLEGSUP`; whether that register is there |
| `ControllerFound` | the controller as the driver finds it: the firmware's, nobody's, or handed over to the operating system already |
| `run_stop`, `reset`, `halted`, `not_ready` | bits of `USBCMD` and `USBSTS` |
| `op` | the other registers that the driver programs; `INTE` is the bit of `USBCMD` |
| `given`, `filled` | memory by purpose; scratchpad buffers so far |
| `PickController` to `WaitRunning` | the statements, in order; a polling loop is an action that waits |
| `FirmwareUses`, `FirmwareLetsGo` | the firmware runs the controller, and lets go of it at rest |
| `Halt`, `Start`, `FinishReset`, `GetReady` | the controller does as told, in its own time |

Of a controller whose OS semaphore is set `RequestHCOwnership` asks nothing and waits
for nothing (`xhci.cpp:300`). That is right as long as the firmware's is not set with
it, which would take somebody who asks before the kernel and goes on without an answer;
nothing in the repository does, and `ControllerFound` leaves that state out.
What is written to a controller in reset, or not ready, is lost. An address is the
place in the pool, and a structure of so many entries has so many bytes. The rings
and the contexts are looked at and a failure ends the kernel; the scratchpad's array
and buffers are not, and the model goes on with their null as the code does
(`RunsAsProgrammed` is therefore about the contexts, both rings and the table only).
`Startup` has the loader and then the kernel.

### Console and Terminal

A cell of a display is the set of glyphs drawn there since it was filled, since a glyph
is drawn over what is there; a character that has no glyph (a byte beyond the font)
leaves the cell as it is. `PutChar`, `DropChar`, `Newline` and `FinishString` are the
turns of the loop of `PutString` and its end; what is printed is any string. `Scroll`
has both ways of scrolling, `SetWindow` the change to the window with `Refresh`, as
`InitializeLayer` calls it. The frame buffer's `Initialize` fails only for pixel formats
with which the loader does not enter the kernel, so that this is one action. `Terminal`
is the text in rows and columns that moves up by a row at the end.

Definitions named `..._Mutant` are slips that a
change of the code might make (a dropped guard, a missing reset, an off-by-one).
Nothing refers to them: put in the place of the definition that follows, they
show which property notices.

## The runs

| run | instance | what it shows |
| --- | --- | --- |
| `xhci_replug` | 2 ports, 2 slots in any order, one device plugged in late, one pulled out, one failure, one report | one port at a time in the stretch; commands outstanding match the phases and fit the command ring; one device per port, on which both contexts agree; `kConfigured` means configured; the scratchpad entry survives without failures; phases only advance |
| `xhci_fair` | 3 ports, 3 slots, port 3 with a device nobody drives, one late plug, no unplugging, no failure | every device with a driver ends up configured; the driver implements `PortSequencer` |
| `xhci_stranded` | 3 ports, one device pulled out | fails, as expected: a connected port waits with nobody in the stretch |
| `event_path` | 2 initial messages, ring of 4, 9 events, interrupts at once | no lost wakeup, exclusion on the queue, bound of the queue; every event handled, once and in order; cycle bits and counts agree |
| `trb_ring` | ring of 6, at most 4 outstanding, transfers of 1 to 3 TRBs, 14 TRBs | each TRB is taken once, whole and in order, whenever the controller looks; none is left behind |
| `frame_allocator` | 6 frames, every map of up to 3 descriptors, heap of 2 frames of 2 bytes | blocks are disjoint and of usable memory, whatever was allocated and freed before; first fit; the break stays in the heap; `FramePool` is implemented; the search ends |
| `usb_device` | five devices (one endpoint; a driver behind an interface without; two endpoint numbers; two directions; no driver), a ring of 6, tables of 2, 2 and 1, 3 reports; the device may be pulled out or fail at any point | each answer finds its request although the tables are just large enough; reports are boot reports, reach the observers once and in order, one at a time; the device is asked again as long as it is there |
| `layers` | screen of 5 by 2, `main_window` of 2 by 2, cursor of 2 by 1 with one transparent pixel, reports that move by one | after every call the screen is as if drawn from scratch; a drag holds what it took; windows move with the mouse only |
| `layers_corner` | screen of 4 by 3, `main_window` of 1 by 1 | fails, as expected: a window dragged to the lower left disappears |
| `eventloop_moderated` | 1 initial message, ring of 2, 3 events, interrupts put off | fails, as expected: a clear of `EHB` is lost |
| `startup` | two kernel files in 9 pages, one page kept by the machine and one taken by the firmware; 1440 machines of up to 8 functions, a table of 4; 26 configuration spaces; controllers of the firmware, of nobody or handed over already, running or not, 0, 1 or 4 scratchpad buffers, 4 places of the pool | the kernel is complete, in memory of the loader's, with the map as it is; devices are found once; the message is as asked; blocks are as asked; the controller is reset when halted and runs as programmed; every start comes to an end |
| `console` | 3 rows of 3 columns, one character with a glyph and one without | the console is a terminal, on the screen, in the window and over the change |

Deadlock is checked in the runs of `EventPath`, `EventLoop` and `Layers` (the loop never
stops turning). It is not in the others: once all ports are configured and the user does
nothing, no transfer is started, a transfer has failed, the device is gone, the start is
over, or the loader or the kernel has given up, nothing happens, and that is how it
should be.

Type invariants are theorems and not properties of the runs, but for that of
`UsbDevice`, where the places in tables of fixed size are at stake: it is both.

### Bounds, and why they are enough

*Ports.* Contention needs one port in the stretch and one waiting; the choice of
the next needs two waiting; so three ports are where the scan for the next port
does all it can, in `xhci_fair` and `xhci_stranded`. Two are enough for properties of
a port and its device, with failures and replugging, and for exclusion, which is
proved for any number. *Slots.* The real number is 8; what matters is whether
there are enough; a shortage makes `EnableSlot` fail and report slot 0, as the failure
in `xhci_replug` does. *Plugs, unplugs, failures, reports.* Each is a disturbance at
any point of the sequence; one of each is combined with all the others in
`xhci_replug`. Without such a bound the state space is infinite, since the user
can flood the event ring with changes while the kernel draws.

*Events and ring of `EventPath`.* The ring of 4 is filled with 3 events and gone round
twice by 9, into the third turn; the 2 initial messages are the ones nobody sent (32 in
the code).

*Rings.* A ring of 6 with 4 outstanding lets the driver be ahead by almost a turn,
with a transfer of three TRBs before, at and across the link; 14 TRBs are two turns
and the wrap into the third, which gives both values of the cycle bit to
each entry twice.

*Frames.* Three descriptors on 6 frames give a hole or a reserved stretch before,
between and after available ones; with a heap of 2 there is room for several
more blocks, so that freeing leaves gaps shorter than, as long as and longer than
the next request. The number of requests and frees is not bounded.

*Device.* In the code a driver has at most 15 endpoint numbers, `setup_stage_map_` 16
entries, and the ring room for 30 TRBs, which is just what 15 requests for the boot
protocol take; in the run 2 numbers, 2 entries and room for 4. `ep_configs_` has 16
entries, in the run 2, as many as the largest device needs. `event_waiters_` has 4
entries, less than 15, which does no harm since they would all be the same; in the run
1 for 2. Three reports show a key going down, held, and up or down again; the codes
include one that is also a value of the modifier byte.

*Screen.* A report moves the mouse by at most one pixel, so that between two reports the
old and the new place overlap or touch; window and cursor can be partly beyond each
edge, and the window wholly beyond one. The screen of the passing run has two rows:
from three on the window can be where the third finding below bites, with a pixel more
than one row below the diagonal from the upper left corner, however wide it is.

*Start.* The kernel files have two segments that end within a page with zeros behind, a
header that is not of type `PT_LOAD`, and a single segment; in 9 pages there is room for
buffer and kernel in several ways and for none. The machines are all choices of what may
be at seven places on three buses: one or several host bridges, functions behind the
first, bridges to a bus, to a bus twice and back to their own, controllers of either
vendor in any order, and more functions than the table of 4. The devices have no MSI,
MSI alone, between other capabilities in an order that is not that of their addresses,
or MSI-X only, in all four layouts, with fewer, as many and more vectors than asked for.
The pool begins at each of the places that its alignment allows within a page. It has
room for everything, unless there are 4 scratchpad buffers: then there is none for the
last of them, for a ring or for the table, or, where the smaller pieces still fit, for
the buffer alone, which nobody notices. To try all of this with all would be of no use:
the kernel looks at nothing of how the loader came to enter it, so it is followed from
one boot (`Booted`); and all devices and all controllers are tried on one machine and
with one another's plain case (`Followed`).

*Console.* Of three rows one is scrolled out, one moves and one comes free; three
columns have two that are printed in and the one that never is.

The theorems below need none of these bounds, except that the counters of the
environment exist.

## Fairness

`XhciPorts!Fairness` assumes that the boot loop and the event loop keep running
(weak fairness of `ConfigurePort` and `ProcessEvent`: the loop at
`main.cpp:103-130` never blocks and, by `EventLoop`, never misses an event), and
that the controller executes commands, completes transfers and reports changes
eventually. Plugging, unplugging, failing and reporting are not obliged to happen.

`EventLoop!FairSpec` assumes that the processor goes on executing (weak fairness
of `MainLoop`) and that a due interrupt is raised in the end. The handler gets
strong fairness: a requested interrupt is taken at an instruction boundary with
interrupts enabled, and the loop has such boundaries in every turn but not
always, so weak fairness would not rule out that it is passed over for ever.
The controller is not obliged to post events.

`TrbRing!FairSpec` assumes that `Push` comes to its end, as it does not block, and that
the controller, once told by the doorbell, goes on; nobody has to start a transfer.
`EventRing!FairSpec` assumes `ProcessEvents`, which `EventLoop` justifies;
`EventPath!FairPathSpec` takes that place in the runs, with the fairness of
`EventLoop!FairSpec` for the steps on the ring. `FrameAllocator!FairSpec` assumes that
the search goes on, a loop that nothing blocks; nobody has to allocate.

`UsbDevice!FairSpec` assumes the event loop again, and that the controller carries
out what is on the control ring or fails it. A device need not report, nor the user
pull it out.

`MCStartup!FairSpec` assumes that the processor goes on executing in the loader and in
the driver, that a firmware that has been asked for the controller lets go of it in the
end, and that the controller halts, starts, comes out of reset and gets ready when it
is told to. The firmware need not do anything with the controller, nor take memory.

## The proofs

All proofs are for every value of the constants that the assumptions
`PortsAssumption`, `SlotsAssumption`, `EnvironmentAssumption`,
`EventLoopAssumption`, `RingAssumption`, `EventRingAssumption`,
`ConfigurationsAssumption`, `TablesAssumption`, `FramesAssumption`,
`BootLoaderAssumption`, `PciScanAssumption`, `PciMsiAssumption`,
`UsbMemoryAssumption`, `XhciStartAssumption`, `ScreenAssumption` and
`ConsoleAssumption` allow: any number of ports, slots, plugs, unplugs, failures and
reports; any size of queue and ring, any number of events and TRBs; any device with a
valid configuration, and tables of any size that its endpoints fit into; any number of
frames and descriptors, any size of heap and frame; any kernel file, memory, machine,
device, pool and controller; any screen, window and number of rows and columns, but
for the two theorems about what the screen shows, which name their conditions.

The library's induction theorems take a predicate as a parameter, and the provers here
cannot instantiate one. Where a proof needs an induction over numbers it goes by sets
instead: the numbers for which something is wrong have a least one (lemma
`LeastNumber`, from the well-foundedness of `<` as a relation), and that one is shown
not to be wrong. With it the value of a recursive function is known, too
(`MovedUp` in `Screen_proofs`, `EndpointsAsked` in `UsbDevice_proofs`).

### XhciPorts_proofs

`TypeCorrect`, `AddressingIsExclusive` and `OrderIsKept` rest on one inductive
invariant, `IInv`: the type invariant, `ExclusiveAddressing`, and
`EntryZeroUnused` (`port_config_phase[0]` is `kNotConnected`).
`ExclusiveAddressing` is an equivalence because both directions are needed: that
a port in the stretch is `addressing_port` makes the handler of `EnableSlot`
advance the right port; that `addressing_port` is in the stretch is what makes
`ResetPort` keep others out. `EntryZeroUnused` is needed because the code does
index with 0: `port_config_phase[addressing_port]` when nobody is addressed, and
the port of a context never written. It says that such an access matches no
phase and is ignored. That `TypeOK` is preserved carries the bounds of all these
accesses.

The argument goes by the operators first: `ResetPort` does one of three things
(lemma `ResetPortOutcome`), the scan for the next waiting port hands the stretch
to a waiting port or to nobody, and each handler changes one or two phases; then
one lemma per action. `OrderIsKept` uses the same outcomes under `IInv`.

What relates ports, slots, devices and rings needs more than that: `DevInv`, on top of
`IInv`. `PortsHaveDevices` says which phases have a device and that both contexts of it
name the port; `SlotsInUse` that only an enabled slot has one, and that slot 0, if it
has one, is that of the port in the stretch. `EnableSlotMatches`,
`AddressDeviceMatches` and `ConfigureEndpointMatches` say of each kind of command that
at most one is under way, on the command ring or as a completion on the event ring,
and in which phase; the second says "at most" because its handler drops a failure.
`Progress` says how far the device of a configured port is, `SlotsServe` that without a
failure no slot is lost, so that there are enough as long as there are as many as
ports. These parts hold one another up: that the completion of `EnableSlot` brings a
fresh slot needs the slots, that it is the one waited for needs the commands, that a
completion of `ConfigureEndpoint` reaches its own port needs the devices. From them
`PortsHaveOneDevice`, `ConfiguredIsReady`, `ScratchpadIsKept` and `CommandsMatch`. The
last is about cardinalities: the command ring is shown to be no longer than the slots by
an injection of its entries. Many steps leave all of the parts alone; lemma
`QuietStep` has what it takes for that (`QuietRings`, `DevicesKept`, `PhasesQuiet`).

`DriverImplementsSequencer` is the refinement of `PortSequencer`, under the hypothesis
`MaxUnplugs = 0`: the driver hands the turn to the lowest port that waits, and if the
device of that one is gone nobody has the turn. With no device pulled out a waiting port
is connected (`WaitingConnected`), the call of `ResetPort` takes effect, and each
handler is a step of the sequencer or none. `TurnComesUnlessUnplugged` follows; that the
hypothesis is needed is what the run `xhci_stranded` shows.

### EventPath_proofs

`TypeCorrect`, `DequeIsExclusive`, `QueueIsBounded` and `NoWakeupIsLost` rest on
`IInv`: types; `Exclusion` (the handler runs with interrupts disabled and never
starts in the critical section, and a message is there to be taken);
`Draining` (`ERDP` never passes the last event); `Acknowledging` (without
moderation `EHB` is set only while an event is left whose acknowledgement will
clear it, and is always seen set by the read of `ERDP`); and `Bounding`, which
strengthens `QueueBounded` by counting an interrupt not yet held back by `EHB`
as one that may still come. `NoWakeupIsLost` assumes `~Moderated`; the run
`eventloop_moderated` shows that it has to.

`PathImplementsLoop` says that the event loop on the ring does what the event loop
on counts does. It extends the one module and instantiates the proofs of the other: the
invariant `PathInv` is that of `EventRing_proofs`, for the ring that is part of the
path, and `CountsMatch`, that the loop's `dequeued` is the ring's number of events
popped. From it follows that `HasFront` and the room for an event are what the counts
say (`ViewsAgree`), so each step is one of `EventLoop`. Hence the theorems about
`EventLoop` hold of the path (`PathIsSafe`, `PathLosesNoWakeup`), and those of
the ring (`PathHandlesInOrder`).

### TrbRing_proofs and EventRing_proofs

`ImplementsQueue` (in both) is the refinement of `BoundedQueue`, and `TypeCorrect`
says that no index leaves the ring. A cycle bit alone says nothing; that it
tells new entries from old follows from where both sides are. `IInv` therefore
says what number every entry of the ring has (`EntriesInOrder`): with `TurnBegin`
the number of pushes at the beginning of this turn, the entries before
`write_index` are `TurnBegin + i + 1` with the cycle bit of the driver, the others
are of the turn before, with the opposite bit, save for the first words of the one
entry being written. `PlacesMatch` says that the controller is in the same turn
and not ahead, or in the turn before and beyond `write_index`; that it
cannot be overtaken is where `WithinLimits`, the number outstanding, is used.
`LinkInOrder` says that the link is not the controller's until it is written, and
`AtWork` ties the driver's place in the code to its indices. From these follows
lemma `OwnedIsNext`: an entry that the controller owns is the link or the next
TRB, which is what the step of the queue needs. The event ring is the same
with the parts exchanged and without a link; there the free entry that the
controller leaves before `ERDP` takes the place of `WithinLimits`.

### UsbDevice_proofs

`TypesAreKept`, `AnswersAreMatched`, `OnlyBootReports`, `ObserversAreToldRight` and
`OneReportAtATime` rest on one `UsbInv`, whose parts need one another. `RequestsMatch`
is `AnswersFindTheirRequests` with what makes it last: the places of completions to come
differ on the ring and on the event ring together, the entry found is of the request
that is completed, and one that has been posted has done what it is for (`Matched`).
`Stages` says which request is under way in each phase, and that none is when
`ConfigureEndpoints` has given up (`Unasked`): during the initialization one at a time,
with at most the status stage of the one before left on the ring (`OneAtATime`), so that
four places and one entry are enough. Then `OnEndpointsConfigured` asks for the boot
protocol once for each endpoint number, in one go, and `DriverFits` has the bound from
the assumption on the device: the numbers found by `InitializePhase2` are as many as the
descriptor promises. The loop is a recursive function, and its value is found by
induction (`Asked`): after `n` requests there are `2n` TRBs, in places that follow on
each other and so differ (`PlacesDiffer`), `n` entries and a waiter. `Reading` is about
reports: from the first answer on there is one interrupt transfer at most, on the device
or as an event; the buffer has the report sent last, the driver the one it told of last.
`ObserversToldRight` completes it.

### Startup_proofs

*The loader.* `KernelIsInPlace`, `KernelIsKept` and `LoaderWritesItsOwn` rest on `LoaderInv`: types;
`PagesGiven` (the pages of the buffer while it is in use and those of the kernel from
their allocation on are the loader's, and apart, since a page that is given is no
longer free); `MapCurrent` (a key that is current means a map that is, and after
`ExitBootServices` it stays so); `FileRead` and `KernelCopied` (what is in the buffer,
and then in the kernel's pages). The arithmetic is in lemmas about pages and cells:
`CellsInPages` says that rounding up gives pages enough, which `KernelCells` brings to
the segments. That the firmware may take pages at any time is harmless as it takes
free ones only.

*The start as a whole.* `KernelStaysInPlace` carries the loader's theorems over to the
start-up as a whole; the steps of the kernel leave the loader's variables alone, in the
model because they do not name them, in the code by the assumption that the kernel does
not write over itself. `ResetIsSafe`, `ControllerIsProgrammed` and `MemoryIsAsAsked`
rest on `StartInv`: types; `TakenOver` (the firmware has the controller until it is
asked for it, never after, and lets go of it at rest; one that is the operating system's
at the start is not the firmware's); `Rests` (between the order to stop and the reset
the controller comes to rest and stays there, and what waits for reset and readiness
really has waited); `HasBlocks` and `Programmed` (each structure and each register keeps
what it was given from its step on: a list of places in the code for each); and
`Pooled`, that all blocks are before the pointer, besides `BlocksAsAsked`. `TakenOver`
is needed in `Programmed`, since the firmware would change the registers. `NotCrossed`
and `BlockAtFacts` have the arithmetic of alignment and boundary: a boundary is a
multiple of the alignment, so that moving to it keeps the block aligned.

*MSI.* `MessagesAreAsAsked` rests on `MsiInv`: the walk is at a place of the list of
capabilities, whatever their order in the configuration space, an MSI capability before
that place has been noticed (`Walking`), and nothing is written before the walk is over.
`IsListOf` says what a list is: each capability at one place, each naming the next.

*The search for devices.* `EachIsFoundOnce` rests on `ScanInv`. The recursion is a
stack of the loops under way, so the invariant is about the stack (`Searched`): a
function that is shown on a bus begun is found exactly if the loops of that bus, if
there are any, are past it; no bus has two levels on the stack; and no bus is begun
that is not in all closed sets of buses. At the end the stack is empty, so all functions
on all buses begun are found, so the buses begun are closed, and they are the least
such set. That a bus is not begun twice needs that the bridges form a tree, that
a step of the loop leaves out nothing that answers needs that a device without further
functions shows none (`InDevice`, `Before`); when the table is full the function that
does not fit is one more than the table has.

### FrameAllocator_proofs

`TypeCorrect`, `BlocksAreDisjoint`, `HeapStaysInside`, `LowestIsTaken` and
`ImplementsFramePool` rest on one `IInv`. While the map is read, `MapRead` says that
before `available_end` a bit is set exactly if the frame is not usable, and that no
usable frame beyond it has been marked, by holes or by reserved stretches. From
`SetMemoryRange` on, `Accounting` says that the frames free in the range are the
usable ones but frame 0, less those of the blocks; without it nothing relates the
bitmap, which is all that `Free` and `Allocate` look at, to the memory. `Searching`
says that no run long enough begins before `start_frame_id`, and that the `i` frames
behind it are free: the one gives the first fit and makes a refusal right, the other
makes what is found free. `HeapFirst` ties `heap_start` to the place in the
start-up. `BlocksDisjoint` and `HeapInside` complete it.

### Screen_proofs

*The mouse.* `WindowIsHeld`, `WindowMovesWithMouse` and `MouseIsOnScreen` rest on
`DragInv`, which says nothing of what is drawn: where the mouse, its layer and the
window are, and that nothing is dragged before the event loop. The layer found under the
mouse when the button goes down is a window that has that point
(`FoundHasPoint`), and the window is moved by what is left of the movement when the edge
of the screen has stopped the mouse, so the mouse stays on it.

*What the screen shows.* `ScreenShowsLayers` compares the screen with a drawing from
scratch, and is not inductive: the back buffer has to be right, too, since the next call
draws over it. `SceneInv` says that from the first full drawing on both buffers are the
*scene*, the cursor over `main_window` over the desktop; that the stack has the layers
in the order of their creation; and that desktop and console stay where they are. Pixel
by pixel, drawing the stack from a layer on, in an area, leaves what `Overdrawn` says:
the scene inside the area as far as these layers make it up, the cursor wherever it is
(it does not mind the area), and outside it what was there before. `MovedIsScene` puts
two of these together, the area that a window has left and the area it has come to: a
pixel in neither shows the same before and after, and that is why `Move` need not draw
more. The drawings are the only place where the intersection of rectangles counts.
`WithinIntersection` says what it needs: a pixel of both rectangles is one of the
intersection if the x where the right one ends is not less than the y where the left one
begins. A pixel of the window at most one row below the diagonal makes that true of
every intersection on the way, of area, window and screen (`OpaqueShows`);
`ScreenIsLayers` therefore asks for `InTheClear`, from the end of the start-up on, and
for a screen no more than one row higher than wide. TLC finds `ScreenShowsLayers`
violated with two rows instead of one, of either kind. In the code `main_window` is
clear of the corner at first (160 by 52 at (300, 100), `main.cpp:51-58`), until the user
drags it there.

*The console.* `ConsoleIsTerminal` is the refinement of `Terminal`. `ConsoleInv` says
that as long as the console draws on the screen each row is drawn from the row of the
buffer, whose text ends at the cursor; and that to the right of and below the cursor
nothing is drawn, in the window, too, where the buffer is behind. The first makes the
change to the window show nothing new, the second makes the glyph drawn the only one in
its cell. Scrolling in the window copies pixel lines one after the other, of
which each is the source of the next copy: that none has been overwritten before
(`MovedUp`) is an induction over the lines.

### Only model-checked

The liveness properties (`EveryDeviceConfigured`, `EveryEventHandled`,
`EveryTrbConsumed`, `EveryRequestAnswered`, `AlwaysAskedAgain`, `KernelStarts`), since
fairness is beyond this prover. Of `ScreenShowsLayers`, which does not hold for every
screen, as the third finding below shows, nothing is proved beyond the places where
`ScreenIsLayers` states it.

## Findings and known limits

1. **A waiting port can be left behind** (run `xhci_stranded`,
   `xhci.cpp:258-266`). Port 1 is in the stretch, ports 2 and 3 wait. Device 2 is
   pulled out. When port 1 leaves the stretch, the scan finds port 2,
   `ResetPort` returns success because nothing is connected, and the scan ends:
   port 3 waits although nobody has the stretch. A port that waits is not
   helped by later change events either.
2. **A clear of `EHB` can be lost** (run `eventloop_moderated`, `ring.cpp:97`).
   If the controller raises a moderated interrupt between the read and the write
   of `ERDP`, `EHB` is set and is not cleared by the write. If that event was the
   last on the ring, no interrupt ever comes again.
3. **A window at the lower left is not drawn** (run `layers_corner`,
   `graphics.hpp:87`). The intersection of rectangles compares an x with a y. A window
   whose right edge is less than its top is held to be off the screen: with
   `main_window` 160 wide, at the left edge of the screen from row 161 on.
4. Known limits that no doc of the repository contradicts and that the runs
   therefore only work around: when `AddressDevice` fails, or the device goes away
   between reset and address, `addressing_port` is never given up and no other
   port is served (`EveryDeviceConfigured` and `ImplementsSequencer` are checked
   without unplugging and failures); a port never goes back to `kNotConnected`, so a device
   plugged in again at a port is not served; a failed `EnableSlot` makes a
   device of slot 0, which overwrites the scratchpad entry (`ScratchpadKept` is
   stated for no failure and enough slots); a failed `ConfigureEndpoint` is
   taken for a success (`ConfiguredMeansReady` is stated for no failure). A
   transfer that fails is not tried again, so a device is silent after its first
   failure (`AlwaysAskedAgain` is stated up to a halt, or the end of the device). A key
   whose code equals the modifier byte of the previous report is not notified when it
   goes down, because
   the search goes over all of that report (`keyboard.cpp:19`; the exception in
   `ObserversToldRight`): with the left Alt key held, that is the key A.
   The console's layer is given the desktop's window (`layer.cpp:205`), so that what is
   printed after the start-up is drawn into a window nobody sees (in `Console`,
   `frame_buffer` is `Covered` from then on; `ImplementsTerminal` is about what the console
   draws to).
5. Known limits of the start-up, likewise in the models and contradicted by no doc.
   The first `ExitBootServices` (`Main.c:574`) never succeeds, as its key is from before
   the allocations; the second try is what works. For a screen whose pixel format
   is neither RGB nor BGR the loader prints, which is a boot service, after it has
   left them (`Main.c:611`). What `ConfigureMSI` returns is not looked at
   (`xhci.cpp:556`), so that a controller without MSI is started all the same and no
   interrupt ever comes. The upper half of the message address is left as it was found
   (`pci.cpp:164`). A bridge that leads back to a bus already searched is searched again,
   until the table is full and the kernel stops (`pci.cpp:42`). A scratchpad for which there is no
   memory is entered as null (`xhci.cpp:387`).

## What is not modelled

- *The data of transfers and contexts* in `XhciPorts`: only what decides a branch
  is kept (phase, success, port, whether a class driver exists).
- *Paging and segmentation*: tables that straight-line code fills once, with constants,
  before anything else runs; the map is the identity and is not changed later.
- *Local APIC timer*: functions of one register access each, which nothing calls.
- *Fonts* but for what has a glyph, *errors and runtime stubs*: pure drawing, names.
- *Registers as bit fields*: `XhciStart` has the values that are written and waited for.
  `SetPointer` of `DCBAAP`, `CRCR` and the like drops the low bits of an address, which are
  clear by the alignment of the blocks, and in `DCBAAP` also what is above bit 31 (the
  field has 26 bits, `registers.hpp:172`), which is clear as the pool is part of a
  kernel linked low.
- *`ReadBar`*: two reads that change nothing. What a base address is good for is
  outside any model of control.
- *Device allocations that fail* (`devmgr.cpp:79`, `device.cpp`): the code writes through
  the null; what happens then is undefined.
- *The IDT, descriptors that end too early or have more endpoints
  than `ep_configs_` has entries, memory maps that are not
  sorted or exceed the bitmap*: the code assumes them right, and no doc says more.
- *Build scripts*: not part of the program.

## Plan

Recursion only as functions or folds, so that each module can be proved about.

| step | module | abstract specification | theorems |
| --- | --- | --- | --- |
| 1 (done) | `XhciController`, `XhciPorts` | `PortSequencer` | types, exclusion, order |
| 2 (done) | `EventLoop` | - | types, exclusion, bound, no lost wakeup |
| 3 (done) | `TrbRing`, `EventRing` | `BoundedQueue` | types; for every size the rings are the queue |
| 4 (done) | `UsbDevice` | `BoundedQueue` of one report | types, answers find their requests, what observers are told, one report at a time |
| 5 (done) | `FrameAllocator` | `FramePool` | types, disjoint blocks, heap, first fit, refinement |
| 6 (done) | `Layers` | a screen drawn from scratch | a drag holds its window, windows move with the mouse; the screen shows the layers where the intersection is right |
| 7 (done) | `EventPath` | `EventLoop` and `BoundedQueue` | refinement, and with it safety and order |
| 8 (done) | `BootLoader`, `PciScan`, `PciMsi`, `UsbMemory`, `XhciStart`, `Startup` | - | kernel in place, kept, own memory; reset, programming, blocks; messages, functions found once |
| 9 (done) | `Console` | `Terminal` | the console is a terminal |
| 10 (done) | more proofs about step 1 | - | `CommandsMatchPhases`, `OneDevicePerPort`, `ConfiguredMeansReady`, `ScratchpadKept`; `PortSequencer` is implemented |
| 11 | `XhciPorts`, `Layers` | the device of `UsbDevice` | left: that the counter of `AfterTransfer` is what `UsbDevice` does; `ScreenShowsLayers` with a weaker condition than `InTheClear`, on the places of the window before and after a report |

`UsbDevice` has in `OnControlCompleted` what `AfterTransfer` of `XhciPorts` has as a
counter; that the one refines the other is to be shown. Of the transfer rings, the
control ring keeps the bound that `TrbRing` assumes by `AnswersFindTheirRequests`, and
an interrupt ring by `ReportsOneByOne` (one transfer at a time).
