----------------------------- MODULE MCStartup -----------------------------
(***************************************************************************)
(* An instance of Startup for TLC: two kernels, every place of memory for  *)
(* what the firmware keeps and takes; over a thousand machines with up to  *)
(* three buses; devices with the capabilities in several orders and all    *)
(* layouts of MSI; and controllers in every state the firmware may leave.  *)
(***************************************************************************)
EXTENDS Startup, TLC

Segment0(vaddr, offset, filesz, memsz) ==
  [load |-> TRUE, vaddr |-> vaddr, offset |-> offset, filesz |-> filesz, memsz |-> memsz]

\* Two segments that end within a page, the second mostly zeros, and a header
\* that is not about memory; and a kernel in one piece.
MCImages ==
  {[size |-> 5, headers |-> {Segment0(4, 0, 3, 3), Segment0(8, 3, 1, 3),
                             [load |-> FALSE, vaddr |-> 0, offset |-> 0, filesz |-> 0, memsz |-> 18]}],
   [size |-> 3, headers |-> {Segment0(6, 0, 3, 4)}]}

-----------------------------------------------------------------------------
(* Machines: what may be at the places beside the host bridge.             *)

Function(class, vendor, multi) == [class |-> class, vendor |-> vendor, multi |-> multi, secondary |-> 0]
Bridge(bus, multi) == [class |-> "bridge", vendor |-> "other", multi |-> multi, secondary |-> bus]
Absent == Function("absent", "none", FALSE)

HostChoices ==
  {<<Function("host", "intel", FALSE), Absent>>,
   <<Function("host", "intel", TRUE), Absent>>,
   <<Function("host", "intel", TRUE), Function("host", "intel", FALSE)>>}

Kinds ==
  <<{Absent, Function("xhci", "intel", TRUE), Bridge(1, FALSE), Bridge(1, TRUE)},
    {Absent, Function("ehci", "intel", FALSE), Bridge(2, FALSE)},
    {Absent, Function("xhci", "other", FALSE), Function("xhci", "other", TRUE), Bridge(2, FALSE), Bridge(1, FALSE)},
    {Absent, Function("xhci", "intel", FALSE)},
    {Absent, Function("xhci", "other", FALSE)},
    {Absent, Function("xhci", "intel", FALSE)}>>

Places == <<<<0, 1, 0>>, <<0, 1, 1>>, <<1, 0, 0>>, <<1, 0, 1>>, <<1, 1, 0>>, <<2, 0, 0>>>>

Machine(hosts, a, b, c, d, e, f) ==
  LET all == (<<0, 0, 0>> :> hosts[1]) @@ (<<0, 0, 1>> :> hosts[2])
               @@ (Places[1] :> a) @@ (Places[2] :> b) @@ (Places[3] :> c)
               @@ (Places[4] :> d) @@ (Places[5] :> e) @@ (Places[6] :> f)
  IN  [p \in {q \in DOMAIN all : all[q] # Absent} |-> all[p]]

MCMachines ==
  {Machine(hosts, a, b, c, d, e, f) :
     hosts \in HostChoices, a \in Kinds[1], b \in Kinds[2], c \in Kinds[3],
     d \in Kinds[4], e \in Kinds[5], f \in Kinds[6]}

PlainMachine ==
  Machine(<<Function("host", "intel", FALSE), Absent>>, Function("xhci", "intel", TRUE),
          Function("ehci", "intel", FALSE), Absent, Absent, Absent, Absent)

-----------------------------------------------------------------------------
(* Devices: capabilities in registers 2, 8 and 9, the middle one of six.   *)

Capability(id, next, capable, wide, mask) ==
  [id |-> id, next |-> next, msi_enable |-> 0, multi_msg_capable |-> capable,
   multi_msg_enable |-> 0, addr_64_capable |-> wide, per_vector_mask_capable |-> mask]

Other(id, next) == Capability(id, next, 0, FALSE, FALSE)

Lists(capable, wide, mask) ==
  {<<0, <<>>>>,
   <<2, 2 :> Capability("msi", 0, capable, wide, mask)>>,
   <<9, (9 :> Other("pm", 2)) @@ (2 :> Capability("msi", 8, capable, wide, mask)) @@ (8 :> Other("msix", 0))>>,
   <<8, (8 :> Other("msix", 9)) @@ (9 :> Other("pm", 0))>>}

Space(list) ==
  [first |-> list[1], header |-> list[2],
   conf |-> [r \in (0..10) \ DOMAIN list[2] |-> IF r = 4 THEN 0 ELSE 20 + r]]

MCConfSpaces ==
  {Space(list) : list \in UNION {Lists(capable, wide, mask) :
                                   capable \in 0..2, wide \in BOOLEAN, mask \in BOOLEAN}}

PlainSpace == Space(<<2, 2 :> Capability("msi", 0, 0, TRUE, FALSE)>>)

-----------------------------------------------------------------------------
(* What is tried with what.                                                *)

\* The kernel is followed from where one boot leaves it.
Booted ==
  /\ image.size = 3 /\ disturbances = 0 /\ kernel_buffer = 1
  /\ \A p \in PageSet : page_type[p] # "reserved"

IsPlain(chosen) == chosen = <<FALSE, FALSE, 0, 6>>
Chosen == <<legacy, run_stop, scratchpads, pool_base>>

\* On every machine with one controller and one device, and on one machine with
\* every controller, or with every device.
Followed ==
  /\ start = "pick" => machine = PlainMachine \/ IsPlain(Chosen') \/ xhc' = <<>>
  /\ start = "message" /\ msi = "idle" =>
       space' = PlainSpace \/ (machine = PlainMachine /\ IsPlain(Chosen))

MCNext == Loader \/ (Booted /\ Kernel /\ Followed)

MCSpec == Init /\ [][MCNext]_startup_vars

\* The processor goes on executing, and the firmware and the controller do what
\* is asked of them in the end.
FairSpec ==
  /\ MCSpec
  /\ WF_startup_vars(UefiMain /\ UNCHANGED kernel_vars)
  /\ WF_startup_vars(Driver /\ UNCHANGED loader_vars)
  /\ WF_startup_vars(FirmwareLetsGo /\ UNCHANGED <<driver_vars, pci_vars, msi_vars, pool, loader_vars>>)
  /\ WF_startup_vars((Halt \/ Start \/ FinishReset \/ GetReady)
                       /\ UNCHANGED <<driver_vars, pci_vars, msi_vars, pool, loader_vars>>)

\* However the firmware was using it, the controller is running in the end, or
\* the kernel has given up: no search goes on for ever, not through bridges that
\* lead back to their own bus, and no wait is for what does not come.
KernelStarts == start = "scan" ~> start \in {"running", "stopped"}

=============================================================================
