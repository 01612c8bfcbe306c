------------------------------ MODULE Startup ------------------------------
(***************************************************************************)
(* From power on to the event loop: the boot loader (BootLoader) enters    *)
(* the kernel, and that finds the PCI devices and sets the USB controller  *)
(* running (XhciStart), one after the other in one flow of control.        *)
(***************************************************************************)
EXTENDS BootLoader, XhciStart

kernel_vars == <<start_vars, pci_vars, msi_vars, pool>>
startup_vars == <<loader_vars, kernel_vars>>

Init == LoaderInit /\ StartInit

Loader == LoaderNext /\ UNCHANGED kernel_vars

\* The kernel's share, once it is entered.
Kernel == loader = "entered" /\ StartNext /\ UNCHANGED loader_vars

Next == Loader \/ Kernel

Spec == Init /\ [][Next]_startup_vars

=============================================================================
