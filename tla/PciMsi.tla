------------------------------- MODULE PciMsi -------------------------------
(***************************************************************************)
(* How a PCI device is told to send its interrupts as messages: the walk   *)
(* through its capabilities and the rewriting of the MSI capability        *)
(* (ConfigureMSI in src/kernel/pci.cpp), which has four layouts, with or   *)
(* without a second half of the address, with or without mask bits.        *)
(*                                                                         *)
(* The configuration space is taken by the register of 4 bytes: cap_header *)
(* has the registers that begin a capability, conf all others. An operator *)
(* named _Mutant is what a plausible slip would have made of the           *)
(* definition after it; nothing refers to it.                              *)
(***************************************************************************)
EXTENDS Integers, FiniteSets

CONSTANTS
  ConfSpaces,        \* [first, header, conf]: first capability, and the registers
  MessageAddress,    \* 0xfee00000 with the number of the boot processor's APIC
  MessageData,       \* trigger mode, delivery mode and vector
  VectorExponent     \* logarithm of the number of vectors asked for

Header == [id : {"pm", "msi", "msix"}, next : Nat, msi_enable : 0..1, multi_msg_capable : 0..5,
           multi_msg_enable : 0..5, addr_64_capable : BOOLEAN, per_vector_mask_capable : BOOLEAN]

\* The capabilities in the order of the list that starts at first, and no others.
IsListOf(order, c) ==
  LET n == Cardinality(DOMAIN c.header)
      From(k) == IF k <= n THEN order[k] ELSE 0
  IN  /\ \A at \in DOMAIN c.header : \E k \in 1..n : at = order[k]
      /\ c.first = From(1)
      /\ \A k \in 1..n : c.header[order[k]].next = From(k + 1)

\* The list of capabilities ends, and it has each capability there is.
ASSUME PciMsiAssumption ==
  /\ \A c \in ConfSpaces :
       /\ IsFiniteSet(DOMAIN c.header) /\ DOMAIN c.header \subseteq Nat \ {0}
       /\ c.header \in [DOMAIN c.header -> Header]
       /\ c.conf \in [DOMAIN c.conf -> Nat]
       /\ \E order \in [1..Cardinality(DOMAIN c.header) -> DOMAIN c.header] : IsListOf(order, c)
  /\ {MessageAddress, MessageData, VectorExponent} \subseteq Nat

VARIABLES
  space,         \* the configuration space as it is found
  cap_header,    \* its registers that begin a capability
  conf,          \* its other registers
  cap_addr,      \* the capability to look at next, 0 at the end
  msi_cap_addr,  \* the MSI capability seen last, 0 if none
  msix_cap_addr, \* the same of MSI-X
  msi            \* "idle", "walking", or the outcome

msi_vars == <<space, cap_header, conf, cap_addr, msi_cap_addr, msix_cap_addr, msi>>

Blank == [first |-> 0, header |-> <<>>, conf |-> <<>>]

MsiInit ==
  /\ space = Blank
  /\ cap_header = space.header /\ conf = space.conf
  /\ cap_addr = 0 /\ msi_cap_addr = 0 /\ msix_cap_addr = 0
  /\ msi = "idle"

\* With one device or another to be configured.
BeginWalk ==
  /\ msi = "idle"
  /\ msi' = "walking"
  /\ space' \in ConfSpaces
  /\ cap_header' = space'.header /\ conf' = space'.conf
  /\ cap_addr' = space'.first
  /\ UNCHANGED <<msi_cap_addr, msix_cap_addr>>

ReadCapabilityHeader ==
  /\ msi = "walking" /\ cap_addr # 0
  /\ msi_cap_addr' = IF cap_header[cap_addr].id = "msi" THEN cap_addr ELSE msi_cap_addr
  /\ msix_cap_addr' = IF cap_header[cap_addr].id = "msix" THEN cap_addr ELSE msix_cap_addr
  /\ cap_addr' = cap_header[cap_addr].next
  /\ UNCHANGED <<space, cap_header, conf, msi>>

\* The data are always taken to be after both halves of the address.
DataAt_Mutant(at) == at + 3

\* Registers of the MSI capability at an address.
DataAt(at) == IF cap_header[at].addr_64_capable THEN at + 3 ELSE at + 2

ReadMSICapability(at) ==
  [header |-> cap_header[at],
   msg_addr |-> conf[at + 1],
   msg_upper_addr |-> IF cap_header[at].addr_64_capable THEN conf[at + 2] ELSE 0,
   msg_data |-> conf[DataAt(at)],
   mask_bits |-> IF cap_header[at].per_vector_mask_capable THEN conf[DataAt(at) + 1] ELSE 0,
   pending_bits |-> IF cap_header[at].per_vector_mask_capable THEN conf[DataAt(at) + 2] ELSE 0]

WriteMSICapability(at, cap) ==
  /\ cap_header' = [cap_header EXCEPT ![at] = cap.header]
  /\ conf' = [r \in DOMAIN conf |->
       CASE r = at + 1 -> cap.msg_addr
         [] r = DataAt(at) -> cap.msg_data
         [] r = at + 2 /\ cap.header.addr_64_capable -> cap.msg_upper_addr
         [] r = DataAt(at) + 1 /\ cap.header.per_vector_mask_capable -> cap.mask_bits
         [] r = DataAt(at) + 2 /\ cap.header.per_vector_mask_capable -> cap.pending_bits
         [] OTHER -> conf[r]]

Vectors(header) ==
  IF header.multi_msg_capable <= VectorExponent THEN header.multi_msg_capable ELSE VectorExponent

ConfigureMSIRegister ==
  LET cap == ReadMSICapability(msi_cap_addr)
  IN  WriteMSICapability(msi_cap_addr,
        [cap EXCEPT !.header.multi_msg_enable = Vectors(cap.header),
                    !.header.msi_enable = 1,
                    !.msg_addr = MessageAddress,
                    !.msg_data = MessageData])

\* At the end of the list; MSI-X is not implemented.
FinishWalk ==
  /\ msi = "walking" /\ cap_addr = 0
  /\ IF msi_cap_addr # 0
       THEN ConfigureMSIRegister /\ msi' = "kSuccess"
       ELSE /\ msi' = IF msix_cap_addr # 0 THEN "kNotImplemented" ELSE "kNoPCIMSI"
            /\ UNCHANGED <<cap_header, conf>>
  /\ UNCHANGED <<space, cap_addr, msi_cap_addr, msix_cap_addr>>

MsiNext == BeginWalk \/ ReadCapabilityHeader \/ FinishWalk

-----------------------------------------------------------------------------
(* Properties.                                                             *)

\* The registers of an MSI capability in the order of the PCI standard.
Layout(at) ==
  LET h == space.header[at]
      wide == IF h.addr_64_capable THEN 1 ELSE 0
  IN  [address |-> at + 1, data |-> at + 2 + wide]

\* The device ends up sending the message asked for on no more vectors than it
\* has, if it can at all, and nothing else of its configuration is changed: not
\* the upper half of the address, the mask bits, the list of capabilities or any
\* register around.
MessageAsAsked ==
  /\ msi = "kSuccess" => \E at \in DOMAIN space.header :
       /\ space.header[at].id = "msi"
       /\ conf = [space.conf EXCEPT ![Layout(at).address] = MessageAddress,
                                    ![Layout(at).data] = MessageData]
       /\ \E n \in 0..space.header[at].multi_msg_capable :
            /\ n <= VectorExponent
            /\ cap_header = [space.header EXCEPT ![at].msi_enable = 1, ![at].multi_msg_enable = n]
  /\ msi # "kSuccess" => conf = space.conf /\ cap_header = space.header
  /\ msi \in {"kNotImplemented", "kNoPCIMSI"} =>
       \A at \in DOMAIN space.header : space.header[at].id # "msi"

=============================================================================
