---------------------------- MODULE MCUsbDevice ----------------------------
(***************************************************************************)
(* Devices for checking UsbDevice: one endpoint; an interface without a    *)
(* driver before the one that counts and one with a driver behind it; two  *)
(* endpoint numbers for one driver; one number with both directions; no    *)
(* driver at all.                                                          *)
(***************************************************************************)
EXTENDS UsbDevice

Interface(protocol, n) == [type |-> "interface", protocol |-> protocol, num_endpoints |-> n]

Endpoint(number, in, interrupt) ==
  [type |-> "endpoint", number |-> number, in |-> in, interrupt |-> interrupt]

HIDDescriptor == [type |-> "other"]

Mouse == <<Interface("mouse", 1), HIDDescriptor, Endpoint(1, TRUE, TRUE)>>

MouseBehindStorage ==
  <<Interface("other", 2), Endpoint(1, TRUE, FALSE), Endpoint(2, FALSE, FALSE)>>
    \o <<Interface("mouse", 1), HIDDescriptor, Endpoint(3, TRUE, TRUE)>>
    \o <<Interface("keyboard", 1), HIDDescriptor, Endpoint(4, TRUE, TRUE)>>

KeyboardInOut ==
  <<Interface("keyboard", 2), HIDDescriptor, Endpoint(1, TRUE, TRUE), Endpoint(2, FALSE, TRUE)>>

KeyboardOneNumber ==
  <<Interface("keyboard", 2), HIDDescriptor, Endpoint(1, FALSE, TRUE), Endpoint(1, TRUE, TRUE)>>

Storage == <<Interface("other", 1), Endpoint(1, TRUE, FALSE)>>

SomeConfigurations ==
  {Mouse, MouseBehindStorage, KeyboardInOut, KeyboardOneNumber, Storage}

=============================================================================
