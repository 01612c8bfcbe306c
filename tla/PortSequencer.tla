---------------------------- MODULE PortSequencer ----------------------------
(***************************************************************************)
(* What the comment at src/kernel/usb/xhci/xhci.cpp:35-46 promises of the  *)
(* root hub ports: a port is taken through reset, slot and address as one  *)
(* stretch, one port at a time; a port that comes while another is in the  *)
(* stretch waits, and whoever leaves the stretch passes it on.             *)
(***************************************************************************)
CONSTANTS Ports, None  \* None is not one of Ports

VARIABLES owner, stage

Stage == {"idle", "waiting", "owner", "done"}

Init ==
  /\ owner = None
  /\ stage = [p \in Ports |-> "idle"]

Acquire(p) ==
  /\ owner = None
  /\ stage[p] = "idle"
  /\ owner' = p
  /\ stage' = [stage EXCEPT ![p] = "owner"]

Wait(p) ==
  /\ owner # None
  /\ stage[p] = "idle"
  /\ stage' = [stage EXCEPT ![p] = "waiting"]
  /\ UNCHANGED owner

\* The owner is through and passes the stretch on, unless nobody waits for it.
Release(p) ==
  /\ owner = p
  /\ \/ /\ \A q \in Ports : stage[q] # "waiting"
        /\ owner' = None
        /\ stage' = [stage EXCEPT ![p] = "done"]
     \/ \E q \in Ports :
          /\ stage[q] = "waiting"
          /\ owner' = q
          /\ stage' = [stage EXCEPT ![p] = "done", ![q] = "owner"]

Next == \E p \in Ports : Acquire(p) \/ Wait(p) \/ Release(p)

Spec == Init /\ [][Next]_<<owner, stage>>
=============================================================================
