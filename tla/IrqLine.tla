------------------------------- MODULE IrqLine -------------------------------
(***************************************************************************)
(* One interrupt line as the drivers of chapter 20 use it, and the life of *)
(* the module that sits on it.  The interrupt core is not part of the      *)
(* repository; what the drivers rely on is:                                *)
(*   - request_irq may fail, and then the module's init fails;             *)
(*   - the handler of one line never runs twice at a time;                 *)
(*   - synchronize_irq waits for a handler in flight and stops no new one; *)
(*   - free_irq unlinks the handler and then waits for the one in flight.  *)
(* After free_irq and the module's exit the module's text is freed.        *)
(***************************************************************************)
VARIABLES
    module,     \* the module's life: see Phase
    top         \* where the top half stands; "idle": no handler in flight

line == <<module, top>>

Phase == {"out", "starting", "in", "stopping", "stopped", "leaving",
          "unlinked", "freed", "failed", "oops"}

\* The line may deliver an interrupt to the driver.
Linked == module \in {"in", "stopping", "stopped", "leaving"}

\* The module's code and data are there.
TextPresent == module \notin {"freed", "failed", "oops"}

LineInit == module = "out" /\ top = "idle"

\* A handler is entered, at its first operation's successor pc.
Enter(pc) ==
    /\ Linked
    /\ top = "idle"
    /\ top' = pc
    /\ UNCHANGED module

\* The handler in flight goes from one operation to the next, or returns.
Step(from, to) ==
    /\ top = from
    /\ top' = to
    /\ UNCHANGED module

RequestIrq(from) ==
    /\ module = from
    /\ module' \in {"in", "failed"}
    /\ UNCHANGED top

\* from: where the module stands when it calls synchronize_irq
SynchronizeIrq(from) ==
    /\ module = from
    /\ top = "idle"
    /\ module' = "leaving"
    /\ UNCHANGED top

UnlinkIrq ==
    /\ module = "leaving"
    /\ module' = "unlinked"
    /\ UNCHANGED top

FreeIrq ==
    /\ module = "unlinked"
    /\ top = "idle"
    /\ module' = "freed"
    /\ UNCHANGED top

GiveBackLine(from) == SynchronizeIrq(from) \/ UnlinkIrq \/ FreeIrq
=============================================================================
