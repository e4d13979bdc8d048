------------------------------ MODULE BulkOnly ------------------------------
(***************************************************************************)
(* What a USB Mass Storage Bulk-only device promises its host, as          *)
(* file_storage.c uses the protocol: a command block wrapper, some data,   *)
(* exactly one status wrapper with the same tag whose residue accounts for *)
(* the data.  A malformed wrapper is not answered at all; only a reset     *)
(* helps.                                                                  *)
(***************************************************************************)
EXTENDS Integers

CONSTANT Sizes      \* the amounts of data a host may announce

VARIABLES
    phase,          \* ready, busy, status, stuck or reset
    tag,            \* number of the command
    size, moved,    \* data announced, data moved so far
    csw             \* the status wrapper that waits for the host

vars == <<phase, tag, size, moved, csw>>

None == [tag |-> 0, residue |-> 0, status |-> "none"]

Init == phase = "ready" /\ tag = 0 /\ size = 0 /\ moved = 0 /\ csw = None

\* The host sends a command.
Command(s) ==
    /\ phase = "ready"
    /\ phase' = "busy" /\ tag' = tag + 1 /\ size' = s
    /\ UNCHANGED <<moved, csw>>

\* The host sends something else.
Malformed ==
    /\ phase = "ready"
    /\ phase' = "stuck" /\ tag' = tag + 1
    /\ UNCHANGED <<size, moved, csw>>

\* Data moves, never more than announced.
Move ==
    /\ phase = "busy"
    /\ moved' \in moved + 1 .. size
    /\ UNCHANGED <<phase, tag, size, csw>>

\* The device answers.
Answer ==
    /\ phase = "busy" /\ phase' = "status"
    /\ \E s \in {"pass", "fail", "phase"} :
          csw' = [tag |-> tag, residue |-> size - moved, status |-> s]
    /\ UNCHANGED <<tag, size, moved>>

Forget(p) == phase' = p /\ size' = 0 /\ moved' = 0 /\ csw' = None /\ UNCHANGED tag

\* The host takes the answer.
Take == phase = "status" /\ Forget("ready")

Reset == phase # "reset" /\ Forget("reset")

Recover == phase = "reset" /\ Forget("ready")

Next == (\E s \in Sizes : Command(s)) \/ Malformed \/ Move \/ Answer \/ Take
        \/ Reset \/ Recover

Spec == Init /\ [][Next]_vars

=============================================================================
