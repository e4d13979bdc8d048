---------------------------- MODULE EndpointQueue ----------------------------
(***************************************************************************)
(* What a gadget driver may expect of the queue of a bulk endpoint: the    *)
(* requests it submits are carried out by the bus one after the other, in  *)
(* the order in which they were submitted, and given back in that order,   *)
(* each with the outcome it really had.  A request may be cancelled.       *)
(*                                                                         *)
(* Order is promised only while ordered is TRUE: it is lost when the       *)
(* controller halts at a request, or the first one is cancelled, while     *)
(* others are waiting, and comes back when the queue is empty.             *)
(***************************************************************************)
EXTENDS Integers, Sequences, SequencesExt

CONSTANT Reqs

VARIABLES
    pending,    \* the requests submitted and not given back, in order
    moved,      \* those of them the bus has carried out
    failed,     \* those of them at which the controller has halted
    status,     \* how each request was given back the last time
    ordered

vars == <<pending, moved, failed, status, ordered>>

Waiting == {pending[k] : k \in DOMAIN pending} \ (moved \cup failed)

\* The k-th request leaves the queue with status s.
Leaves(k, s) ==
    /\ pending' = RemoveAt(pending, k)
    /\ moved' = moved \ {pending[k]} /\ failed' = failed \ {pending[k]}
    /\ status' = [status EXCEPT ![pending[k]] = s]

Init ==
    /\ pending = <<>> /\ moved = {} /\ failed = {}
    /\ status = [r \in Reqs |-> "idle"]
    /\ ordered = TRUE

Submit(r) ==
    /\ \A k \in DOMAIN pending : pending[k] # r
    /\ pending' = Append(pending, r)
    /\ status' = [status EXCEPT ![r] = "inprogress"]
    /\ UNCHANGED <<moved, failed, ordered>>

\* There was no room for a request, which its status does not tell.
Refuse(r) ==
    /\ \A k \in DOMAIN pending : pending[k] # r
    /\ status' = [status EXCEPT ![r] = "inprogress"]
    /\ UNCHANGED <<pending, moved, failed, ordered>>

\* A request's turn comes when no earlier one is waiting.
Turn(k) == pending[k] \in Waiting /\ (ordered => \A j \in 1 .. k - 1 : pending[j] \notin Waiting)

Move ==
    /\ \E k \in DOMAIN pending : Turn(k) /\ moved' = moved \cup {pending[k]}
    /\ UNCHANGED <<pending, failed, status, ordered>>

Fail ==
    /\ \E k \in DOMAIN pending : Turn(k) /\ failed' = failed \cup {pending[k]}
    /\ ordered' = ordered \/ (~ordered' /\ \E q, r \in Waiting : q # r)
    /\ UNCHANGED <<pending, moved, status>>

Return ==
    /\ pending # <<>>
    /\ \/ Head(pending) \in moved  /\ Leaves(1, "ok")
       \/ Head(pending) \in failed /\ Leaves(1, "error")
    /\ ordered' = (ordered \/ pending' = <<>>)

Cancel ==
    \E k \in DOMAIN pending :
        /\ Leaves(k, "gone")
        /\ ordered' = \/ pending' = <<>>
                      \/ ordered /\ (k = 1 => Waiting \subseteq {pending[1]})

CancelAll ==
    /\ pending # <<>>
    /\ pending' = <<>> /\ moved' = {} /\ failed' = {}
    /\ status' = [r \in Reqs |-> IF \E k \in DOMAIN pending : pending[k] = r THEN "gone" ELSE status[r]]
    /\ ordered' = TRUE

Next ==
    \/ \E r \in Reqs : Submit(r) \/ Refuse(r)
    \/ Move \/ Fail \/ Return \/ Cancel \/ CancelAll

Spec == Init /\ [][Next]_vars
=============================================================================
