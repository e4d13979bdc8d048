------------------------------- MODULE ArcUdc -------------------------------
(***************************************************************************)
(* The request queue of a bulk endpoint in the controller driver           *)
(* (arcotg_udc.c).  A request is handed to the controller as a chain of    *)
(* transfer descriptors (dTDs) in memory; the chains of the queued         *)
(* requests are linked to one another while the controller is working its  *)
(* way along them, so that driver and controller race at the end of the    *)
(* chain.  The registers ENDPTPRIME, ENDPTSTAT, ENDPTCOMPLETE and the trip *)
(* wire ATDTW of USBCMD are there to settle the race.                      *)
(*                                                                         *)
(* The driver runs on one core and, on these paths, with interrupts off:   *)
(* its operations never overlap, but the controller acts between any two   *)
(* of their accesses to memory or registers.                               *)
(***************************************************************************)
EXTENDS Integers, Sequences, SequencesExt

CONSTANTS Reqs,     \* the requests of the endpoint
          NoReq,    \* not a request
          Zero,     \* those with req.zero: a packet of no bytes may follow, in a second dTD
          Quiet     \* those the gadget may submit with req.no_interrupt

ASSUME ArcUdcAssumption == NoReq \notin Reqs /\ Zero \subseteq Reqs /\ Quiet \subseteq Reqs

VARIABLES
    configured, \* ep->desc is set
    queue,      \* ep->queue
    status,     \* req->req.status
    count,      \* req->dtd_count, 0 for a request that is not queued
    quiet,      \* the queued requests with no_interrupt: no DTD_IOC in their last dTD
    td,         \* the dTDs in memory
    cpu,        \* where the driver is
    enabled,    \* EPCTRL_RX_ENABLE or EPCTRL_TX_ENABLE of the endpoint
    prime,      \* its bit in ENDPTPRIME
    complete,   \* its bit in ENDPTCOMPLETE
    atdtw,      \* USB_CMD_ATDTW
    qhnext,     \* next_dtd_ptr of its queue head
    hw,         \* the controller: its phase, its dTD, the next one it has read
    stranded,   \* auxiliary: a request waits for which the endpoint is not primed
    overtaken   \* auxiliary: the dTD the controller is at was freed

regs  == <<enabled, prime, complete, atdtw, qhnext>>
reqs  == <<queue, status, count, quiet, td>>
ghost == <<stranded, overtaken>>
vars  == <<configured, reqs, cpu, regs, hw, ghost>>

Tds == Reqs \X {1, 2}
T   == <<NoReq, 0>>         \* DTD_NEXT_TERMINATE

Idle == [pc |-> "idle", ret |-> "idle", req |-> NoReq, next |-> NoReq, primed |-> FALSE]

TdType  == [st : {"free", "active", "done", "error"}, next : Tds \cup {T}]
CpuType == [pc : {"idle", "test", "trip", "stat", "check", "irq", "dequeue", "nuke"},
            ret : {"idle", "irq"}, req : Reqs \cup {NoReq}, next : Reqs \cup {NoReq},
            primed : BOOLEAN]
HwType  == [phase : {"idle", "active", "advance"}, cur : Tds \cup {T}, next : Tds \cup {T}]

TypeOK ==
    /\ configured \in BOOLEAN
    /\ queue \in Seq(Reqs) /\ \A j, k \in DOMAIN queue : queue[j] = queue[k] => j = k
    /\ status \in [Reqs -> {"idle", "inprogress", "ok", "error", "gone"}]
    /\ count \in [Reqs -> 0 .. 2] /\ quiet \subseteq Reqs
    /\ td \in [Tds -> TdType]
    /\ cpu \in CpuType
    /\ enabled \in BOOLEAN /\ prime \in BOOLEAN /\ complete \in BOOLEAN /\ atdtw \in BOOLEAN
    /\ qhnext \in Tds \cup {T}
    /\ hw \in HwType
    /\ stranded \in BOOLEAN /\ overtaken \in BOOLEAN

HwIdle == [phase |-> "idle", cur |-> T, next |-> T]

\* The endpoint has been enabled and nothing is queued.
Init ==
    /\ configured = TRUE
    /\ queue = <<>>
    /\ status = [r \in Reqs |-> "idle"]
    /\ count = [r \in Reqs |-> 0] /\ quiet = {}
    /\ td = [t \in Tds |-> [st |-> "free", next |-> T]]
    /\ cpu = Idle
    /\ enabled = TRUE /\ prime = FALSE /\ complete = FALSE /\ atdtw = FALSE
    /\ qhnext = T /\ hw = HwIdle
    /\ stranded = FALSE /\ overtaken = FALSE

Queued        == {queue[k] : k \in DOMAIN queue}
TdsOf(r)      == {<<r, k>> : k \in 1 .. count[r]}
HeadTd(r)     == <<r, 1>>
TailTd(r)     == <<r, count[r]>>

\* DTD_IOC: the last dTD of a request interrupts, unless the gadget does not want it.
Ioc(t) == t = TailTd(t[1]) /\ t[1] \notin quiet

\* Mutant: the first dTD speaks for the request.
process_ep_req_First(r) == IF td[HeadTd(r)].st = "done" THEN "ok" ELSE
                           IF td[HeadTd(r)].st = "error" THEN "error" ELSE "uncomplete"

\* process_ep_req: the dTDs in order, up to the first that is not done.
process_ep_req(r) ==
    LET bad == {k \in 1 .. count[r] : td[<<r, k>>].st # "done"}
    IN IF bad = {} THEN "ok"
       ELSE IF \E k \in bad : td[<<r, k>>].st = "error" /\ \A j \in bad : k <= j
            THEN "error" ELSE "uncomplete"

Unfinished(rs) == {r \in rs : process_ep_req(r) = "uncomplete"}

Place(r) == CHOOSE k \in DOMAIN queue : queue[k] = r

\* The request behind r in the queue.
Behind(r) == IF Place(r) = Len(queue) THEN NoReq ELSE queue[Place(r) + 1]

\* ENDPTSTAT: the endpoint is primed and the controller has work for it.
EndptStat == hw.phase # "idle"

-----------------------------------------------------------------------------
(* Queueing a request.                                                     *)

\* update_qh: the controller is told to start at the first dTD of r.  It may have
\* been there already, between the linking of the request and the look at
\* ENDPTSTAT; then it has nothing to do, and takes the bit back at once.
update_qh(r) == qhnext' = HeadTd(r) /\ prime' = (td'[HeadTd(r)].st = "active")

\* The end of fsl_ep_queue: the request is put on the list.
Enqueue ==
    /\ queue' = Append(queue, cpu.req)
    /\ cpu' = [cpu EXCEPT !.pc = cpu.ret, !.req = NoReq, !.primed = FALSE]

\* fsl_req_to_dtd: a chain of n active dTDs, and a link to it when the queue is not empty.
Chain(r, n) ==
    [t \in Tds |->
        IF t[1] = r
        THEN IF t[2] > n THEN td[t]
             ELSE [st |-> "active", next |-> IF t[2] = n THEN T ELSE <<r, t[2] + 1>>]
        ELSE IF queue # <<>> /\ t = TailTd(queue[Len(queue)])
             THEN [td[t] EXCEPT !.next = HeadTd(r)]
             ELSE td[t]]

\* The tests at the head of fsl_ep_queue.  It returns with nothing changed, as it
\* does when the device has no speed yet.
Bogus(r) == r \in Queued \/ ~configured

\* fsl_ep_queue up to the first look at the registers: with an empty queue the
\* endpoint is primed at once, else the request is linked to the last one.
fsl_ep_queue(r, n, no_interrupt) ==
    /\ ~Bogus(r)
    /\ status' = [status EXCEPT ![r] = "inprogress"]
    /\ count' = [count EXCEPT ![r] = n]
    /\ quiet' = IF no_interrupt THEN quiet \cup {r} ELSE quiet
    /\ td' = Chain(r, n)
    /\ IF queue = <<>>
       THEN update_qh(r) /\ queue' = <<r>> /\ UNCHANGED cpu
       ELSE cpu' = [cpu EXCEPT !.pc = "test", !.ret = cpu.pc, !.req = r]
            /\ UNCHANGED <<queue, prime, qhnext>>
    /\ UNCHANGED <<configured, enabled, complete, atdtw, hw, ghost>>

\* fsl_ep_queue without memory for a dTD: the request is not queued, but looks it.
NoMemory(r) ==
    /\ ~Bogus(r)
    /\ status' = [status EXCEPT ![r] = "inprogress"]
    /\ UNCHANGED <<configured, queue, count, quiet, td, cpu, regs, hw, ghost>>

\* fsl_queue_td: a controller that has yet to start will find the link.
TestPrime ==
    /\ cpu.pc = "test"
    /\ IF prime THEN Enqueue ELSE cpu' = [cpu EXCEPT !.pc = "trip"] /\ UNCHANGED queue
    /\ UNCHANGED <<configured, status, count, quiet, td, regs, hw, ghost>>

\* The controller holds the trip wire down while it reads where to go on.
SetTripwire ==
    /\ cpu.pc = "trip"
    /\ atdtw' = (hw.phase # "advance")
    /\ cpu' = [cpu EXCEPT !.pc = "stat"]
    /\ UNCHANGED <<configured, reqs, enabled, prime, complete, qhnext, hw, ghost>>

ReadStat ==
    /\ cpu.pc = "stat"
    /\ cpu' = [cpu EXCEPT !.pc = "check", !.primed = EndptStat]
    /\ UNCHANGED <<configured, reqs, regs, hw, ghost>>

\* Mutant: ENDPTSTAT is believed whatever has become of the trip wire.
CheckTripwire_Once ==
    /\ cpu.pc = "check"
    /\ UNCHANGED <<configured, status, count, quiet, td, enabled, complete, hw, ghost>>
    /\ atdtw' = FALSE /\ Enqueue
    /\ IF cpu.primed THEN UNCHANGED <<prime, qhnext>> ELSE update_qh(cpu.req)

\* The controller takes the trip wire down when ENDPTSTAT may be out of date.
CheckTripwire ==
    /\ cpu.pc = "check"
    /\ UNCHANGED <<configured, status, count, quiet, td, enabled, complete, hw, ghost>>
    /\ IF ~atdtw THEN cpu' = [cpu EXCEPT !.pc = "trip"] /\ UNCHANGED <<queue, prime, atdtw, qhnext>>
       ELSE /\ atdtw' = FALSE /\ Enqueue
            /\ IF cpu.primed THEN UNCHANGED <<prime, qhnext>> ELSE update_qh(cpu.req)

-----------------------------------------------------------------------------
(* Giving requests back.                                                   *)

\* done: the gadget has the request back, and its dTDs are free.
done(r, st) ==
    /\ queue' = RemoveAt(queue, Place(r))
    /\ status' = [status EXCEPT ![r] = st]
    /\ count' = [count EXCEPT ![r] = 0]
    /\ quiet' = quiet \ {r}

Free(tds, rs) == [t \in Tds |-> IF t[1] \in rs THEN [st |-> "free", next |-> T] ELSE tds[t]]

FirstReq == IF queue = <<>> THEN NoReq ELSE Head(queue)

\* Mutant: ENDPTCOMPLETE is cleared when the queue has been looked at.
dtd_complete_irq_Late ==
    \/ /\ cpu.pc = "idle" /\ complete
       /\ cpu' = [cpu EXCEPT !.pc = "irq", !.ret = "irq", !.next = FirstReq]
       /\ UNCHANGED <<configured, reqs, regs, hw, ghost>>
    \/ /\ cpu.pc = "irq"
       /\ IF cpu.next = NoReq \/ (cpu.next # NoReq /\ process_ep_req(cpu.next) = "uncomplete")
          THEN cpu' = Idle /\ complete' = FALSE /\ UNCHANGED <<reqs, ghost>>
          ELSE /\ done(cpu.next, process_ep_req(cpu.next))
               /\ td' = Free(td, {cpu.next})
               /\ cpu' = [cpu EXCEPT !.next = Behind(cpu.next)]
               /\ stranded' = (stranded /\ queue' # <<>>) /\ UNCHANGED <<overtaken, complete>>
       /\ UNCHANGED <<configured, enabled, prime, atdtw, qhnext, hw>>

\* dtd_complete_irq: ENDPTCOMPLETE is cleared, then the finished requests are
\* given back one by one.  The one behind is remembered before done is called.
dtd_complete_irq ==
    \/ /\ cpu.pc = "idle" /\ complete
       /\ complete' = FALSE
       /\ cpu' = [cpu EXCEPT !.pc = "irq", !.ret = "irq", !.next = FirstReq]
       /\ UNCHANGED <<configured, reqs, enabled, prime, atdtw, qhnext, hw, ghost>>
    \/ /\ cpu.pc = "irq"
       /\ IF cpu.next = NoReq \/ (cpu.next # NoReq /\ process_ep_req(cpu.next) = "uncomplete")
          THEN cpu' = Idle /\ UNCHANGED <<reqs, ghost>>
          ELSE /\ done(cpu.next, process_ep_req(cpu.next))
               /\ td' = Free(td, {cpu.next})
               /\ cpu' = [cpu EXCEPT !.next = Behind(cpu.next)]
               /\ stranded' = (stranded /\ queue' # <<>>) /\ UNCHANGED overtaken
       /\ UNCHANGED <<configured, regs, hw>>

\* The completion handler of a network adapter (rx_complete) submits the request
\* again, in the middle of dtd_complete_irq; the storage gadget's handlers do not.
CallbackRequeues(r) ==
    /\ cpu.pc = "irq"
    /\ status[r] \in {"ok", "error"}
    /\ fsl_ep_queue(r, 1, FALSE) \/ NoMemory(r)

\* The gadget submits a request.  A network adapter (eth_start_xmit) wants no
\* interrupt for most of those it sends at high speed.
GadgetQueues(r, n, no_interrupt) ==
    /\ cpu.pc = "idle" /\ enabled /\ (no_interrupt => r \in Quiet)
    /\ fsl_ep_queue(r, n, no_interrupt)
GadgetRefused(r) == cpu.pc = "idle" /\ enabled /\ NoMemory(r)

-----------------------------------------------------------------------------
(* Cancelling requests.                                                    *)

\* fsl_ep_fifo_flush waits until the controller has let go of the endpoint.
fsl_ep_fifo_flush == hw.phase # "advance" /\ hw' = HwIdle /\ prime' = FALSE

\* fsl_ep_dequeue: the endpoint is disabled ...
fsl_ep_dequeue(r) ==
    /\ cpu.pc = "idle" /\ enabled /\ r \in Queued
    /\ enabled' = FALSE
    /\ cpu' = [cpu EXCEPT !.pc = "dequeue", !.req = r]
    /\ UNCHANGED <<configured, reqs, prime, complete, atdtw, qhnext, hw, ghost>>

\* ... if the request is the first, the transfer is flushed, and the endpoint is
\* not primed again for those behind it; if not, it is taken out of the chain ...
Unlink(r) ==
    IF r = Head(queue)
    THEN /\ fsl_ep_fifo_flush
         /\ td' = Free(td, {r})
         /\ stranded' = (Queued # {r} /\ (stranded \/ Unfinished(Queued \ {r}) # {}))
         /\ UNCHANGED overtaken
    ELSE LET prev == queue[Place(r) - 1]
         IN /\ td' = Free([td EXCEPT ![TailTd(prev)].next = td[TailTd(r)].next], {r})
            /\ overtaken' = \/ prime /\ qhnext \in TdsOf(r)
                            \/ hw.phase = "active" /\ hw.cur \in TdsOf(r)
                            \/ hw.phase = "advance" /\ hw.next \in TdsOf(r)
            /\ UNCHANGED <<hw, prime, stranded>>

\* ... and it is given back.
Dequeued ==
    /\ cpu.pc = "dequeue"
    /\ Unlink(cpu.req)
    /\ done(cpu.req, "gone")
    /\ enabled' = TRUE
    /\ cpu' = Idle
    /\ UNCHANGED <<configured, complete, atdtw, qhnext>>

\* reset_irq: a bus reset.
reset_irq ==
    /\ cpu.pc = "idle"
    /\ complete' = FALSE
    /\ cpu' = [cpu EXCEPT !.pc = "nuke"]
    /\ UNCHANGED <<configured, reqs, enabled, prime, atdtw, qhnext, hw, ghost>>

\* done, for all of them.
AllDone ==
    /\ queue' = <<>>
    /\ status' = [r \in Reqs |-> IF r \in Queued THEN "gone" ELSE status[r]]
    /\ count' = [r \in Reqs |-> IF r \in Queued THEN 0 ELSE count[r]]
    /\ quiet' = quiet \ Queued
    /\ td' = Free(td, Queued)

\* Mutant: the controller is not told.
nuke_NoFlush ==
    /\ UNCHANGED <<hw, prime>>
    /\ AllDone
    /\ stranded' = FALSE /\ UNCHANGED overtaken

\* nuke: everything queued is given back.
nuke ==
    /\ fsl_ep_fifo_flush
    /\ AllDone
    /\ stranded' = FALSE /\ UNCHANGED overtaken

ResetQueues ==
    /\ cpu.pc = "nuke" /\ nuke
    /\ cpu' = Idle
    /\ UNCHANGED <<configured, enabled, complete, atdtw, qhnext>>

\* fsl_ep_disable switches the endpoint off and then takes the lock.
fsl_ep_disable ==
    /\ cpu.pc = "idle" /\ configured
    /\ IF enabled THEN enabled' = FALSE /\ UNCHANGED <<configured, reqs, prime, hw, ghost>>
       ELSE nuke /\ configured' = FALSE /\ UNCHANGED enabled
    /\ UNCHANGED <<cpu, complete, atdtw, qhnext>>

fsl_ep_enable ==
    /\ cpu.pc = "idle" /\ ~configured
    /\ configured' = TRUE /\ enabled' = TRUE
    /\ UNCHANGED <<reqs, cpu, prime, complete, atdtw, qhnext, hw, ghost>>

-----------------------------------------------------------------------------
(* The controller.                                                         *)

HwStarts ==
    /\ prime /\ hw.phase = "idle"
    /\ prime' = FALSE
    /\ hw' = [phase |-> "active", cur |-> qhnext, next |-> T]
    /\ UNCHANGED <<configured, reqs, cpu, enabled, complete, atdtw, qhnext, ghost>>

\* The host has taken or sent the data of a dTD: the controller writes its
\* status back and reads where to go on.
HwMoves ==
    /\ hw.phase = "active" /\ enabled
    /\ td' = [td EXCEPT ![hw.cur].st = "done"]
    /\ complete' = (complete \/ Ioc(hw.cur))
    /\ atdtw' = FALSE
    /\ hw' = [hw EXCEPT !.phase = "advance", !.next = td[hw.cur].next]
    /\ UNCHANGED <<configured, queue, status, count, quiet, cpu, enabled, prime, qhnext, ghost>>

HwAdvances ==
    /\ hw.phase = "advance"
    /\ hw' = IF hw.next = T THEN HwIdle ELSE [phase |-> "active", cur |-> hw.next, next |-> T]
    /\ UNCHANGED <<configured, reqs, cpu, regs, ghost>>

\* The controller reports an error and halts the endpoint.
HwFails ==
    /\ hw.phase = "active" /\ enabled
    /\ td' = [td EXCEPT ![hw.cur].st = "error"]
    /\ complete' = TRUE /\ atdtw' = FALSE
    /\ hw' = HwIdle
    /\ stranded' = (stranded \/ Unfinished(Queued \ {hw.cur[1]}) # {})
    /\ UNCHANGED <<configured, queue, status, count, quiet, cpu, enabled, prime, qhnext, overtaken>>

-----------------------------------------------------------------------------
\* What a controller does that works on freed memory is not modelled.
Undefined == overtaken /\ UNCHANGED vars

Driver == ~overtaken /\ (TestPrime \/ SetTripwire \/ ReadStat \/ CheckTripwire
                         \/ dtd_complete_irq \/ Dequeued \/ ResetQueues)
Gadget == /\ ~overtaken
          /\ \/ \E r \in Reqs : CallbackRequeues(r) \/ fsl_ep_dequeue(r)
             \/ \E r \in Reqs, q \in BOOLEAN : GadgetQueues(r, 1, q)
             \/ \E r \in Zero, q \in BOOLEAN : GadgetQueues(r, 2, q)
             \/ \E r \in Reqs : GadgetRefused(r)
             \/ fsl_ep_disable \/ fsl_ep_enable
Controller == ~overtaken /\ (HwStarts \/ HwAdvances)
Bus        == ~overtaken /\ (HwMoves \/ HwFails)

Next == Driver \/ Gadget \/ (~overtaken /\ reset_irq) \/ Controller \/ Bus \/ Undefined

Spec == Init /\ [][Next]_vars

\* The driver's code runs on, the controller goes on with its work, the host
\* keeps asking for data or sending it, and a call to disable the endpoint ends.
\* The host tries again after a moment in which the endpoint was off, and an
\* interrupt is taken in the end, however often the gadget calls the driver.
FairSpec ==
    /\ Spec
    /\ WF_vars(Driver) /\ WF_vars(Controller) /\ SF_vars(Bus)
    /\ SF_vars(~overtaken /\ dtd_complete_irq)
    /\ WF_vars(~overtaken /\ ~enabled /\ fsl_ep_disable)

-----------------------------------------------------------------------------
(* Properties.                                                             *)

\* The dTD at which the controller will go on.
HwPosition ==
    IF prime THEN qhnext
    ELSE CASE hw.phase = "active"  -> hw.cur
           [] hw.phase = "advance" -> hw.next
           [] hw.phase = "idle"    -> T

\* What is still to be done for the queue, its order, and what comes first in it.
Outstanding ==
    {t \in UNION {TdsOf(r) : r \in Queued} :
        td[t].st = "active" /\ process_ep_req(t[1]) = "uncomplete"}

Precedes(s, t) ==
    \E j, k \in DOMAIN queue :
        /\ s[1] = queue[j] /\ t[1] = queue[k]
        /\ j < k \/ (j = k /\ s[2] < t[2])

First(tds) ==
    IF tds = {} THEN T ELSE CHOOSE t \in tds : \A s \in tds : s = t \/ Precedes(t, s)

\* Between two calls of the driver, what lies before the controller is exactly
\* what is still to be done for the queued requests, in their order: no request
\* falls off the end of the chain when the controller gets there while it is
\* being linked.  Not so where the driver leaves requests behind (stranded).
ChainIsQueue ==
    (cpu.pc \in {"idle", "irq"} /\ ~stranded /\ ~overtaken) =>
        /\ HwPosition = First(Outstanding)
        /\ \A t \in Outstanding : td[t].next = First({s \in Outstanding : Precedes(t, s)})

\* The controller is never at, or about to go to, a dTD that was freed, and so
\* never moves data for a request the gadget has back; the one exception is
\* fsl_ep_dequeue of a request it has come to (overtaken).
NoFreedTd ==
    overtaken \/ (HwPosition # T => td[HwPosition].st # "free")

\* The driver implements the queue a gadget driver expects.
Linking == cpu.pc \in {"test", "trip", "stat", "check"}
Pending == IF Linking THEN Append(queue, cpu.req) ELSE queue
PendingWith(st) == {r \in {Pending[k] : k \in DOMAIN Pending} : process_ep_req(r) = st}

Abstract == INSTANCE EndpointQueue WITH
                pending <- Pending, moved <- PendingWith("ok"), failed <- PendingWith("error"),
                status <- status, ordered <- ~stranded
ImplementsEndpointQueue == Abstract!Spec

\* A request is given back once the last dTD of it, or of one queued behind it, is
\* to interrupt, so that whoever waits for it goes on.  One with no_interrupt and
\* none of the others behind it may stay queued although it is finished; one that
\* is left behind (stranded) must be cancelled.
Announced(r) == \E k \in DOMAIN queue : k >= Place(r) /\ queue[k] \notin quiet
Awaited(r)   == r \in Queued /\ Announced(r)
EveryRequestReturned ==
    \A r \in Reqs : Awaited(r) ~> (~Awaited(r) \/ stranded \/ overtaken)
=============================================================================
