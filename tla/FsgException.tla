---------------------------- MODULE FsgException ----------------------------
(***************************************************************************)
(* The exception machinery of the file-backed storage gadget              *)
(* (drivers/usb/gadget/file_storage.c): how interrupt handlers hand ep0    *)
(* requests, bus resets and exit requests to the one kernel thread, and    *)
(* how the thread cancels its transfers, changes the configuration and     *)
(* completes the status stage.                                             *)
(*                                                                         *)
(* Actors: the main thread (pc), the interrupt handlers of the UDC (each   *)
(* handler is one action, as it runs with interrupts off on this           *)
(* uniprocessor), and processes that signal the thread or remove the       *)
(* driver.  The body of a SCSI command is reduced to what it does to the   *)
(* buffer heads; FsgPipeline refines it.                                   *)
(***************************************************************************)
EXTENDS Integers

CONSTANTS
    Bufs,       \* the buffer heads (NUM_BUFFERS of them)
    MaxTag,     \* bound: number of ep0 requests the host sends
    MaxReset,   \* bound: number of bus resets
    MaxExit     \* bound: number of kill signals and unbinds

ASSUME BoundsAssumption == MaxTag \in Nat /\ MaxReset \in Nat /\ MaxExit \in Nat

-----------------------------------------------------------------------------
(* enum fsg_state: above IDLE, a higher value is a higher priority.        *)

DATA_PHASE       == -9
STATUS_PHASE     == -8
IDLE             == 0
ABORT_BULK_OUT   == 1
RESET            == 2
INTERFACE_CHANGE == 3
CONFIG_CHANGE    == 4
DISCONNECT       == 5
EXIT             == 6
TERMINATED       == 7

FsgStates == {DATA_PHASE, STATUS_PHASE, IDLE, ABORT_BULK_OUT, RESET,
              INTERFACE_CHANGE, CONFIG_CHANGE, DISCONNECT, EXIT, TERMINATED}

CONFIG_VALUE == 1
Unknown      == 2      \* the host cannot tell which configuration is set

\* Every buffer head carries a bulk-in and a bulk-out request.
Requests == Bufs \X {"in", "out"}

VARIABLES
    state, exception_req_tag, ep0_req_tag, new_config,  \* fsg_dev, shared with interrupts
    config, running,                                    \* fsg_dev, written by the thread
    req,          \* the requests that are allocated (inreq, outreq # NULL)
    bstate,       \* bh->state
    busy,         \* the requests whose inreq_busy / outreq_busy is set
    queued,       \* the requests on the UDC's endpoint queues
    cancelled,    \* those of them the thread has dequeued: the UDC completes them, at
                  \* once (arcotg_udc) or soon (the gadget API)
    thread_task,  \* 1 while fsg->thread_task # NULL
    thread_wakeup_needed,
    signals,      \* the signals pending for the thread: USR1, and KILL which
                  \* stands for INT and TERM too
    pc,           \* where the thread is
    h,            \* the locals of handle_exception
    cur,          \* the request start_transfer is working on
    wbuf,         \* the buffer head a sleeping command waits for
    refused,      \* the buffer heads whose bulk-out transfer usb_ep_queue refused
    ep0_wait,     \* the forwarded ep0 request the host still waits for, if any;
                  \* "dropped" if it found a more urgent exception in progress
    hostcfg,      \* the configuration the host was told is set, by the response to
                  \* its own request or by a bus reset
    answer,       \* the thread's last ep0 response: whose it is, who gets it
    resets, exits \* number of bus resets, of kill signals and unbinds so far

shared  == <<state, exception_req_tag>>
device  == <<config, running, req>>
buffers == <<bstate, busy, queued, cancelled>>
request == <<ep0_req_tag, new_config, ep0_wait, hostcfg>>
host    == <<request, resets, exits>>
local   == <<h, cur, wbuf, refused>>
vars    == <<shared, device, buffers, signals, host, local, pc, thread_task,
             thread_wakeup_needed, answer>>

Handler == {"deq", "cancel", "idle", "idle_sleep", "idle_wake", "reset",
            "ab_status", "ab_queue", "ab_done", "itf", "sync", "cfg_down",
            "cfg_up", "cfg_itf", "term", "ans", "ans_queue"}
Command == {"cmd", "queue", "cmd_sleep", "cmd_wake"}
Pcs     == {"loop", "loop_sleep", "loop_wake", "exit", "done"}
           \cup Handler \cup Command

Tags == 0 .. MaxTag

NoReq == <<"none", "none">>

TypeOK ==
    /\ state \in FsgStates
    /\ exception_req_tag \in Tags /\ ep0_req_tag \in Tags
    /\ new_config \in {0, CONFIG_VALUE} /\ config \in {0, CONFIG_VALUE}
    /\ running \in {0, 1}
    /\ req \subseteq Requests
    /\ bstate \in [Bufs -> {"EMPTY", "FULL", "BUSY"}]
    /\ busy \subseteq Requests /\ queued \subseteq Requests
    /\ cancelled \subseteq Requests
    /\ thread_task \in {0, 1} /\ thread_wakeup_needed \in {0, 1}
    /\ signals \subseteq {"USR1", "KILL"}
    /\ pc \in Pcs
    /\ h \in [old : FsgStates, tag : Tags, cfg : {0, CONFIG_VALUE}, rc : {0, -1}]
    /\ cur \in Requests \cup {NoReq}
    /\ wbuf \in Bufs \cup {"none"} /\ refused \subseteq Bufs
    /\ ep0_wait \in {"none", "config", "other", "dropped"}
    /\ hostcfg \in {0, CONFIG_VALUE, Unknown}
    /\ answer \in [for : Tags, to : Tags]
    /\ resets \in 0 .. MaxReset /\ exits \in 0 .. MaxExit

\* fsg_bind has succeeded, the thread has just been woken for the first time.
Init ==
    /\ state = IDLE /\ exception_req_tag = 0 /\ ep0_req_tag = 0
    /\ new_config = 0 /\ config = 0 /\ running = 0
    /\ req = {} /\ bstate = [b \in Bufs |-> "EMPTY"]
    /\ busy = {} /\ queued = {} /\ cancelled = {}
    /\ thread_task = 1 /\ thread_wakeup_needed = 0
    /\ signals = {}
    /\ pc = "loop"
    /\ h = [old |-> IDLE, tag |-> 0, cfg |-> 0, rc |-> 0]
    /\ cur = NoReq /\ wbuf = "none" /\ refused = {}
    /\ ep0_wait = "none" /\ hostcfg = 0
    /\ answer = [for |-> 0, to |-> 0]
    /\ resets = 0 /\ exits = 0

-----------------------------------------------------------------------------
(* Routines shared by interrupt handlers and processes.                    *)

signal_pending == signals # {}

exception_in_progress == state > IDLE

\* Mutant: an exception of the same priority is dropped.
raise_exception_Less(new, t) ==
    IF state < new
    THEN /\ exception_req_tag' = t
         /\ state' = new
         /\ signals' = IF thread_task = 1 THEN signals \cup {"USR1"} ELSE signals
    ELSE UNCHANGED <<exception_req_tag, state, signals>>

\* Mutant: the thread is not signalled.
raise_exception_NoSignal(new, t) ==
    IF state <= new
    THEN exception_req_tag' = t /\ state' = new /\ UNCHANGED signals
    ELSE UNCHANGED <<exception_req_tag, state, signals>>

\* raise_exception(fsg, new) as the current request tag is t.
raise_exception(new, t) ==
    IF state <= new
    THEN /\ exception_req_tag' = t
         /\ state' = new
         /\ signals' = IF thread_task = 1 THEN signals \cup {"USR1"} ELSE signals
    ELSE UNCHANGED <<exception_req_tag, state, signals>>

\* The buffer head after bulk_in_complete / bulk_out_complete of the requests S.
completed(S) ==
    [b \in Bufs |-> IF <<b, "out">> \in S THEN "FULL"
                    ELSE IF <<b, "in">> \in S THEN "EMPTY"
                    ELSE bstate[b]]

\* Mutant: the completion handlers do not wake the thread.
complete_requests_NoWakeup(S) ==
    /\ queued' = queued \ S
    /\ cancelled' = cancelled \ S
    /\ busy' = busy \ S
    /\ bstate' = completed(S)
    /\ UNCHANGED thread_wakeup_needed

\* done() in the UDC takes the requests S off their queues and calls their
\* completion handlers, which update the buffer heads and wake the thread.
complete_requests(S) ==
    /\ queued' = queued \ S
    /\ cancelled' = cancelled \ S
    /\ busy' = busy \ S
    /\ bstate' = completed(S)
    /\ thread_wakeup_needed' = IF S # {} THEN 1 ELSE thread_wakeup_needed

-----------------------------------------------------------------------------
(* Interrupt handlers and other processes.                                 *)

\* bulk_in_complete, bulk_out_complete: one request finishes.
Complete(r) ==
    /\ r \in queued
    /\ complete_requests({r})
    /\ UNCHANGED <<shared, device, signals, host, local, pc, thread_task, answer>>

\* fsg_setup for a request that is answered (or stalled) at once.
SetupImmediate ==
    /\ ep0_req_tag < MaxTag
    /\ ep0_req_tag' = ep0_req_tag + 1
    /\ ep0_wait' = "none"
    /\ UNCHANGED <<shared, device, buffers, signals, local, pc, thread_task,
                   thread_wakeup_needed, answer, new_config, hostcfg, resets, exits>>

\* fsg_setup for a request that is forwarded to the thread: SET_CONFIGURATION.
SetConfiguration(v) ==
    /\ ep0_req_tag < MaxTag
    /\ ep0_req_tag' = ep0_req_tag + 1
    /\ new_config' = v
    /\ raise_exception(CONFIG_CHANGE, ep0_req_tag + 1)
    /\ ep0_wait' = IF state > CONFIG_CHANGE THEN "dropped" ELSE "config"
    /\ hostcfg' = Unknown
    /\ UNCHANGED <<device, buffers, local, pc, thread_task,
                   thread_wakeup_needed, answer, resets, exits>>

\* fsg_setup for SET_INTERFACE and for the Bulk-only device reset.
SetupForwarded(new) ==
    /\ ep0_req_tag < MaxTag
    /\ config # 0
    /\ ep0_req_tag' = ep0_req_tag + 1
    /\ raise_exception(new, ep0_req_tag + 1)
    /\ ep0_wait' = IF state > new THEN "dropped" ELSE "other"
    /\ UNCHANGED <<device, buffers, local, pc, thread_task,
                   thread_wakeup_needed, answer, new_config, hostcfg, resets, exits>>

SetInterface == SetupForwarded(INTERFACE_CHANGE)
BulkReset    == SetupForwarded(RESET)

\* reset_irq: the UDC retires every queued request and calls fsg_disconnect.
BusReset ==
    /\ resets < MaxReset
    /\ resets' = resets + 1
    /\ complete_requests(queued)
    /\ raise_exception(DISCONNECT, ep0_req_tag)
    /\ ep0_wait' = "none" /\ hostcfg' = 0
    /\ UNCHANGED <<device, local, pc, thread_task, answer,
                   ep0_req_tag, new_config, exits>>

\* Somebody kills the thread.
Kill ==
    /\ thread_task = 1
    /\ exits < MaxExit /\ exits' = exits + 1
    /\ signals' = signals \cup {"KILL"}
    /\ UNCHANGED <<shared, device, buffers, request, local, pc,
                   thread_task, thread_wakeup_needed, answer, resets>>

\* fsg_unbind tells the thread to exit.
Unbind ==
    /\ state # TERMINATED
    /\ exits < MaxExit /\ exits' = exits + 1
    /\ raise_exception(EXIT, ep0_req_tag)
    /\ UNCHANGED <<device, buffers, request, local, pc, thread_task,
                   thread_wakeup_needed, answer, resets>>

-----------------------------------------------------------------------------
(* The thread: main loop and commands.                                     *)

Goto(from, to) == pc = from /\ pc' = to

\* The tests at the top of the loop of fsg_main_thread.
MainLoop ==
    /\ Goto("loop", IF state = TERMINATED THEN "exit"
                    ELSE IF exception_in_progress \/ signal_pending THEN "deq"
                    ELSE IF running = 0 THEN "loop_sleep"
                    ELSE "cmd")
    /\ refused' = {}
    /\ UNCHANGED <<shared, device, buffers, signals, host, h, cur, wbuf, thread_task,
                   thread_wakeup_needed, answer>>

\* sleep_thread: set_current_state comes before the two tests, so the thread
\* stays here exactly as long as neither a signal nor a wakeup has arrived.
\* h.rc is its result: 0, or -EINTR.
SleepReturns(from, to) ==
    /\ Goto(from, to)
    /\ signal_pending \/ thread_wakeup_needed = 1
    /\ h' = [h EXCEPT !.rc = IF signal_pending THEN -1 ELSE 0]
    /\ UNCHANGED <<shared, device, buffers, signals, host, cur, wbuf, refused,
                   thread_task, thread_wakeup_needed, answer>>

\* The end of sleep_thread, which forgets the wakeups that came meanwhile.
SleepEnds(from, to) ==
    /\ Goto(from, to)
    /\ thread_wakeup_needed' = 0
    /\ UNCHANGED <<shared, device, buffers, signals, host, local, thread_task,
                   answer>>

\* Mutant: handle_exception takes a signal for "everything is idle".
IdleSleep_SignalIsIdle ==
    \/ SleepReturns("idle_sleep", "idle_wake")
    \/ SleepEnds("idle_wake", IF h.rc = 0 THEN "idle" ELSE "reset")

\* The loop ignores sleep_thread's result; a command and handle_exception
\* return to the loop when it was a signal.
LoopSleep == SleepReturns("loop_sleep", "loop_wake") \/ SleepEnds("loop_wake", "loop")
CmdSleep  == \/ SleepReturns("cmd_sleep", "cmd_wake")
             \/ SleepEnds("cmd_wake", IF h.rc = 0 THEN "cmd" ELSE "loop")
IdleSleep == \/ SleepReturns("idle_sleep", "idle_wake")
             \/ SleepEnds("idle_wake", IF h.rc = 0 THEN "idle" ELSE "loop")

\* Mutant: the buffer head may be busy.
StartTransfer_NotEmpty(from, to, r) ==
    /\ Goto(from, to)
    /\ busy' = busy \cup {r}
    /\ bstate' = [bstate EXCEPT ![r[1]] = "BUSY"]
    /\ cur' = r /\ refused' = refused \ {r[1]}
    /\ UNCHANGED <<shared, device, queued, cancelled, signals, host, h, wbuf,
                   thread_task, thread_wakeup_needed, answer>>

\* start_transfer, first half: mark a buffer head busy, under the lock.  Its
\* callers wait until the buffer head is empty; a reply is put into it first.
StartTransfer(from, to, r) ==
    /\ Goto(from, to)
    /\ bstate[r[1]] = "EMPTY" \/ (r[2] = "in" /\ bstate[r[1]] = "FULL")
    /\ busy' = busy \cup {r}
    /\ bstate' = [bstate EXCEPT ![r[1]] = "BUSY"]
    /\ cur' = r /\ refused' = refused \ {r[1]}
    /\ UNCHANGED <<shared, device, queued, cancelled, signals, host, h, wbuf,
                   thread_task, thread_wakeup_needed, answer>>

\* Mutant: after an error the request stays marked busy.
QueueRequest_StaysBusy(from, to) ==
    /\ Goto(from, to)
    /\ \/ queued' = queued \cup {cur}
       \/ UNCHANGED queued
    /\ cur' = NoReq
    /\ UNCHANGED <<shared, device, bstate, busy, cancelled, signals, host, h, wbuf, refused,
                   thread_task, thread_wakeup_needed, answer>>

\* start_transfer, second half: usb_ep_queue, which may fail.  "We can't do much
\* more than wait for a reset": a command will wait for the refused buffer to fill.
QueueRequest(from, to) ==
    /\ Goto(from, to)
    /\ \/ /\ queued' = queued \cup {cur}
          /\ UNCHANGED <<busy, bstate, refused>>
       \/ /\ busy' = busy \ {cur}
          /\ bstate' = [bstate EXCEPT ![cur[1]] = "EMPTY"]
          /\ refused' = IF cur[2] = "out" THEN refused \cup {cur[1]} ELSE refused
          /\ UNCHANGED queued
    /\ cur' = NoReq
    /\ UNCHANGED <<shared, device, cancelled, signals, host, h, wbuf,
                   thread_task, thread_wakeup_needed, answer>>

CmdStart(r) == StartTransfer("cmd", "queue", r)
CmdQueue    == QueueRequest("queue", "cmd")

\* The command puts a reply into an empty buffer.
CmdFill(b) ==
    /\ Goto("cmd", "cmd")
    /\ bstate[b] = "EMPTY"
    /\ bstate' = [bstate EXCEPT ![b] = "FULL"]
    /\ UNCHANGED <<shared, device, busy, queued, cancelled, signals, host, local,
                   thread_task, thread_wakeup_needed, answer>>

\* The command takes the data out of a full buffer.
CmdDrain(b) ==
    /\ Goto("cmd", "cmd")
    /\ bstate[b] = "FULL"
    /\ bstate' = [bstate EXCEPT ![b] = "EMPTY"]
    /\ UNCHANGED <<shared, device, busy, queued, cancelled, signals, host, local,
                   thread_task, thread_wakeup_needed, answer>>

\* The command waits for a transfer, even for one that was not started.
CmdWait(b) ==
    /\ Goto("cmd", "cmd_sleep")
    /\ bstate[b] = "BUSY" \/ b \in refused
    /\ wbuf' = b
    /\ UNCHANGED <<shared, device, buffers, signals, host, h, cur, refused, thread_task,
                   thread_wakeup_needed, answer>>

\* Between the phases of a command the loop sets the state, unless an
\* exception is in progress.
CmdPhase(s) ==
    /\ Goto("cmd", "cmd")
    /\ ~exception_in_progress
    /\ state' = s
    /\ UNCHANGED <<exception_req_tag, device, buffers, signals, host, local,
                   thread_task, thread_wakeup_needed, answer>>

\* The host sent less data than it announced.
CmdAbort ==
    /\ Goto("cmd", "loop")
    /\ raise_exception(ABORT_BULK_OUT, ep0_req_tag)
    /\ UNCHANGED <<device, buffers, host, local, thread_task,
                   thread_wakeup_needed, answer>>

\* The command gives up on a signal, or there was none: the host sent an invalid
\* command block.
CmdReturns ==
    /\ Goto("cmd", "loop")
    /\ signal_pending \/ state = IDLE
    /\ UNCHANGED <<shared, device, buffers, signals, host, local, thread_task,
                   thread_wakeup_needed, answer>>

\* The status has been sent: the command is over.
CmdEnd ==
    /\ Goto("cmd", "loop")
    /\ state' = IF exception_in_progress THEN state ELSE IDLE
    /\ UNCHANGED <<exception_req_tag, device, buffers, signals, host, local,
                   thread_task, thread_wakeup_needed, answer>>

-----------------------------------------------------------------------------
(* The thread: handle_exception.                                           *)

\* Clear the pending signals; anything but SIGUSR1 becomes an EXIT exception.
DequeueSignals ==
    /\ Goto("deq", "cancel")
    /\ IF "KILL" \in signals /\ state <= EXIT
       THEN state' = EXIT /\ exception_req_tag' = ep0_req_tag
       ELSE UNCHANGED shared
    /\ signals' = {}
    /\ UNCHANGED <<device, buffers, host, local, thread_task,
                   thread_wakeup_needed, answer>>

\* Mutant: nothing is dequeued.
CancelTransfers_None ==
    /\ Goto("cancel", "idle")
    /\ UNCHANGED <<shared, device, buffers, signals, host, local, thread_task,
                   thread_wakeup_needed, answer>>

\* Ask the UDC to give back every busy request.
CancelTransfers ==
    /\ Goto("cancel", "idle")
    /\ cancelled' = cancelled \cup (busy \cap queued)
    /\ UNCHANGED <<shared, device, bstate, busy, queued, signals, host, local,
                   thread_task, thread_wakeup_needed, answer>>

\* Mutant: the thread goes on at once.
TestIdle_NoWait ==
    /\ Goto("idle", "reset")
    /\ UNCHANGED <<shared, device, buffers, signals, host, local, thread_task,
                   thread_wakeup_needed, answer>>

\* Wait until everything is idle.
TestIdle ==
    /\ Goto("idle", IF busy = {} THEN "reset" ELSE "idle_sleep")
    /\ UNCHANGED <<shared, device, buffers, signals, host, local, thread_task,
                   thread_wakeup_needed, answer>>

\* Mutant: a disconnect is treated like a signal without an exception.
ActionFor_NoDisconnect(old) ==
    CASE old = ABORT_BULK_OUT     -> "ab_status"
      [] old = RESET              -> "ans"
      [] old = INTERFACE_CHANGE   -> "itf"
      [] old = CONFIG_CHANGE      -> "cfg_down"
      [] old \in {EXIT, TERMINATED} -> "cfg_down"
      [] OTHER                    -> "loop"

\* Where the switch at the end of handle_exception goes.
ActionFor(old) ==
    CASE old = ABORT_BULK_OUT     -> "ab_status"
      [] old = RESET              -> "ans"
      [] old = INTERFACE_CHANGE   -> "itf"
      [] old = CONFIG_CHANGE      -> "cfg_down"
      [] old = DISCONNECT         -> "sync"
      [] old \in {EXIT, TERMINATED} -> "cfg_down"
      [] OTHER                    -> "loop"

\* Mutant: the tag of the exception is not copied.
ResetState_NoTag ==
    /\ Goto("reset", ActionFor(state))
    /\ bstate' = [b \in Bufs |-> "EMPTY"]
    /\ h' = [h EXCEPT !.old = state, !.cfg = IF state = CONFIG_CHANGE THEN new_config ELSE 0,
                      !.rc = 0]
    /\ state' = IF state = ABORT_BULK_OUT THEN STATUS_PHASE ELSE IDLE
    /\ UNCHANGED <<exception_req_tag, device, busy, queued, cancelled, signals,
                   host, cur, wbuf, refused, thread_task, thread_wakeup_needed, answer>>

\* The locked section: reset the buffers and the exception, keep a copy of it.
ResetState ==
    /\ Goto("reset", ActionFor(state))
    /\ bstate' = [b \in Bufs |-> "EMPTY"]
    /\ h' = [old |-> state, tag |-> exception_req_tag,
             cfg |-> IF state = CONFIG_CHANGE THEN new_config ELSE 0, rc |-> 0]
    /\ state' = IF state = ABORT_BULK_OUT THEN STATUS_PHASE ELSE IDLE
    /\ UNCHANGED <<exception_req_tag, device, busy, queued, cancelled, signals,
                   host, cur, wbuf, refused, thread_task, thread_wakeup_needed, answer>>

\* ABORT_BULK_OUT: send the status, then leave the status phase.
AbortStatus(r) == r[2] = "in" /\ StartTransfer("ab_status", "ab_queue", r)
AbortQueue     == QueueRequest("ab_queue", "ab_done")
AbortDone ==
    /\ Goto("ab_done", "loop")
    /\ state' = IF state = STATUS_PHASE THEN IDLE ELSE state
    /\ UNCHANGED <<exception_req_tag, device, buffers, signals, host, local,
                   thread_task, thread_wakeup_needed, answer>>

\* DISCONNECT: fsync_all, which may take long.
SyncFiles ==
    /\ Goto("sync", "cfg_down")
    /\ UNCHANGED <<shared, device, buffers, signals, host, local, thread_task,
                   thread_wakeup_needed, answer>>

\* do_set_interface(fsg, 0): free everything, then enable the endpoints and
\* allocate the requests again; on a failure free everything once more.
do_set_interface(rc) ==
    /\ running' = IF rc = 0 THEN 1 ELSE 0
    /\ req' = IF rc = 0 THEN Requests ELSE {}

\* INTERFACE_CHANGE.
ChangeInterface(rc) ==
    /\ Goto("itf", "ans")
    /\ do_set_interface(rc)
    /\ h' = [h EXCEPT !.rc = rc]
    /\ UNCHANGED <<shared, config, buffers, signals, host, cur, wbuf, refused, thread_task,
                   thread_wakeup_needed, answer>>

\* do_set_config, first half: take the interface down if it is configured.
ConfigDown ==
    /\ Goto("cfg_down", IF h.cfg # 0 THEN "cfg_up"
                        ELSE CASE h.old = CONFIG_CHANGE -> "ans"
                               [] h.old = DISCONNECT    -> "loop"
                               [] OTHER                 -> "term")
    /\ config' = 0
    /\ IF config # 0 THEN do_set_interface(-1) ELSE UNCHANGED <<running, req>>
    /\ UNCHANGED <<shared, buffers, signals, host, local, thread_task,
                   thread_wakeup_needed, answer>>

\* do_set_config, second half: interrupts see the new configuration before
\* the interface is up.
ConfigUp ==
    /\ Goto("cfg_up", "cfg_itf")
    /\ config' = h.cfg
    /\ UNCHANGED <<shared, running, req, buffers, signals, host, local,
                   thread_task, thread_wakeup_needed, answer>>

ConfigInterface(rc) ==
    /\ Goto("cfg_itf", "ans")
    /\ do_set_interface(rc)
    /\ config' = IF rc = 0 THEN config ELSE 0
    /\ h' = [h EXCEPT !.rc = rc]
    /\ UNCHANGED <<shared, buffers, signals, host, cur, wbuf, refused, thread_task,
                   thread_wakeup_needed, answer>>

\* EXIT: stop the thread.
Terminate ==
    /\ Goto("term", "loop")
    /\ state' = TERMINATED
    /\ UNCHANGED <<exception_req_tag, device, buffers, signals, host, local,
                   thread_task, thread_wakeup_needed, answer>>

\* Is the host still waiting for the request this exception came from?
CompareTags ==
    /\ Goto("ans", IF ep0_req_tag = h.tag THEN "ans_queue" ELSE "loop")
    /\ UNCHANGED <<shared, device, buffers, signals, host, local, thread_task,
                   thread_wakeup_needed, answer>>

\* ep0_queue (or a halt after an error): whatever request is the latest one
\* when the UDC gets the response is the one that is completed.
AnswerEp0 ==
    /\ Goto("ans_queue", "loop")
    /\ answer' = [for |-> h.tag, to |-> ep0_req_tag]
    /\ ep0_wait' = "none"
    /\ hostcfg' = IF ep0_wait = "config" /\ h.rc = 0 /\ h.tag = ep0_req_tag
                  THEN new_config ELSE hostcfg
    /\ UNCHANGED <<shared, device, buffers, signals, local, thread_task,
                   thread_wakeup_needed, ep0_req_tag, new_config, resets, exits>>

\* The end of fsg_main_thread.
ThreadExit ==
    /\ Goto("exit", "done")
    /\ thread_task' = 0
    /\ UNCHANGED <<shared, device, buffers, signals, host, local,
                   thread_wakeup_needed, answer>>

-----------------------------------------------------------------------------

HandleException ==
    \/ DequeueSignals \/ CancelTransfers \/ TestIdle \/ IdleSleep \/ ResetState
    \/ \E r \in Requests : AbortStatus(r)
    \/ AbortQueue \/ AbortDone
    \/ SyncFiles \/ ConfigDown \/ ConfigUp
    \/ \E rc \in {0, -1} : ChangeInterface(rc) \/ ConfigInterface(rc)
    \/ Terminate \/ CompareTags \/ AnswerEp0

DoCommand ==
    \/ \E r \in Requests : CmdStart(r)
    \/ CmdQueue \/ CmdSleep
    \/ \E b \in Bufs : CmdFill(b) \/ CmdDrain(b) \/ CmdWait(b)
    \/ \E s \in {DATA_PHASE, STATUS_PHASE} : CmdPhase(s)
    \/ CmdAbort \/ CmdReturns \/ CmdEnd

Thread == MainLoop \/ LoopSleep \/ DoCommand \/ HandleException \/ ThreadExit

Environment ==
    \/ \E r \in Requests : Complete(r)
    \/ SetupImmediate
    \/ \E v \in {0, CONFIG_VALUE} : SetConfiguration(v)
    \/ SetInterface \/ BulkReset
    \/ BusReset \/ Kill \/ Unbind

Next == Thread \/ Environment

Spec == Init /\ [][Next]_vars

\* The thread is a kernel thread that gets the processor; a SCSI command
\* transfers a bounded amount of data; the UDC completes what was dequeued.
\* Nothing is assumed of the host.
Fairness ==
    /\ WF_vars(Thread)
    /\ SF_vars(CmdEnd)
    /\ \A r \in Requests : WF_vars(r \in cancelled /\ Complete(r))

FairSpec == Spec /\ Fairness

-----------------------------------------------------------------------------
(* Properties.                                                             *)

\* A buffer head is BUSY exactly while one of its two requests is busy, and
\* never both: the thread and the UDC never own the same buffer.
BufferOwnership ==
    \A b \in Bufs :
        /\ bstate[b] = "BUSY" <=> \E d \in {"in", "out"} : <<b, d>> \in busy
        /\ ~({<<b, "in">>, <<b, "out">>} \subseteq busy)

\* do_set_interface never frees a request the UDC still holds, and a command
\* or the abort handler never uses a request that is not allocated.
RequestsAllocated ==
    /\ queued \subseteq req
    /\ pc \in Command \cup {"ab_status", "ab_queue"} => req = Requests

\* A thread that sleeps with nothing to wake it has nothing to do: what it
\* waits for is still in the hands of the UDC, or was refused by it, and no
\* exception is pending.
\* (sleep_thread forgets wakeups without the lock.)
NoLostWakeup ==
    ~signal_pending /\ thread_wakeup_needed = 0 =>
        /\ pc = "cmd_sleep"  => \/ \E d \in {"in", "out"} : <<wbuf, d>> \in queued
                                \/ wbuf \in refused
        /\ pc = "idle_sleep" => cancelled # {} /\ busy \subseteq cancelled
        /\ pc = "loop_sleep" => running = 0
        /\ pc \in {"cmd_sleep", "loop_sleep"} => ~exception_in_progress

\* No exception is in progress and none is being handled.
Quiet == ~exception_in_progress /\ pc \notin Handler

\* A forwarded ep0 request that the host still waits for is left unanswered
\* only if raise_exception dropped it for a more urgent exception.
LostOnlyWhenOutranked == Quiet => ep0_wait \in {"none", "dropped"}

\* Once the host has been told that a configuration is set, by a status stage
\* or implicitly by a bus reset, it is the one that is set.
ConfigAgreed == Quiet /\ hostcfg # Unknown => config = hostcfg

\* The interface is reconfigured only when no buffer is in use.
ReconfiguredWhenIdle ==
    [][running' # running \/ req' # req =>
          busy = {} /\ \A b \in Bufs : bstate[b] = "EMPTY"]_vars

\* A disconnect takes the device out of its configuration.
DisconnectHandled == state = DISCONNECT ~> config = 0

\* A kill signal or an unbind ends the thread.
ExitHandled == "KILL" \in signals \/ state = EXIT ~> pc = "done"

\* A forwarded request that was not outranked gets its response, unless the
\* host gives up or the thread exits.
RequestAnswered ==
    ep0_wait \in {"config", "other"} ~> ep0_wait \in {"none", "dropped"} \/ pc = "done"

-----------------------------------------------------------------------------
(* The inductive invariant behind the safety properties, in parts: each    *)
(* says what the thread may rely on at a place of its control flow.        *)

InTransfer == pc \in {"queue", "ab_queue"}

\* A busy request is on a queue of the UDC or in the hands of start_transfer.
BusyQueued ==
    /\ cancelled \subseteq queued
    /\ InTransfer => cur \in Requests \ queued
    /\ busy = queued \cup (IF InTransfer THEN {cur} ELSE {})

\* Requests are allocated while the interface is up, and used only then; an
\* aborted command is handled before the interface can go down.
UpWhileUsed ==
    /\ running = 1 => req = Requests
    /\ busy # {} => running = 1
    /\ pc \in Command \cup {"ab_status", "ab_queue", "ab_done"} => running = 1
    /\ pc \in {"loop_sleep", "loop_wake"} => running = 0
    /\ state = ABORT_BULK_OUT =>
          /\ running = 1
          /\ pc \in {"loop", "deq", "cancel", "idle", "idle_sleep", "idle_wake", "reset"}

\* Once everything was idle nothing is started before handle_exception is done.
IdleBelow ==
    /\ pc \in {"idle", "idle_sleep", "idle_wake"} => busy \subseteq cancelled
    /\ pc \in {"reset", "ab_status", "itf", "sync", "cfg_down", "cfg_up", "cfg_itf"} =>
          busy = {}
    /\ pc \in {"ab_status", "itf", "sync", "cfg_down", "cfg_up", "cfg_itf"} =>
          \A b \in Bufs : bstate[b] = "EMPTY"

\* Whoever changes what a sleeping thread waits for leaves a wakeup or a signal.
SleepersWoken ==
    /\ thread_task = 1 <=> pc # "done"
    /\ pc = "cmd_sleep" => wbuf \in Bufs
    /\ pc = "cmd_sleep" /\ thread_wakeup_needed = 0 =>
          bstate[wbuf] = "BUSY" \/ wbuf \in refused
    /\ pc = "idle_sleep" /\ thread_wakeup_needed = 0 => busy # {}
    /\ pc \in {"loop_sleep", "loop_wake"} \cup Command /\ exception_in_progress =>
          "USR1" \in signals

\* A forwarded request that the host waits for is pending as an exception, is
\* being handled, or has lost to the thread's exit.
ForwardedKept ==
    /\ h.cfg # 0 => h.old = CONFIG_CHANGE
    /\ ep0_wait \in {"config", "other"} =>
          \/ /\ state \in {RESET, INTERFACE_CHANGE, CONFIG_CHANGE}
             /\ exception_req_tag = ep0_req_tag
          \/ state \in {EXIT, TERMINATED}
          \/ /\ \/ pc \in {"itf", "ans", "ans_queue"}
                \/ pc \in {"cfg_down", "cfg_up", "cfg_itf"} /\ h.old = CONFIG_CHANGE
             /\ h.tag = ep0_req_tag
          \/ pc \in {"cfg_down", "term"} /\ h.old \in {EXIT, TERMINATED}

AfterReset == {"itf", "sync", "cfg_down", "cfg_up", "cfg_itf", "ans", "ans_queue"}

\* Exceptions are handled in the order of their requests, and the one being
\* handled carries the value of the latest SET_CONFIGURATION if it is its own.
TagsOrdered ==
    /\ exception_req_tag <= ep0_req_tag /\ h.tag <= ep0_req_tag
    /\ pc \in AfterReset /\ state \in {RESET, INTERFACE_CHANGE, CONFIG_CHANGE} =>
          h.tag < exception_req_tag
    /\ pc \in AfterReset /\ h.old = CONFIG_CHANGE /\ h.tag = ep0_req_tag =>
          h.cfg = new_config
    /\ ep0_wait = "config" =>
          /\ state \in {RESET, INTERFACE_CHANGE} => exception_req_tag < ep0_req_tag
          /\ pc \in {"itf", "ans", "ans_queue"} /\ h.tag = ep0_req_tag =>
                h.old = CONFIG_CHANGE

\* The host's idea of the configuration is right, or an exception that makes it
\* right is pending or being handled.
HostKept ==
    /\ pc = "itf" => h.old = INTERFACE_CHANGE
    /\ pc \in {"cfg_up", "cfg_itf"} => h.old = CONFIG_CHANGE
    /\ pc = "cfg_itf" => config = h.cfg
    /\ pc \in {"ans", "ans_queue"} /\ h.old = CONFIG_CHANGE /\ h.rc = 0 => config = h.cfg
    /\ state = DISCONNECT => ep0_wait \in {"none", "dropped"} /\ hostcfg \in {0, Unknown}
    /\ hostcfg # Unknown =>
          /\ state # CONFIG_CHANGE
          /\ \/ state \in {DISCONNECT, EXIT, TERMINATED}
             \/ pc \in {"sync", "cfg_down"} /\ h.old = DISCONNECT /\ hostcfg = 0
             \/ pc \in {"cfg_down", "term"} /\ h.old \in {EXIT, TERMINATED}
             \/ pc \notin {"sync", "cfg_down", "cfg_up", "cfg_itf"} /\ config = hostcfg

\* The whole of it.
IndInv ==
    /\ TypeOK /\ BufferOwnership
    /\ BusyQueued /\ UpWhileUsed /\ IdleBelow /\ SleepersWoken
    /\ ForwardedKept /\ TagsOrdered /\ HostKept

-----------------------------------------------------------------------------
(* What the comments of the driver say and the code does not keep.         *)

\* The header's promise for ep0: "only the most recently received ep0 request
\* will get a status-stage response".
StatusStageMatches == answer.for = answer.to
=============================================================================
