--------------------------- MODULE UsbModeSwitch ---------------------------
(***************************************************************************)
(* The device shows itself to a PC as a CD-ROM drive, turns into a network *)
(* adapter when the PC asks for it, and back when the PC has let go of it. *)
(* Many parts have a hand in that: the host on the bus, the interrupt      *)
(* handler and the suspend timer of the controller driver (arcotg_udc.c),  *)
(* the OTG driver that starts and stops the controller (fsl_otg.c), system *)
(* sleep, the work items that carry events to user space (otg_switch.c,    *)
(* gpio_keys.c), the storage gadget, and the daemon GDevSwitch, which      *)
(* replaces one gadget driver by the other.                                *)
(*                                                                         *)
(* The kernel is not preemptible and runs on one core: interrupts and the  *)
(* timer come between any two steps, processes only where one sleeps.      *)
(***************************************************************************)
EXTENDS Integers, Sequences, FiniteSets

CONSTANTS MaxBus, MaxStart, MaxId, MaxSleep   \* bounds: events on the bus, START STOP
                                              \* UNIT commands, ID pin changes, sleeps

ASSUME ModeSwitchAssumption == {MaxBus, MaxStart, MaxId, MaxSleep} \subseteq Nat

VARIABLES
    driver,             \* udc_controller->driver
    usb_state, resume_state, stopped, already_stopped,      \* fields of udc_controller
    timer,              \* suspend_timer is pending
    is_suspend,         \* g_storage_is_suspend
    command,            \* the storage gadget has a START STOP UNIT to carry out
    queue,              \* the work items of keventd
    otg,                \* the OTG driver: the ID pin, whether it knows a gadget, its delayed work
    resuming,           \* who is in the middle of fsl_udc_resume
    asleep,             \* the system is suspended
    daemon,             \* GDevSwitch: the events it has not read, its target and its step
    bus,                \* what the host has made of the bus
    irq,                \* interrupt status of the controller
    oops,               \* a null pointer was dereferenced: where
    wanted,             \* auxiliary: the driver asked for last
    mishaps,            \* auxiliary: the rare events that have happened
    n                   \* how many of the bounded events there were

udc  == <<driver, usb_state, resume_state, stopped, already_stopped>>
fsg  == <<is_suspend, command>>
work == <<queue, wanted>>
port == <<bus, irq>>
vars == <<udc, timer, fsg, work, otg, resuming, asleep, daemon, port, oops, mishaps, n>>

\* enum usb_device_state
NOTATTACHED == 0
ATTACHED    == 1
POWERED     == 2
DEFAULT     == 5
ADDRESS     == 6
SUSPENDED   == 8
UsbStates   == {NOTATTACHED, ATTACHED, POWERED, DEFAULT, ADDRESS, SUSPENDED}

Drivers == {"storage", "ether"}
\* Switch events are named after the driver they ask for.
Works   == Drivers \cup {"SLEEP", "WAKEUP", "OTG"}
Bits    == {"INT", "PORT_CHANGE", "RESET", "SUSPEND"}

OtgType    == [id : BOOLEAN, gadget : BOOLEAN, delay : BOOLEAN]
DaemonType == [inbox : Seq(Drivers), target : Drivers,
               step : {"read", "quiet", "stop", "unhook", "hook", "start"}]
BusType    == [phase : {"off", "reset", "default", "address"}, suspended : BOOLEAN,
               sent : {"nothing", "SET_ADDRESS", "START_STOP"}]
CountType  == [bus : 0 .. MaxBus, start : 0 .. MaxStart, id : 0 .. MaxId, sleep : 0 .. MaxSleep]

TypeOK ==
    /\ driver \in Drivers \cup {"none"}
    /\ usb_state \in UsbStates /\ resume_state \in UsbStates
    /\ stopped \in BOOLEAN /\ already_stopped \in BOOLEAN
    /\ timer \in BOOLEAN /\ is_suspend \in BOOLEAN /\ command \in BOOLEAN
    /\ queue \in Seq(Works) /\ \A j, k \in DOMAIN queue : queue[j] = queue[k] => j = k
    /\ otg \in OtgType
    /\ resuming \in {"no", "register", "work", "sleep"}
    /\ asleep \in BOOLEAN
    /\ daemon \in DaemonType
    /\ bus \in BusType
    /\ irq \subseteq Bits
    /\ oops \in {"no", "timer", "irq"}
    /\ wanted \in Drivers
    /\ mishaps \subseteq {"coalesced", "restarted", "unresumed", "misled"}
    /\ n \in CountType

\* Processes and the timer run when the system is up and no interrupt is pending;
\* processes do not run while one of them is in the busy wait of fsl_udc_resume.
Up         == oops = "no" /\ ~asleep /\ (stopped \/ irq = {})
MayProceed == Up /\ resuming = "no"

NoBus == [phase |-> "off", suspended |-> FALSE, sent |-> "nothing"]

\* fsl_udc_probe has run, and the daemon is about to load the storage gadget.
Init ==
    /\ driver = "none"
    /\ usb_state = POWERED /\ resume_state = NOTATTACHED
    /\ stopped = TRUE /\ already_stopped = FALSE
    /\ timer = FALSE /\ is_suspend = FALSE /\ command = FALSE
    /\ queue = <<>> /\ wanted = "storage"
    /\ otg \in [id : BOOLEAN, gadget : {FALSE}, delay : {FALSE}]
    /\ resuming = "no" /\ asleep = FALSE
    /\ daemon = [inbox |-> <<>>, target |-> "storage", step |-> "hook"]
    /\ bus = NoBus /\ irq = {}
    /\ oops = "no" /\ mishaps = {}
    /\ n = [bus |-> 0, start |-> 0, id |-> 0, sleep |-> 0]

-----------------------------------------------------------------------------
(* Work items.                                                             *)

\* schedule_work: a work item that is waiting is not queued again.
Schedule(q, w) == IF \E k \in DOMAIN q : q[k] = w THEN q ELSE Append(q, w)

\* Mutant: one work item for both events, which carries the older of them.
otg_switch_report_event_Shared(q, event) ==
    /\ queue' = IF \E k \in DOMAIN q : q[k] \in Drivers THEN q ELSE Append(q, event)
    /\ wanted' = event

\* otg_switch_report_event, for a queue q to which other items may have been
\* added in the same step.
otg_switch_report_event(q, event) == queue' = Schedule(q, event) /\ wanted' = event

-----------------------------------------------------------------------------
(* Controller driver: sleep and resume.                                    *)

\* Mutant: a device that is not addressed counts as unused.
check_allow_sleep_Address == ~(otg.id /\ usb_state > DEFAULT /\ usb_state < SUSPENDED)

\* check_allow_sleep, and the same test in fsl_udc_suspend.
check_allow_sleep == ~(otg.id /\ usb_state > POWERED /\ usb_state < SUSPENDED)

\* udc_suspend: the controller is stopped, and the host loses sight of it.  The return for
\* a controller that is not in device mode is never taken: dr_controller_setup sets
\* device mode before anything can stop the controller, and there is no host driver on
\* this port to change it.
udc_suspend ==
    IF stopped THEN already_stopped' = TRUE /\ UNCHANGED <<stopped, port>>
    ELSE stopped' = TRUE /\ bus' = NoBus /\ irq' = {} /\ UNCHANGED already_stopped

\* Mutant: already_stopped is never taken back.
fsl_udc_resume_Sticky(who, was_stopped) ==
    IF already_stopped
    THEN /\ UNCHANGED <<usb_state, stopped, already_stopped, resuming, port>>
    ELSE IF was_stopped
         THEN /\ stopped' = TRUE /\ resuming' = who
              /\ UNCHANGED <<usb_state, already_stopped, port>>
         ELSE /\ usb_state' = ATTACHED
              /\ UNCHANGED <<stopped, already_stopped, resuming, port>>

\* The beginning of fsl_udc_resume, called by who: leave a controller that was
\* stopped before as it is, set up one that is stopped, and wait 100 ms.
fsl_udc_resume(who, was_stopped) ==
    IF already_stopped
    THEN /\ already_stopped' = FALSE /\ stopped' = was_stopped
         /\ UNCHANGED <<usb_state, resuming, port>>
    ELSE IF was_stopped
         THEN /\ stopped' = TRUE /\ resuming' = who
              /\ UNCHANGED <<usb_state, already_stopped, port>>
         ELSE /\ usb_state' = ATTACHED
              /\ UNCHANGED <<stopped, already_stopped, resuming, port>>

\* The end of dr_controller_run and of fsl_udc_resume.
ResumeEnds ==
    /\ oops = "no" /\ resuming # "no" /\ resuming' = "no"
    /\ stopped' = FALSE /\ bus' = NoBus /\ irq' = {}
    /\ usb_state' = ATTACHED
    /\ asleep' = (asleep /\ resuming # "sleep")
    /\ mishaps' = IF is_suspend THEN mishaps \cup {"unresumed"} ELSE mishaps
    /\ UNCHANGED <<driver, resume_state, already_stopped, timer, fsg, work, otg, daemon, oops, n>>

\* The system goes to sleep; fsl_udc_suspend forbids it while the host uses the
\* device.  Processes are frozen in user space.
PmSuspend ==
    /\ MayProceed /\ daemon.step \in {"read", "hook"}
    /\ n.sleep < MaxSleep /\ n' = [n EXCEPT !.sleep = @ + 1]
    /\ check_allow_sleep
    /\ udc_suspend /\ asleep' = TRUE
    /\ UNCHANGED <<driver, usb_state, resume_state, timer, fsg, work, otg, resuming, daemon, oops,
                   mishaps>>

\* It wakes up; gpio_keys_resume reports that.
PmResume ==
    /\ oops = "no" /\ asleep /\ resuming = "no"
    /\ fsl_udc_resume("sleep", stopped)
    /\ asleep' = (resuming' = "sleep")
    /\ queue' = Schedule(queue, "WAKEUP")
    /\ UNCHANGED <<driver, resume_state, timer, fsg, wanted, otg, daemon, oops, mishaps, n>>

-----------------------------------------------------------------------------
(* Controller driver: interrupts and the timer.                            *)

\* Mutant: the storage gadget has no resume function.
Suspended_NoResume(resumed, suspends) == suspends \/ is_suspend

\* fsg_suspend and fsg_resume: g_storage_is_suspend after an interrupt in which the
\* bus has resumed, has been suspended, or both in this order.
Suspended(resumed, suspends) == suspends \/ (is_suspend /\ ~resumed)

\* fsl_udc_irq: a bus resume comes first, then what the status bits say, in the
\* order of the code; every handler sees what those before it have left.
fsl_udc_irq ==
    LET resumed == usb_state = SUSPENDED /\ ~bus.suspended
        addressed == "INT" \in irq /\ bus.sent = "SET_ADDRESS"
        r1 == IF resumed THEN NOTATTACHED ELSE resume_state
        s1 == IF resumed THEN resume_state ELSE usb_state
        s2 == IF addressed THEN ADDRESS ELSE s1
        s3 == IF "PORT_CHANGE" \in irq /\ r1 = NOTATTACHED THEN DEFAULT ELSE s2
        s4 == IF "RESET" \notin irq THEN s3
              ELSE IF bus.phase = "reset" THEN DEFAULT ELSE ATTACHED
        r4 == IF "RESET" \in irq THEN NOTATTACHED ELSE r1
        suspends == "SUSPEND" \in irq
    IN /\ oops = "no" /\ ~asleep /\ ~stopped /\ irq # {}
       /\ irq' = {}
       /\ IF driver = "none" /\ (resumed \/ {"RESET", "SUSPEND"} \cap irq # {})
          THEN /\ oops' = "irq"
               /\ UNCHANGED <<usb_state, resume_state, timer, fsg, bus, mishaps>>
          ELSE /\ usb_state' = IF suspends THEN SUSPENDED ELSE s4
               /\ resume_state' = IF suspends THEN s4 ELSE r4
               /\ timer' = (timer \/ suspends)
               /\ is_suspend' = IF driver = "storage" THEN Suspended(resumed, suspends)
                                ELSE is_suspend
               /\ command' = (command \/ ("INT" \in irq /\ bus.sent = "START_STOP"
                                          /\ driver = "storage"))
               /\ bus' = [bus EXCEPT !.sent = "nothing",
                                     !.phase = IF addressed /\ "RESET" \notin irq THEN "address"
                                               ELSE @]
               /\ mishaps' = IF {"SUSPEND", "PORT_CHANGE"} \subseteq irq
                             THEN mishaps \cup {"coalesced"} ELSE mishaps
               /\ UNCHANGED oops
    /\ UNCHANGED <<driver, stopped, already_stopped, work, otg, resuming, asleep, daemon, n>>

\* suspend_timer_func, two seconds after the last suspend interrupt.  Neither
\* resume nor deregistration stops the timer.
suspend_timer_func ==
    /\ Up /\ timer /\ timer' = FALSE
    /\ LET q == Schedule(queue, "SLEEP")
       IN IF ~check_allow_sleep THEN UNCHANGED <<work, oops>>
          ELSE IF driver = "none" THEN oops' = "timer" /\ queue' = q /\ UNCHANGED wanted
          ELSE IF driver = "ether" THEN otg_switch_report_event(q, "storage") /\ UNCHANGED oops
          ELSE queue' = q /\ UNCHANGED <<wanted, oops>>
    /\ UNCHANGED <<udc, fsg, otg, resuming, asleep, daemon, port, mishaps, n>>

\* fsl_otg_isr: the ID pin has changed.  With an A plug the gadget is stopped at
\* once; with a B plug it is started later by delayed work.
IdChanges ==
    /\ oops = "no" /\ n.id < MaxId /\ n' = [n EXCEPT !.id = @ + 1]
    /\ otg' = [otg EXCEPT !.id = ~@,
                          !.delay = ~otg.id /\ (otg.delay \/ \A k \in DOMAIN queue : queue[k] # "OTG")]
    /\ IF otg.id /\ otg.gadget
       THEN /\ udc_suspend
            /\ mishaps' = IF stopped /\ (~asleep \/ resuming # "no") THEN mishaps \cup {"misled"} ELSE mishaps
       ELSE UNCHANGED <<stopped, already_stopped, port, mishaps>>
    /\ UNCHANGED <<driver, usb_state, resume_state, timer, fsg, work, resuming, asleep, daemon, oops>>

\* The delay of fsl_otg's work item has passed.
OtgDelayPasses ==
    /\ Up /\ otg.delay
    /\ otg' = [otg EXCEPT !.delay = FALSE] /\ queue' = Schedule(queue, "OTG")
    /\ UNCHANGED <<udc, timer, fsg, wanted, resuming, asleep, daemon, port, oops, mishaps, n>>

-----------------------------------------------------------------------------
(* Process context: keventd and the thread of the storage gadget.          *)

\* Mutant: fsl_otg_event does not look at the ID pin again.
keventd_NoId ==
    /\ MayProceed /\ queue # <<>>
    /\ queue' = Tail(queue)
    /\ LET w == Head(queue)
       IN /\ daemon' = IF w \in Drivers THEN [daemon EXCEPT !.inbox = Append(@, w)] ELSE daemon
          /\ IF w = "OTG" /\ otg.gadget
             THEN fsl_udc_resume("work", stopped)
             ELSE UNCHANGED <<usb_state, stopped, already_stopped, resuming, port>>
    /\ UNCHANGED <<driver, resume_state, timer, fsg, wanted, otg, asleep, oops, mishaps, n>>

\* keventd carries out the work items, in the order they were queued: input
\* events for user space, and fsl_otg_event.
keventd ==
    /\ MayProceed /\ queue # <<>>
    /\ queue' = Tail(queue)
    /\ LET w == Head(queue)
       IN /\ daemon' = IF w \in Drivers THEN [daemon EXCEPT !.inbox = Append(@, w)] ELSE daemon
          /\ IF w = "OTG" /\ otg.id /\ otg.gadget
             THEN /\ fsl_udc_resume("work", stopped)
                  /\ mishaps' = IF stopped THEN mishaps ELSE mishaps \cup {"restarted"}
             ELSE UNCHANGED <<usb_state, stopped, already_stopped, resuming, port, mishaps>>
    /\ UNCHANGED <<driver, resume_state, timer, fsg, wanted, otg, asleep, oops, n>>

\* do_start_stop, in the main thread of the storage gadget.
do_start_stop ==
    /\ MayProceed /\ driver = "storage"
    /\ command /\ command' = FALSE
    /\ IF is_suspend THEN UNCHANGED work ELSE otg_switch_report_event(queue, "ether")
    /\ UNCHANGED <<udc, timer, is_suspend, otg, resuming, asleep, daemon, port, oops, mishaps, n>>

-----------------------------------------------------------------------------
(* GDevSwitch replaces the gadget driver.                                  *)

DaemonRuns(step, next) ==
    /\ MayProceed /\ daemon.step = step
    /\ daemon' = [daemon EXCEPT !.step = next]

\* It reads an event and, if another driver is asked for than the one it has
\* loaded, removes that one first.
DaemonReads ==
    /\ MayProceed /\ daemon.step = "read" /\ daemon.inbox # <<>>
    /\ daemon' = [inbox |-> Tail(daemon.inbox), target |-> Head(daemon.inbox),
                  step |-> IF driver = Head(daemon.inbox) THEN "read" ELSE "quiet"]
    /\ UNCHANGED <<udc, timer, fsg, work, otg, resuming, asleep, port, oops, mishaps, n>>

\* Mutant: the driver is unhooked before the controller is stopped.
UnregisterQuiets_Unhooked ==
    /\ DaemonRuns("quiet", "stop")
    /\ driver' = "none"
    /\ UNCHANGED <<usb_state, resume_state, stopped, already_stopped, timer, fsg, work, otg,
                   resuming, asleep, port, oops, mishaps, n>>

\* usb_gadget_unregister_driver: the OTG driver forgets the gadget, ...
UnregisterQuiets ==
    /\ DaemonRuns("quiet", "stop")
    /\ otg' = [otg EXCEPT !.gadget = FALSE] /\ bus' = NoBus
    /\ UNCHANGED <<udc, timer, fsg, work, resuming, asleep, irq, oops, mishaps, n>>

\* ... dr_controller_stop turns interrupts off unless there is an A plug, ...
UnregisterStops ==
    /\ DaemonRuns("stop", "unhook")
    /\ IF otg.id THEN stopped' = TRUE /\ irq' = {} ELSE UNCHANGED <<stopped, irq>>
    /\ usb_state' = ATTACHED
    /\ UNCHANGED <<driver, resume_state, already_stopped, timer, fsg, work, otg, resuming, asleep,
                   bus, oops, mishaps, n>>

\* ... and the driver is disconnected, unbound (the storage gadget's thread
\* ends) and unhooked.
UnregisterUnhooks ==
    /\ DaemonRuns("unhook", "hook")
    /\ driver' = "none" /\ command' = FALSE
    /\ UNCHANGED <<usb_state, resume_state, stopped, already_stopped, timer, is_suspend, work, otg,
                   resuming, asleep, port, oops, mishaps, n>>

\* usb_gadget_register_driver: the driver is hooked up and bound; the storage
\* gadget is a new module with new variables, ...
RegisterHooks ==
    /\ DaemonRuns("hook", "start")
    /\ driver' = daemon.target /\ is_suspend' = FALSE
    /\ UNCHANGED <<usb_state, resume_state, stopped, already_stopped, timer, command, work, otg,
                   resuming, asleep, port, oops, mishaps, n>>

\* ... and the OTG driver is told of the gadget and starts it, if it may.
RegisterStarts ==
    /\ DaemonRuns("start", "read")
    /\ otg' = [otg EXCEPT !.gadget = TRUE]
    /\ IF otg.id THEN fsl_udc_resume("register", TRUE)
       ELSE stopped' = TRUE /\ UNCHANGED <<usb_state, already_stopped, resuming, port>>
    /\ UNCHANGED <<driver, resume_state, timer, fsg, work, asleep, oops, mishaps, n>>

-----------------------------------------------------------------------------
(* The host.  An unplugged cable looks like a suspended bus.               *)

HostActs(bits) ==
    /\ oops = "no" /\ ~asleep /\ ~stopped /\ otg.id /\ otg.gadget
    /\ irq' = irq \cup bits
    /\ UNCHANGED <<udc, timer, fsg, work, otg, resuming, asleep, daemon, oops, mishaps>>

BusEvent == n.bus < MaxBus /\ n' = [n EXCEPT !.bus = @ + 1]

HostResets ==
    /\ HostActs({"RESET"}) /\ BusEvent /\ bus.phase # "reset"
    /\ bus' = [NoBus EXCEPT !.phase = "reset"]

HostEndsReset ==
    /\ HostActs({"PORT_CHANGE"}) /\ bus.phase = "reset" /\ UNCHANGED n
    /\ bus' = [bus EXCEPT !.phase = "default"]

HostAddresses ==
    /\ HostActs({"INT"}) /\ bus.phase = "default" /\ ~bus.suspended /\ bus.sent = "nothing"
    /\ bus' = [bus EXCEPT !.sent = "SET_ADDRESS"] /\ UNCHANGED n

HostSuspends ==
    /\ HostActs({"SUSPEND"}) /\ BusEvent
    /\ bus.phase # "reset" /\ ~bus.suspended /\ bus.sent = "nothing"
    /\ bus' = [bus EXCEPT !.suspended = TRUE]

HostResumes ==
    /\ HostActs({"PORT_CHANGE"}) /\ BusEvent /\ bus.suspended
    /\ bus' = [bus EXCEPT !.suspended = FALSE]

HostStartsStops ==
    /\ HostActs({"INT"}) /\ bus.phase = "address" /\ ~bus.suspended /\ bus.sent = "nothing"
    /\ n.start < MaxStart /\ n' = [n EXCEPT !.start = @ + 1]
    /\ bus' = [bus EXCEPT !.sent = "START_STOP"]

-----------------------------------------------------------------------------
Daemon == DaemonReads \/ UnregisterQuiets \/ UnregisterStops \/ UnregisterUnhooks
          \/ RegisterHooks \/ RegisterStarts
Host   == HostResets \/ HostEndsReset \/ HostAddresses \/ HostSuspends \/ HostResumes
          \/ HostStartsStops
Kernel == fsl_udc_irq \/ suspend_timer_func \/ OtgDelayPasses \/ ResumeEnds

Next == Daemon \/ Host \/ Kernel \/ keventd \/ do_start_stop \/ IdChanges \/ PmSuspend \/ PmResume

Spec == Init /\ [][Next]_vars

\* Interrupts, timers, keventd, the thread and the daemon get the core.  Nothing
\* is assumed of the host, of the cable or of the one who wakes the system.
FairSpec ==
    /\ Spec
    /\ WF_vars(fsl_udc_irq) /\ WF_vars(suspend_timer_func) /\ WF_vars(OtgDelayPasses)
    /\ WF_vars(ResumeEnds) /\ WF_vars(keventd) /\ WF_vars(do_start_stop) /\ WF_vars(Daemon)

-----------------------------------------------------------------------------
(* Properties.                                                             *)

\* fsl_udc_irq never calls suspend, resume or disconnect of a driver that is
\* not there, although deregistration and ID changes run between interrupts.
CallbacksHaveDriver == oops # "irq"

InUse == bus.phase = "address" /\ ~bus.suspended /\ irq = {}

\* A device the host is using is neither put to sleep nor taken away: while it
\* is addressed and the bus is active, check_allow_sleep says no.  Two things break
\* this: a suspend and a resume that are handled in one interrupt, and OTG work
\* that starts a controller which runs already.
InUseKeepsAwake ==
    InUse /\ check_allow_sleep => mishaps \cap {"coalesced", "restarted"} # {}

\* A START STOP UNIT the host sends is reported: on an active bus
\* g_storage_is_suspend is not set.  The same two break it, and a system sleep or an
\* A plug while the bus is suspended: fsl_udc_resume does not call fsg_resume.
SwitchOffFollowsBus ==
    driver = "storage" /\ InUse /\ is_suspend
    => mishaps \cap {"coalesced", "restarted", "unresumed"} # {}

\* With an A plug the gadget's controller is off: neither late OTG work nor a new
\* driver nor system resume starts it, unless the OTG driver has stopped it twice.
OffWithAPlug == ~otg.id /\ otg.gadget /\ resuming = "no" => stopped \/ "misled" \in mishaps

Dead == oops # "no" \/ asleep

\* However events coalesce and cross, the driver asked for last is the one that
\* is loaded in the end.
LastWordWins == <>[](Dead \/ driver = wanted)

\* With a B plug and a driver the controller runs in the end, whatever ID
\* changes and sleeps went before, unless the OTG driver has stopped it twice.
ControllerReturns == <>[](Dead \/ ~otg.id \/ ~stopped \/ "misled" \in mishaps)
=============================================================================
