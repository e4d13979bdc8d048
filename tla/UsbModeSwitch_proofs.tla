----------------------- MODULE UsbModeSwitch_proofs -----------------------
(***************************************************************************)
(* Proofs about UsbModeSwitch, for any number of bus events, START STOP    *)
(* UNIT commands, ID pin changes and sleeps.                               *)
(***************************************************************************)
EXTENDS UsbModeSwitch, TLAPS

\* A driver is missing only between the two halves of a switch; meanwhile, and
\* while it is being removed, the OTG driver knows of no gadget and the host
\* cannot raise interrupts.
Hooked ==
    /\ driver = "none" => daemon.step = "hook"
    /\ daemon.step \in {"stop", "unhook", "hook", "start"} => ~otg.gadget
    /\ oops # "irq"

\* A controller that is stopped, has no gadget or has an A plug sees no bus.
BusOff == bus.phase = "off" /\ ~bus.suspended /\ bus.sent = "nothing"

Silent ==
    /\ stopped \/ ~otg.gadget => BusOff /\ irq = {}
    /\ ~otg.id => BusOff

\* Who may start a controller, and what is remembered of one that must not start.
Stopping ==
    /\ resuming # "no" \/ asleep => stopped
    /\ asleep /\ resuming # "no" => resuming = "sleep"
    /\ ~otg.id /\ otg.gadget /\ "misled" \notin mishaps =>
          /\ resuming = "no" /\ stopped
          /\ asleep => already_stopped

\* What the pending interrupts tell about the bus.
Pending ==
    /\ bus.sent # "nothing" => ~bus.suspended /\ "INT" \in irq
    /\ bus.phase = "reset" => ~bus.suspended
    /\ bus.phase = "address" => "RESET" \notin irq
    /\ bus.suspended /\ irq # {} => "SUSPEND" \in irq
    /\ "SUSPEND" \in irq /\ ~bus.suspended => {"PORT_CHANGE", "RESET"} \cap irq # {}

Configured == {DEFAULT, ADDRESS}

\* What the driver makes of a bus on which the device has its address: it is in
\* a state in use, or suspended and will be back in one when the bus resumes.
Tracking ==
    mishaps \cap {"coalesced", "restarted"} = {} /\ bus.phase = "address"
    /\ ~({"SUSPEND", "PORT_CHANGE"} \subseteq irq) =>
          \/ usb_state \in Configured /\ (bus.suspended => "SUSPEND" \in irq)
          \/ /\ usb_state = SUSPENDED /\ resume_state \in Configured
             /\ "SUSPEND" \notin irq
             /\ bus.suspended \/ "PORT_CHANGE" \in irq

\* The storage gadget believes in a suspended bus only with the controller driver.
Believing ==
    /\ daemon.step = "start" => ~is_suspend
    /\ mishaps \cap {"coalesced", "restarted", "unresumed"} = {}
       /\ driver = "storage" /\ is_suspend /\ otg.gadget => usb_state = SUSPENDED

Safe == Hooked /\ Silent /\ Stopping /\ Pending /\ Tracking /\ Believing
IInv == TypeOK /\ Safe

-----------------------------------------------------------------------------
USE DEF udc, fsg, work, port, Up, MayProceed, NoBus, NOTATTACHED, ATTACHED, POWERED, DEFAULT,
        ADDRESS, SUSPENDED, UsbStates, Drivers, Works, Bits, DaemonRuns, HostActs, BusEvent

\* Every step preserves the inductive invariant.
LEMMA SafeStep == IInv /\ [Next]_vars => Safe'
<1> SUFFICES ASSUME IInv, [Next]_vars PROVE Safe'
  OBVIOUS
<1> USE DEF IInv, TypeOK, Safe, Hooked, BusOff, Silent, Stopping, Pending, Tracking, Believing, Configured,
            OtgType, DaemonType, BusType
<1>1. CASE DaemonReads
  BY <1>1 DEF DaemonReads
<1>2. CASE UnregisterQuiets
  BY <1>2 DEF UnregisterQuiets
<1>3. CASE UnregisterStops
  BY <1>3 DEF UnregisterStops
<1>4. CASE UnregisterUnhooks
  BY <1>4 DEF UnregisterUnhooks
<1>5. CASE RegisterHooks
  BY <1>5 DEF RegisterHooks
<1>6. CASE RegisterStarts
  BY <1>6 DEF RegisterStarts, fsl_udc_resume
<1>7. CASE HostResets
  BY <1>7 DEF HostResets
<1>8. CASE HostEndsReset
  BY <1>8 DEF HostEndsReset
<1>9. CASE HostAddresses
  BY <1>9 DEF HostAddresses
<1>10. CASE HostSuspends
  BY <1>10 DEF HostSuspends
<1>11. CASE HostResumes
  BY <1>11 DEF HostResumes
<1>12. CASE HostStartsStops
  BY <1>12 DEF HostStartsStops
<1>13. CASE fsl_udc_irq
  <2>1. Hooked'
    BY <1>13 DEF fsl_udc_irq, Suspended
  <2>2. Silent'
    <3>1. BusOff => BusOff'
      BY <1>13, ZenonT(60) DEF fsl_udc_irq
    <3> QED
      BY <1>13, <3>1 DEF fsl_udc_irq
  <2>3. Stopping'
    BY <1>13 DEF fsl_udc_irq, Suspended
  <2>4. Pending'
    BY <1>13, ZenonT(60) DEF fsl_udc_irq, Suspended
  <2>5. Tracking'
    <3> SUFFICES ASSUME mishaps' \cap {"coalesced", "restarted"} = {}, bus'.phase = "address"
                 PROVE  \/ usb_state' \in Configured /\ ~bus'.suspended
                        \/ /\ usb_state' = SUSPENDED /\ resume_state' \in Configured
                           /\ bus'.suspended
      BY <1>13 DEF fsl_udc_irq
    <3>1. /\ ~(driver = "none" /\ ((usb_state = SUSPENDED /\ ~bus.suspended) \/ {"RESET", "SUSPEND"} \cap irq # {}))
          /\ mishaps' = mishaps /\ ~({"SUSPEND", "PORT_CHANGE"} \subseteq irq)
          /\ bus'.suspended = bus.suspended
      BY <1>13, ZenonT(60) DEF fsl_udc_irq
    <3>2. CASE bus.phase # "address"
      <4>1. "INT" \in irq /\ bus.sent = "SET_ADDRESS" /\ "RESET" \notin irq
        BY <1>13, <3>1, <3>2, ZenonT(60) DEF fsl_udc_irq
      <4>2. ~bus.suspended /\ "SUSPEND" \notin irq
        BY <3>1, <4>1
      <4> QED
        BY <1>13, <3>1, <4>1, <4>2 DEF fsl_udc_irq
    <3>3. CASE bus.phase = "address"
      <4>1. "RESET" \notin irq
        BY <3>3
      <4>2. CASE usb_state \in Configured
        BY <1>13, <3>1, <3>3, <4>1, <4>2 DEF fsl_udc_irq
      <4>3. CASE usb_state = SUSPENDED
        BY <1>13, <3>1, <3>3, <4>1, <4>3 DEF fsl_udc_irq
      <4> QED
        BY <3>1, <3>3, <4>2, <4>3
    <3> QED
      BY <3>2, <3>3
  <2>6. Believing'
    BY <1>13 DEF fsl_udc_irq, Suspended
  <2> QED
    BY <2>1, <2>2, <2>3, <2>4, <2>5, <2>6
<1>14. CASE suspend_timer_func
  BY <1>14 DEF suspend_timer_func, otg_switch_report_event
<1>15. CASE OtgDelayPasses
  BY <1>15 DEF OtgDelayPasses
<1>16. CASE ResumeEnds
  BY <1>16 DEF ResumeEnds
<1>17. CASE keventd
  <2>1. CASE Head(queue) = "OTG" /\ otg.id /\ otg.gadget
    BY <1>17, <2>1, ZenonT(60) DEF keventd, fsl_udc_resume
  <2>2. CASE ~(Head(queue) = "OTG" /\ otg.id /\ otg.gadget)
    <3>1. daemon'.step = daemon.step
      BY <1>17 DEF keventd
    <3> QED
      BY <1>17, <2>2, <3>1 DEF keventd
  <2> QED
    BY <2>1, <2>2
<1>18. CASE do_start_stop
  BY <1>18 DEF do_start_stop, otg_switch_report_event
<1>19. CASE IdChanges
  BY <1>19 DEF IdChanges, udc_suspend
<1>20. CASE PmSuspend
  BY <1>20 DEF PmSuspend, udc_suspend
<1>21. CASE PmResume
  BY <1>21 DEF PmResume, fsl_udc_resume
<1>22. CASE UNCHANGED vars
  BY <1>22 DEF vars
<1> QED
  BY <1>1, <1>2, <1>3, <1>4, <1>5, <1>6, <1>7, <1>8, <1>9, <1>10, <1>11, <1>12, <1>13, <1>14, <1>15, <1>16, <1>17, <1>18, <1>19, <1>20, <1>21, <1>22 DEF Next, Daemon, Host, Kernel

-----------------------------------------------------------------------------
\* schedule_work keeps the work queue free of duplicates.
LEMMA ScheduleType ==
    ASSUME NEW q \in Seq(Works), \A j, k \in DOMAIN q : q[j] = q[k] => j = k, NEW w \in Works
    PROVE  /\ Schedule(q, w) \in Seq(Works)
           /\ \A j, k \in DOMAIN Schedule(q, w) : Schedule(q, w)[j] = Schedule(q, w)[k] => j = k
<1>1. CASE \E k \in DOMAIN q : q[k] = w
  BY <1>1 DEF Schedule
<1>2. CASE \A k \in DOMAIN q : q[k] # w
  <2>1. Schedule(q, w) = Append(q, w)
    BY <1>2 DEF Schedule
  <2> QED
    BY <1>2, <2>1
<1> QED
  BY <1>1, <1>2

\* The steps of GDevSwitch.
LEMMA DaemonType_Step ==
    ASSUME TypeOK, NEW a, NEW b \in {"read", "quiet", "stop", "unhook", "hook", "start"},
           DaemonRuns(a, b)
    PROVE  daemon' \in DaemonType
BY DEF TypeOK, DaemonType

\* What the two operations on the controller leave behind.
LEMMA ControllerType ==
    ASSUME TypeOK, NEW who \in {"register", "work", "sleep"}, NEW was \in BOOLEAN,
           (udc_suspend /\ UNCHANGED <<usb_state, resuming>>) \/ fsl_udc_resume(who, was)
    PROVE  /\ usb_state' \in UsbStates /\ stopped' \in BOOLEAN /\ already_stopped' \in BOOLEAN
           /\ resuming' \in {"no", "register", "work", "sleep"}
           /\ bus' \in BusType /\ irq' \subseteq Bits
<1>1. NoBus \in BusType
  BY DEF BusType
<1> QED
  BY <1>1 DEF TypeOK, udc_suspend, fsl_udc_resume

\* Every variable keeps its type.
LEMMA TypeStep == IInv /\ [Next]_vars => TypeOK'
<1> SUFFICES ASSUME IInv, [Next]_vars PROVE TypeOK'
  OBVIOUS
<1> USE ModeSwitchAssumption DEF IInv, TypeOK
<1>0. NoBus \in BusType
  BY DEF BusType
<1>1. CASE DaemonReads
  <2>1. daemon' \in DaemonType
    BY <1>1 DEF DaemonReads, DaemonType
  <2> QED
    BY <1>1, <2>1 DEF DaemonReads
<1>2. CASE UnregisterQuiets
  <2>1. daemon' \in DaemonType
    BY <1>2, DaemonType_Step DEF UnregisterQuiets
  <2>2. otg' \in OtgType
    BY <1>2 DEF UnregisterQuiets, OtgType
  <2> QED
    BY <1>0, <1>2, <2>1, <2>2 DEF UnregisterQuiets
<1>3. CASE UnregisterStops \/ UnregisterUnhooks \/ RegisterHooks
  <2>1. daemon' \in DaemonType
    BY <1>3, DaemonType_Step DEF UnregisterStops, UnregisterUnhooks, RegisterHooks
  <2>2. driver' \in Drivers \cup {"none"} /\ stopped' \in BOOLEAN
    BY <1>3 DEF UnregisterStops, UnregisterUnhooks, RegisterHooks, DaemonType
  <2>3. CASE UnregisterStops
    BY <2>1, <2>2, <2>3 DEF UnregisterStops
  <2>4. CASE UnregisterUnhooks
    BY <2>1, <2>4, ZenonT(60) DEF UnregisterUnhooks
  <2>5. CASE RegisterHooks
    BY <2>1, <2>2, <2>5, ZenonT(60) DEF RegisterHooks
  <2> QED
    BY <1>3, <2>3, <2>4, <2>5
<1>4. CASE RegisterStarts
  <2>1. daemon' \in DaemonType
    BY <1>4, DaemonType_Step DEF RegisterStarts
  <2>2. otg' \in OtgType
    BY <1>4 DEF RegisterStarts, OtgType
  <2>3. CASE fsl_udc_resume("register", TRUE)
    BY <1>4, <2>1, <2>2, <2>3, ControllerType DEF RegisterStarts
  <2>4. CASE ~otg.id
    BY <1>4, <2>1, <2>2, <2>4 DEF RegisterStarts
  <2> QED
    BY <1>4, <2>3, <2>4 DEF RegisterStarts
<1>5. CASE HostResets \/ HostEndsReset \/ HostAddresses \/ HostSuspends \/ HostResumes
           \/ HostStartsStops
  <2>1. n' \in CountType
    BY <1>5, SMTT(30) DEF HostResets, HostEndsReset, HostAddresses, HostSuspends, HostResumes,
                HostStartsStops, CountType
  <2>2. bus' \in BusType
    BY <1>5 DEF HostResets, HostEndsReset, HostAddresses, HostSuspends, HostResumes,
                HostStartsStops, BusType
  <2>3. irq' \subseteq Bits /\ UNCHANGED <<udc, timer, fsg, work, otg, resuming, asleep, daemon, oops, mishaps>>
    BY <1>5 DEF HostResets, HostEndsReset, HostAddresses, HostSuspends, HostResumes,
                HostStartsStops
  <2> QED
    BY <2>1, <2>2, <2>3
<1>6. CASE fsl_udc_irq
  <2>1. bus' \in BusType
    BY <1>6, ZenonT(60) DEF fsl_udc_irq, BusType
  <2>2. usb_state' \in UsbStates /\ resume_state' \in UsbStates
    BY <1>6 DEF fsl_udc_irq
  <2>3. timer' \in BOOLEAN /\ is_suspend' \in BOOLEAN /\ command' \in BOOLEAN
    BY <1>6 DEF fsl_udc_irq, Suspended
  <2>4. oops' \in {"no", "timer", "irq"} /\ mishaps' \subseteq {"coalesced", "restarted", "unresumed", "misled"}
    BY <1>6 DEF fsl_udc_irq
  <2> QED
    BY <1>6, <2>1, <2>2, <2>3, <2>4 DEF fsl_udc_irq
<1>7. CASE suspend_timer_func
  <2> DEFINE q == Schedule(queue, "SLEEP")
  <2>1. q \in Seq(Works) /\ \A j, k \in DOMAIN q : q[j] = q[k] => j = k
    BY ScheduleType
  <2> HIDE DEF q
  <2>2. /\ Schedule(q, "storage") \in Seq(Works)
        /\ \A j, k \in DOMAIN Schedule(q, "storage") :
              Schedule(q, "storage")[j] = Schedule(q, "storage")[k] => j = k
    BY <2>1, ScheduleType
  <2>3. queue' \in {queue, q, Schedule(q, "storage")} /\ wanted' \in Drivers
        /\ oops' \in {"no", "timer", "irq"}
    BY <1>7 DEF suspend_timer_func, otg_switch_report_event, q
  <2>4. queue' \in Seq(Works) /\ \A j, k \in DOMAIN queue' : queue'[j] = queue'[k] => j = k
    BY <2>1, <2>2, <2>3
  <2>5. timer' \in BOOLEAN /\ UNCHANGED <<udc, fsg, otg, resuming, asleep, daemon, port, mishaps, n>>
    BY <1>7 DEF suspend_timer_func
  <2> QED
    BY <2>3, <2>4, <2>5
<1>8. CASE OtgDelayPasses
  <2>1. otg' \in OtgType
    BY <1>8 DEF OtgDelayPasses, OtgType
  <2>2. queue' \in Seq(Works) /\ \A j, k \in DOMAIN queue' : queue'[j] = queue'[k] => j = k
    BY <1>8, ScheduleType DEF OtgDelayPasses
  <2> QED
    BY <1>8, <2>1, <2>2 DEF OtgDelayPasses
<1>9. CASE ResumeEnds
  BY <1>0, <1>9 DEF ResumeEnds
<1>10. CASE keventd
  <2>1. queue' \in Seq(Works) /\ \A j, k \in DOMAIN queue' : queue'[j] = queue'[k] => j = k
    BY <1>10, SMTT(30) DEF keventd
  <2>2. daemon' \in DaemonType
    <3>1. CASE Head(queue) \in Drivers
      <4>1. Append(daemon.inbox, Head(queue)) \in Seq(Drivers)
        BY <3>1 DEF DaemonType
      <4>2. daemon' = [daemon EXCEPT !.inbox = Append(@, Head(queue))]
        BY <1>10, <3>1 DEF keventd
      <4> QED
        BY <4>1, <4>2 DEF DaemonType
    <3>2. CASE Head(queue) \notin Drivers
      BY <1>10, <3>2 DEF keventd
    <3> QED
      BY <3>1, <3>2
  <2>3. CASE fsl_udc_resume("work", stopped)
    BY <1>10, <2>1, <2>2, <2>3, ControllerType DEF keventd
  <2>4. CASE UNCHANGED <<usb_state, stopped, already_stopped, resuming, port, mishaps>>
    BY <1>10, <2>1, <2>2, <2>4 DEF keventd
  <2> QED
    BY <1>10, <2>3, <2>4 DEF keventd
<1>11. CASE do_start_stop
  <2>1. queue' \in Seq(Works) /\ \A j, k \in DOMAIN queue' : queue'[j] = queue'[k] => j = k
    BY <1>11, ScheduleType DEF do_start_stop, otg_switch_report_event
  <2> QED
    BY <1>11, <2>1, ZenonT(60) DEF do_start_stop, otg_switch_report_event
<1>12. CASE IdChanges
  <2>1. otg' \in OtgType
    BY <1>12 DEF IdChanges, OtgType
  <2>2. n' \in CountType
    BY <1>12 DEF IdChanges, CountType
  <2>3. mishaps' \subseteq {"coalesced", "restarted", "unresumed", "misled"}
    BY <1>12 DEF IdChanges
  <2>4. CASE udc_suspend
    BY <1>12, <2>1, <2>2, <2>3, <2>4, ControllerType DEF IdChanges
  <2>5. CASE UNCHANGED <<stopped, already_stopped, port>>
    BY <1>12, <2>1, <2>2, <2>3, <2>5 DEF IdChanges
  <2> QED
    BY <1>12, <2>4, <2>5 DEF IdChanges
<1>13. CASE PmSuspend
  <2>1. n' \in CountType
    BY <1>13, SMTT(30) DEF PmSuspend, CountType
  <2> QED
    BY <1>13, <2>1, ControllerType DEF PmSuspend
<1>14. CASE PmResume
  <2>1. queue' \in Seq(Works) /\ \A j, k \in DOMAIN queue' : queue'[j] = queue'[k] => j = k
    BY <1>14, ScheduleType DEF PmResume
  <2> QED
    BY <1>14, <2>1, ControllerType DEF PmResume
<1>15. CASE UNCHANGED vars
  BY <1>15 DEF vars
<1> QED
  BY <1>1, <1>2, <1>3, <1>4, <1>5, <1>6, <1>7, <1>8, <1>9, <1>10, <1>11, <1>12, <1>13, <1>14, <1>15
     DEF Next, Daemon, Host, Kernel

-----------------------------------------------------------------------------
\* The inductive invariant holds in every state: how the controller's registers,
\* the flags of its driver, the timer and the work items go together.
THEOREM Inductive == Spec => []IInv
<1>1. Init => IInv
  <2> SUFFICES ASSUME Init PROVE IInv
    OBVIOUS
  <2>1. /\ otg \in OtgType /\ daemon \in DaemonType /\ bus \in BusType
        /\ daemon.step = "hook" /\ ~otg.gadget /\ BusOff
    <3>1. otg \in OtgType /\ ~otg.gadget
      BY DEF Init, OtgType
    <3>2. daemon \in DaemonType /\ daemon.step = "hook"
      BY DEF Init, DaemonType
    <3>3. bus \in BusType /\ BusOff
      BY DEF Init, BusType, BusOff
    <3> QED
      BY <3>1, <3>2, <3>3
  <2>2. n \in CountType
    BY ModeSwitchAssumption DEF Init, CountType
  <2>3. TypeOK
    <3>1. queue \in Seq(Works) /\ \A j, k \in DOMAIN queue : queue[j] = queue[k] => j = k
      BY DEF Init
    <3>2. usb_state \in UsbStates /\ resume_state \in UsbStates
      BY DEF Init
    <3> QED
      BY <2>1, <2>2, <3>1, <3>2 DEF Init, TypeOK
  <2>4. Safe
    BY <2>1 DEF Init, Safe, Hooked, Silent, Stopping, Pending, Tracking, Believing, BusOff
  <2> QED
    BY <2>3, <2>4 DEF IInv
<1>2. IInv /\ [Next]_vars => IInv'
  BY SafeStep, TypeStep DEF IInv
<1> QED
  BY <1>1, <1>2, PTL DEF Spec

\* The controller driver, the OTG driver, the work queue, the daemon and the bus
\* keep their types; no work item is queued twice.
THEOREM TypeCorrect == Spec => []TypeOK
<1>1. IInv => TypeOK
  BY DEF IInv
<1> QED
  BY <1>1, Inductive, PTL

\* fsl_udc_irq never calls into a gadget driver that is not there, however often
\* the drivers are switched and whatever comes in between.
THEOREM CallbacksSafe == Spec => []CallbacksHaveDriver
<1>1. IInv => CallbacksHaveDriver
  BY DEF IInv, Safe, Hooked, CallbacksHaveDriver
<1> QED
  BY <1>1, Inductive, PTL

\* With an A plug the controller stays off, unless the OTG driver has stopped a
\* stopped controller, for any sequence of ID changes, sleeps and switches.
THEOREM APlugOff == Spec => []OffWithAPlug
<1>1. IInv => OffWithAPlug
  BY DEF IInv, Safe, Stopping, OffWithAPlug
<1> QED
  BY <1>1, Inductive, PTL

\* A device in use is not allowed to sleep, unless a suspend and a resume were
\* handled in one interrupt or a running controller was started again.
THEOREM InUseAwake == Spec => []InUseKeepsAwake
<1>1. IInv => InUseKeepsAwake
  BY DEF IInv, TypeOK, BusType, Safe, Silent, BusOff, Tracking, Configured, InUse,
         InUseKeepsAwake, check_allow_sleep
<1> QED
  BY <1>1, Inductive, PTL

\* g_storage_is_suspend is not set on a bus in use, with the same exceptions and
\* that of a controller that was stopped while the bus was suspended.
THEOREM SwitchOffRight == Spec => []SwitchOffFollowsBus
<1>1. IInv => SwitchOffFollowsBus
  BY DEF IInv, TypeOK, BusType, Safe, Silent, BusOff, Tracking, Believing, Configured, InUse,
         SwitchOffFollowsBus
<1> QED
  BY <1>1, Inductive, PTL
=============================================================================
