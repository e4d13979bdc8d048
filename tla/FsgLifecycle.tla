---------------------------- MODULE FsgLifecycle ----------------------------
(***************************************************************************)
(* The life of the storage gadget driver: insmod (fsg_init, fsg_bind), the *)
(* main thread, which may be killed at any time, rmmod (fsg_cleanup), the  *)
(* sysfs "file" attribute of each LUN, and the interrupts of the UDC       *)
(* (drivers/usb/gadget/file_storage.c and arcotg_udc.c).                   *)
(*                                                                         *)
(* The driver is deregistered by rmmod or by the dying thread; either way  *)
(* usb_gadget_unregister_driver calls fsg_unbind, which stops the thread.  *)
(* The REGISTERED bit, the thread_notifier completion and the reference    *)
(* count of fsg_dev keep the three from tripping over each other.          *)
(***************************************************************************)
EXTENDS Integers, FiniteSets

CONSTANTS
    NLuns,          \* number of LUNs
    Faults          \* which of the rare events happen: "attr", device_create_file
                    \* fails; "early", the thread is killed before insmod returns

ASSUME LunsAssumption == NLuns \in Nat \ {0} /\ Faults \subseteq {"attr", "early"}

Luns  == 0 .. NLuns - 1
Procs == {"insmod", "thread", "rmmod"}

VARIABLES
    pc,             \* where each process is
    i,              \* the loop variable of each process
    udc_driver,     \* udc_controller->driver # 0
    udc_on,         \* the controller runs and interrupts
    REGISTERED,     \* the atomic bit
    state,          \* fsg->state, reduced to the exceptions that matter here
    running,        \* the host has configured the device: the thread serves commands
    killed,         \* a kill signal is pending for the thread
    notifier,       \* thread_notifier: completions not yet consumed
    allocated,      \* fsg_dev exists
    refs,           \* fsg->ref (-1: dropped once too often)
    lundev,         \* the state of each LUN's device
    filp,           \* which LUNs have their backing file open
    filesem,        \* who holds the semaphore: readers, or the writer
    bufs,           \* ep0req and the data buffers are allocated
    op,             \* the sysfs store_file in progress: its LUN and step
    unregs,         \* auxiliary: how often the driver has been deregistered
    faulted         \* auxiliary: the rare events that have happened

vars == <<pc, i, udc_driver, udc_on, REGISTERED, state, running, killed, notifier,
          allocated, refs, lundev, filp, filesem, bufs, op, unregs, faulted>>

NoOp == [lun |-> -1, at |-> "none"]

InsmodPcs == {"alloc", "hook", "lun", "open", "bufs", "create", "set", "run", "out",
              "out_complete", "out_unhook", "put", "ok", "failed"}
UnbindPcs == {"ub_clear", "ub_lun", "ub_test", "ub_wait", "ub_again", "ub_free"}
UnregPcs  == {"ur_stop", "ur_disc", "ur_unhook"}
ThreadPcs == {"none", "loop", "cmd", "exit", "deregister", "complete", "dead"}
RmmodPcs  == {"none", "cleanup", "wait", "put", "done"}

TypeOK ==
    /\ pc \in [Procs -> InsmodPcs \cup UnbindPcs \cup UnregPcs \cup ThreadPcs \cup RmmodPcs]
    /\ i \in [Procs -> 0 .. NLuns]
    /\ udc_driver \in BOOLEAN /\ udc_on \in BOOLEAN /\ REGISTERED \in BOOLEAN
    /\ state \in {"IDLE", "DISCONNECT", "EXIT", "TERMINATED"}
    /\ running \in BOOLEAN /\ killed \in BOOLEAN
    /\ notifier \in 0 .. 2
    /\ allocated \in BOOLEAN /\ refs \in -1 .. NLuns + 1
    /\ lundev \in [Luns -> {"none", "registered", "zombie", "released"}]
    /\ filp \subseteq Luns
    /\ filesem \in [readers : SUBSET {"thread"}, writer : BOOLEAN]
    /\ bufs \in BOOLEAN
    /\ op \in [lun : Luns, at : {"lock", "swap"}] \cup {NoOp}
    /\ unregs \in 0 .. 2 /\ faulted \subseteq Faults

Init ==
    /\ pc = [insmod |-> "alloc", thread |-> "none", rmmod |-> "none"]
    /\ i = [p \in Procs |-> 0]
    /\ udc_driver = FALSE /\ udc_on = FALSE /\ REGISTERED = FALSE
    /\ state = "IDLE" /\ running = FALSE /\ killed = FALSE /\ notifier = 0
    /\ allocated = FALSE /\ refs = 0
    /\ lundev = [l \in Luns |-> "none"] /\ filp = {}
    /\ filesem = [readers |-> {}, writer |-> FALSE]
    /\ bufs = FALSE /\ op = NoOp /\ unregs = 0 /\ faulted = {}

Goto(p, from, to) == pc[p] = from /\ pc' = [pc EXCEPT ![p] = to]

\* Mutant: the last reference is leaked.
kref_put_Leak ==
    /\ refs' = IF refs = 1 THEN 1 ELSE refs - 1
    /\ UNCHANGED allocated

\* kref_put: the last reference frees fsg_dev.
kref_put ==
    /\ refs' = refs - 1
    /\ allocated' = (allocated /\ refs # 1)

udc   == <<udc_driver, udc_on>>
luns  == <<lundev, filp>>
mem   == <<allocated, refs>>
flow  == <<REGISTERED, state, running, killed, notifier>>
aux   == <<unregs, faulted>>

-----------------------------------------------------------------------------
(* insmod: fsg_init, usb_gadget_register_driver, fsg_bind.                 *)

Alloc ==
    /\ \/ /\ Goto("insmod", "alloc", "hook")
          /\ allocated' = TRUE /\ refs' = 1
       \/ Goto("insmod", "alloc", "failed") /\ UNCHANGED mem
    /\ UNCHANGED <<i, udc, flow, luns, filesem, bufs, op, aux>>

\* usb_gadget_register_driver hooks the driver up and calls fsg_bind; its
\* first steps are check_parameters and the allocation of the LUNs.
Hook ==
    /\ \E to \in {"lun", "out"} : Goto("insmod", "hook", to)
    /\ udc_driver' = TRUE
    /\ UNCHANGED <<i, udc_on, flow, mem, luns, filesem, bufs, op, aux>>

\* One turn of fsg_bind's LUN loop, up to the reference it takes.
\* On a failure to create an attribute file the device is unregistered.
RegisterLun ==
    /\ LET l == i["insmod"] IN
       \/ /\ l = NLuns /\ Goto("insmod", "lun", "bufs")
          /\ UNCHANGED <<lundev, refs, faulted>>
       \/ /\ l < NLuns /\ Goto("insmod", "lun", "open")
          /\ lundev' = [lundev EXCEPT ![l] = "registered"]
          /\ refs' = refs + 1
          /\ UNCHANGED faulted
       \/ /\ l < NLuns /\ Goto("insmod", "lun", "out")     \* device_register fails
          /\ UNCHANGED <<lundev, refs, faulted>>
       \/ /\ l < NLuns /\ "attr" \in Faults /\ Goto("insmod", "lun", "out")
          /\ lundev' = [lundev EXCEPT ![l] = "zombie"]
          /\ faulted' = faulted \cup {"attr"}
          /\ UNCHANGED refs
    /\ UNCHANGED <<i, udc, flow, allocated, filp, filesem, bufs, op, unregs>>

\* The end of the turn: open the backing file, if one is given.
OpenLun ==
    /\ \/ /\ Goto("insmod", "open", "lun")
          /\ i' = [i EXCEPT !["insmod"] = @ + 1]
          /\ \/ filp' = filp \cup {i["insmod"]}
             \/ UNCHANGED filp
       \/ /\ Goto("insmod", "open", "out")
          /\ UNCHANGED <<i, filp>>
    /\ UNCHANGED <<udc, flow, mem, lundev, filesem, bufs, op, aux>>

\* Endpoints, the ep0 request, the data buffers, the thread.
AllocBuffers ==
    /\ \E to \in {"create", "out"} : Goto("insmod", "bufs", to)
    /\ bufs' = TRUE
    /\ UNCHANGED <<i, udc, flow, mem, luns, filesem, op, aux>>

CreateThread ==
    /\ \E to \in {"set", "out"} : Goto("insmod", "create", to)
    /\ UNCHANGED <<i, udc, flow, mem, luns, filesem, bufs, op, aux>>

\* set_bit(REGISTERED), wake the thread up, fsg_bind returns.
SetRegistered ==
    /\ pc["insmod"] = "set"
    /\ pc' = [pc EXCEPT !["insmod"] = "run", !["thread"] = "loop"]
    /\ REGISTERED' = TRUE
    /\ UNCHANGED <<i, udc, state, running, killed, notifier, mem, luns, filesem, bufs, op, aux>>

\* The end of usb_gadget_register_driver: the transceiver turns the controller
\* on; if it refuses, fsg_unbind is called after all.
RunController ==
    /\ \/ Goto("insmod", "run", "ok") /\ udc_on' = TRUE /\ UNCHANGED i
       \/ /\ Goto("insmod", "run", "ub_clear")
          /\ i' = [i EXCEPT !["insmod"] = 0]
          /\ UNCHANGED udc_on
    /\ UNCHANGED <<udc_driver, flow, mem, luns, filesem, bufs, op, aux>>

\* fsg_bind fails: the thread counts as dead, fsg_unbind cleans up.
BindFails ==
    /\ Goto("insmod", "out", "ub_clear")
    /\ state' = "TERMINATED"
    /\ i' = [i EXCEPT !["insmod"] = 0]
    /\ UNCHANGED <<udc, REGISTERED, running, killed, notifier, mem, luns, filesem, bufs, op, aux>>

BindCompletes ==
    /\ Goto("insmod", "out_complete", "out_unhook")
    /\ notifier' = notifier + 1
    /\ UNCHANGED <<i, udc, REGISTERED, state, running, killed, mem, luns, filesem, bufs, op, aux>>

RegisterFails ==
    /\ Goto("insmod", "out_unhook", "put")
    /\ udc_driver' = FALSE
    /\ UNCHANGED <<i, udc_on, flow, mem, luns, filesem, bufs, op, aux>>

InitFails ==
    /\ Goto("insmod", "put", "failed")
    /\ kref_put
    /\ UNCHANGED <<i, udc, flow, luns, filesem, bufs, op, aux>>

Insmod ==
    \/ Alloc \/ Hook \/ RegisterLun \/ OpenLun \/ AllocBuffers \/ CreateThread
    \/ SetRegistered \/ RunController
    \/ BindFails \/ BindCompletes \/ RegisterFails \/ InitFails

-----------------------------------------------------------------------------
(* usb_gadget_unregister_driver and fsg_unbind, run by p.                  *)

AfterUnregister(p) == IF p = "thread" THEN "complete" ELSE "wait"

\* It refuses to deregister a driver that is not hooked up.
StopController(p) ==
    /\ IF udc_driver
       THEN Goto(p, "ur_stop", "ur_disc") /\ udc_on' = FALSE /\ unregs' = unregs + 1
       ELSE Goto(p, "ur_stop", AfterUnregister(p)) /\ UNCHANGED <<udc_on, unregs>>
    /\ UNCHANGED <<i, udc_driver, flow, mem, luns, filesem, bufs, op, faulted>>

\* raise_exception for the two exceptions of this model.
raise_exception(new) ==
    state' = IF state = "TERMINATED" \/ (state = "EXIT" /\ new = "DISCONNECT")
             THEN state ELSE new

\* "disconnect gadget before unbinding"
Disconnect(p) ==
    /\ Goto(p, "ur_disc", "ub_clear")
    /\ raise_exception("DISCONNECT")
    /\ i' = [i EXCEPT ![p] = 0]
    /\ UNCHANGED <<udc, REGISTERED, running, killed, notifier, mem, luns, filesem, bufs, op, aux>>

UnbindClear(p) ==
    /\ Goto(p, "ub_clear", "ub_lun")
    /\ REGISTERED' = FALSE
    /\ UNCHANGED <<i, udc, state, running, killed, notifier, mem, luns, filesem, bufs, op, aux>>

\* One turn of fsg_unbind's loop.  device_remove_file waits for a store_file
\* in progress on that LUN; close_backing_file takes no semaphore.
UnbindLun(p) ==
    LET l == i[p] IN
    /\ \/ /\ l = NLuns /\ Goto(p, "ub_lun", "ub_test")
          /\ UNCHANGED <<i, lundev, filp>>
       \/ /\ l < NLuns /\ Goto(p, "ub_lun", "ub_lun")
          /\ i' = [i EXCEPT ![p] = l + 1]
          /\ op.lun # l
          /\ IF lundev[l] = "registered"
             THEN /\ lundev' = [lundev EXCEPT ![l] = "zombie"]
                  /\ filp' = filp \ {l}
             ELSE UNCHANGED <<lundev, filp>>
    /\ UNCHANGED <<udc, flow, mem, filesem, bufs, op, aux>>

\* Mutant: fsg_unbind does not wait for the thread.
UnbindTest_NoWait(p) ==
    /\ Goto(p, "ub_test", "ub_free")
    /\ raise_exception("EXIT")
    /\ UNCHANGED <<i, udc, REGISTERED, running, killed, notifier, mem, luns, filesem, bufs, op, aux>>

\* Mutant: fsg_unbind waits even for a thread that is dead.
UnbindTest_AlwaysWait(p) ==
    /\ Goto(p, "ub_test", "ub_wait")
    /\ raise_exception("EXIT")
    /\ UNCHANGED <<i, udc, REGISTERED, running, killed, notifier, mem, luns, filesem, bufs, op, aux>>

\* Tell the thread to exit, unless it is dead already.
UnbindTest(p) ==
    /\ Goto(p, "ub_test", IF state = "TERMINATED" THEN "ub_free" ELSE "ub_wait")
    /\ raise_exception("EXIT")
    /\ UNCHANGED <<i, udc, REGISTERED, running, killed, notifier, mem, luns, filesem, bufs, op, aux>>

UnbindWait(p) ==
    /\ Goto(p, "ub_wait", "ub_again")
    /\ notifier > 0 /\ notifier' = notifier - 1
    /\ UNCHANGED <<i, udc, REGISTERED, state, running, killed, mem, luns, filesem, bufs, op, aux>>

\* Mutant: the completion is consumed.
UnbindAgain_Consumes(p) ==
    /\ Goto(p, "ub_again", "ub_free")
    /\ UNCHANGED <<i, udc, flow, mem, luns, filesem, bufs, op, aux>>

\* "The cleanup routine waits for this completion also"
UnbindAgain(p) ==
    /\ Goto(p, "ub_again", "ub_free")
    /\ notifier' = notifier + 1
    /\ UNCHANGED <<i, udc, REGISTERED, state, running, killed, mem, luns, filesem, bufs, op, aux>>

\* Free the buffers and return: to fsg_bind, if that has failed (there is no
\* thread yet), to usb_gadget_register_driver or usb_gadget_unregister_driver.
UnbindFree(p) ==
    /\ Goto(p, "ub_free", IF p # "insmod" THEN "ur_unhook"
                          ELSE IF pc["thread"] = "none" THEN "out_complete"
                          ELSE "out_unhook")
    /\ bufs' = FALSE
    /\ UNCHANGED <<i, udc, flow, mem, luns, filesem, op, aux>>

Unhook(p) ==
    /\ Goto(p, "ur_unhook", AfterUnregister(p))
    /\ udc_driver' = FALSE
    /\ UNCHANGED <<i, udc_on, flow, mem, luns, filesem, bufs, op, aux>>

Unregister(p) ==
    \/ StopController(p) \/ Disconnect(p)
    \/ UnbindClear(p) \/ UnbindLun(p) \/ UnbindTest(p) \/ UnbindWait(p)
    \/ UnbindAgain(p) \/ UnbindFree(p)
    \/ Unhook(p)

-----------------------------------------------------------------------------
(* The main thread.                                                        *)

\* The thread carries out a SET_CONFIGURATION of the host.
Configure ==
    /\ pc["thread"] = "loop" /\ state = "IDLE" /\ ~killed
    /\ udc_on
    /\ running' = TRUE
    /\ UNCHANGED <<pc, i, udc, REGISTERED, state, killed, notifier, mem, luns, filesem,
                   bufs, op, aux>>

\* do_scsi_command takes the semaphore for reading: "We're using the backing
\* file".
CommandBegins ==
    /\ Goto("thread", "loop", "cmd")
    /\ state = "IDLE" /\ ~killed /\ running
    /\ ~filesem.writer
    /\ filesem' = [filesem EXCEPT !.readers = @ \cup {"thread"}]
    /\ UNCHANGED <<i, udc, flow, mem, luns, bufs, op, aux>>

\* It ends on its own, or a signal makes it give up.
CommandEnds ==
    /\ Goto("thread", "cmd", "loop")
    /\ filesem' = [filesem EXCEPT !.readers = @ \ {"thread"}]
    /\ UNCHANGED <<i, udc, flow, mem, luns, bufs, op, aux>>

\* handle_exception: each of them takes the device out of its configuration; a
\* kill signal or EXIT terminates the thread.
HandleException ==
    /\ pc["thread"] = "loop"
    /\ IF killed \/ state = "EXIT"
       THEN pc' = [pc EXCEPT !["thread"] = "exit"] /\ state' = "TERMINATED"
       ELSE state = "DISCONNECT" /\ state' = "IDLE" /\ UNCHANGED pc
    /\ killed' = FALSE /\ running' = FALSE
    /\ UNCHANGED <<i, udc, REGISTERED, notifier, mem, luns, filesem, bufs, op, aux>>

\* Mutant: the thread deregisters the driver without a look at the bit.
ThreadTestsRegistered_Always ==
    /\ Goto("thread", "exit", "ur_stop")
    /\ REGISTERED' = FALSE
    /\ UNCHANGED <<i, udc, state, running, killed, notifier, mem, luns, filesem, bufs, op, aux>>

\* test_and_clear_bit: "If we are exiting because of a signal, unregister the
\* gadget driver."
ThreadTestsRegistered ==
    /\ Goto("thread", "exit", IF REGISTERED THEN "ur_stop" ELSE "complete")
    /\ REGISTERED' = FALSE
    /\ UNCHANGED <<i, udc, state, running, killed, notifier, mem, luns, filesem, bufs, op, aux>>

\* complete_and_exit
ThreadCompletes ==
    /\ Goto("thread", "complete", "dead")
    /\ notifier' = notifier + 1
    /\ UNCHANGED <<i, udc, REGISTERED, state, running, killed, mem, luns, filesem, bufs, op, aux>>

Thread == Configure \/ CommandBegins \/ CommandEnds \/ HandleException \/ ThreadTestsRegistered
          \/ ThreadCompletes \/ Unregister("thread")

-----------------------------------------------------------------------------
(* rmmod: fsg_cleanup.                                                     *)

RmmodTestsRegistered ==
    /\ Goto("rmmod", "cleanup", IF REGISTERED THEN "ur_stop" ELSE "wait")
    /\ REGISTERED' = FALSE
    /\ UNCHANGED <<i, udc, state, running, killed, notifier, mem, luns, filesem, bufs, op, aux>>

\* Mutant: fsg_cleanup does not wait.
RmmodWaits_Not ==
    /\ Goto("rmmod", "wait", "put")
    /\ UNCHANGED <<i, udc, flow, mem, luns, filesem, bufs, op, aux>>

RmmodWaits ==
    /\ Goto("rmmod", "wait", "put")
    /\ notifier > 0 /\ notifier' = notifier - 1
    /\ UNCHANGED <<i, udc, REGISTERED, state, running, killed, mem, luns, filesem, bufs, op, aux>>

RmmodPuts ==
    /\ Goto("rmmod", "put", "done")
    /\ kref_put
    /\ UNCHANGED <<i, udc, flow, luns, filesem, bufs, op, aux>>

Rmmod == RmmodTestsRegistered \/ RmmodWaits \/ RmmodPuts \/ Unregister("rmmod")

-----------------------------------------------------------------------------
(* Everybody else.                                                         *)

\* lun_release runs when the last reference to the LUN's device is dropped.
LunRelease(l) ==
    /\ lundev[l] = "zombie"
    /\ lundev' = [lundev EXCEPT ![l] = "released"]
    /\ kref_put
    /\ UNCHANGED <<pc, i, udc, flow, filp, filesem, bufs, op, aux>>

\* store_file: the medium is ejected or replaced under the write semaphore.
\* sysfs lets no new call in once device_remove_file has begun.
StoreFileBegins(l) ==
    /\ op = NoOp /\ lundev[l] = "registered"
    /\ \A p \in Procs : ~(pc[p] = "ub_lun" /\ i[p] = l)
    /\ op' = [lun |-> l, at |-> "lock"]
    /\ UNCHANGED <<pc, i, udc, flow, mem, luns, filesem, bufs, aux>>

StoreFileLocks ==
    /\ op.at = "lock"
    /\ filesem = [readers |-> {}, writer |-> FALSE]
    /\ filesem' = [filesem EXCEPT !.writer = TRUE]
    /\ op' = [op EXCEPT !.at = "swap"]
    /\ UNCHANGED <<pc, i, udc, flow, mem, luns, bufs, aux>>

StoreFileEnds ==
    /\ op.at = "swap"
    /\ \/ filp' = filp \cup {op.lun}
       \/ filp' = filp \ {op.lun}
    /\ filesem' = [filesem EXCEPT !.writer = FALSE]
    /\ op' = NoOp
    /\ UNCHANGED <<pc, i, udc, flow, mem, lundev, bufs, aux>>

Kill ==
    /\ pc["thread"] \in {"loop", "cmd"}
    /\ pc["insmod"] = "ok" \/ "early" \in Faults
    /\ ~killed
    /\ killed' = TRUE
    /\ faulted' = IF pc["insmod"] = "ok" THEN faulted ELSE faulted \cup {"early"}
    /\ UNCHANGED <<pc, i, udc, REGISTERED, state, running, notifier, mem, luns, filesem, bufs, op,
                   unregs>>

\* Modules can be removed once their init function has returned 0.
RmmodBegins ==
    /\ pc["insmod"] = "ok"
    /\ Goto("rmmod", "none", "cleanup")
    /\ UNCHANGED <<i, udc, flow, mem, luns, filesem, bufs, op, aux>>

StoreFile == StoreFileLocks \/ StoreFileEnds
Others == \/ \E l \in Luns : StoreFileBegins(l)
          \/ Kill \/ RmmodBegins

Next == \/ Insmod \/ Thread \/ Rmmod \/ Unregister("insmod")
        \/ \E l \in Luns : LunRelease(l)
        \/ StoreFile \/ Others

Spec == Init /\ [][Next]_vars

\* Everybody who has started something goes on; nobody has to start.  A
\* command ends because its transfers are cancelled when an exception is
\* raised; without one it may take for ever.
FairSpec ==
    /\ Spec
    /\ WF_vars(Insmod \/ Unregister("insmod"))
    /\ WF_vars(Rmmod)
    /\ WF_vars(HandleException \/ ThreadTestsRegistered \/ ThreadCompletes
               \/ Unregister("thread"))
    /\ WF_vars(CommandEnds /\ (killed \/ state # "IDLE"))
    /\ WF_vars(StoreFile)
    /\ \A l \in Luns : WF_vars(LunRelease(l))

-----------------------------------------------------------------------------
(* Properties.                                                             *)

\* "the driver will only be deregistered once", whoever gets there first.
UnregisteredOnce == unregs <= 1

\* Nobody is inside the driver once fsg_dev is freed, unless fsg_bind could not
\* create an attribute file (device_unregister then drops a reference that was
\* never taken) or the thread was killed before insmod returned (a failing
\* insmod does not wait for a thread that is on its way out).
NoUseAfterFree ==
    faulted # {} \/
    (\/ pc["insmod"] \notin {"alloc", "ok", "failed"}
     \/ pc["thread"] \notin {"none", "dead"}
     \/ pc["rmmod"] \notin {"none", "done"}
     \/ op # NoOp
     \/ \E l \in Luns : lundev[l] \in {"registered", "zombie"}
     => allocated)

\* The data buffers and the ep0 request outlive everybody who uses them: the
\* thread while it runs commands and the interrupt handlers.  The exception is
\* a thread killed before insmod has turned the controller on: it deregisters
\* the driver and insmod then turns the controller on all the same.
BuffersOutliveUsers ==
    "early" \in faulted \/ (pc["thread"] \in {"loop", "cmd"} \/ udc_on => bufs)

\* fsg_cleanup comes back: it neither waits for a completion that was consumed
\* nor for a thread that waits for it.
RmmodEnds == pc["rmmod"] = "cleanup" ~> pc["rmmod"] = "done"

\* A killed thread exits, deregistering the driver on the way if need be.
KilledThreadEnds == killed ~> pc["thread"] = "dead"

\* After rmmod the memory is given back: no reference is leaked.
MemoryFreed == pc["rmmod"] = "done" ~> ~allocated

\* "filesem protects: backing files in use": no backing file is closed while a
\* command holds the semaphore.
FilesProtected ==
    [][\A l \in filp : l \notin filp' => "thread" \notin filesem.readers]_vars
=============================================================================
