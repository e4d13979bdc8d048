# Verification of the PR30 firmware

PR30 is the firmware of a BandRich mobile hotspot: an OpenWrt build with a
patched Linux 2.6.31 for the Freescale i.MX25 (one core). Plugged into a PC it
first shows up as a USB CD-ROM / disk (the storage gadget) and, on a START STOP
UNIT command, turns into a USB Ethernet adapter. The kernel is configured by
`target/linux/imx25/config-2.6.31` (`CONFIG_USB_FILE_STORAGE=m`,
`CONFIG_USB_FILE_STORAGE_TEST=y`), without kernel preemption. This directory holds TLA+
models of the parts of that firmware whose correctness depends on interleavings,
the TLC runs that check them and TLAPS proofs about them.

Paths below are relative to `src/`; `file_storage.c` and `arcotg_udc.c` are
`linux-2.6.31/drivers/usb/gadget/file_storage.c` and `.../arcotg_udc.c`.

## Inventory

| component | state | operations | interacts with | what is hard |
|---|---|---|---|---|
| storage gadget, exceptions (`file_storage.c`) | `state`, request tags, `config`, `running`, buffer heads, requests, pending signals | `fsg_setup`, `fsg_disconnect`, completion handlers, `start_transfer`, `sleep_thread`, `fsg_main_thread`, `handle_exception` | UDC callbacks run in interrupts, the rest in one kernel thread | interrupts between any two steps of the thread, exceptions over exceptions, a host that gives up |
| storage gadget, life cycle | `REGISTERED`, `thread_notifier`, `ref`, LUN devices, `filesem` | `fsg_init`, `fsg_bind`, `fsg_unbind`, `fsg_cleanup`, `store_file`, thread exit | module loader, sysfs, UDC registration | the driver is deregistered from two places, errors half way through `fsg_bind` |
| storage gadget, command pipeline | the ring of buffer heads, residue, CSW | `get_next_command`, `do_read`, `do_write`, `finish_reply`, `send_status` | exceptions, medium | double buffering, early ends of a transfer |
| storage gadget, SCSI and medium | `curlun`, sense data, unit attention, `prevent_medium_removal`, `filp`, `ro`, `cdrom` | `check_command`, `do_*`, `store_file`, `store_ro` | sysfs writers, exceptions | stale unit attention, medium changed under a command |
| USB device controller (`arcotg_udc.c`) | endpoint queues and dTD chains, `usb_state`, `resume_state`, suspend timer | interrupt handlers, `fsl_ep_queue`/`dequeue`/`enable`/`disable`, `nuke`, `udc_suspend`, `fsl_udc_resume`, `usb_gadget_(un)register_driver` | every gadget driver, the controller, system sleep | driver and controller meet at the end of a chain; timer against deregistration, coalesced suspend interrupts |
| OTG mode switch (`otg_switch.c`, `drivers/usb/otg/fsl_otg.c`) | one work item per event, the ID pin, the delayed work of the OTG driver | `otg_switch_report_event`, `fsl_otg_isr`, `fsl_otg_event`, `fsl_otg_set_peripheral` | `do_start_stop`, the suspend timer, the controller driver, the GDevSwitch daemon | events coalesce and cross, starts and stops from three sides |
| battery monitor (`drivers/power/BR_Monitor.c`), extra keys (`drivers/input/keyboard/gpio_keys.c`) | ADC under `convert_mutex`, work items | sysfs, timers | input layer | as above |
| firmware scripts (`target/linux/imx25/base-files/etc`, the web pages under `feeds/xwrt/webif`, `BR_Packages/BrLCDMain`) | `/etc` on the root partition; `default_bk`, `recover` and `default` on userdata and data | factory reset, upgrade, recovery at boot; first boot, doze | init, web server, LCD daemon, flash file systems | power loss between two commands, two partitions with a write buffer each |

The rest of the tree (Linux itself, OpenWrt packages and feeds, the TI WLAN
driver, binary-only daemons) is third-party or has no source; `PROJECT.json`
lists what is left out and why.

What makes these parts correct:

* exceptions: the thread and the controller never own the same buffer; a request
  is neither freed while it is queued nor used while it is not allocated; no wakeup
  is lost; a forwarded ep0 request is answered unless a more urgent exception
  overtakes it; host and device agree on the configuration; a disconnect and an
  exit are always carried out;
* life cycle: the driver is deregistered exactly once, nobody uses memory that was
  freed, `rmmod` and a killed thread come to an end, no reference leaks;
* pipeline: every command gets exactly one CSW, with the right residue, after all of
  its data, and every unit of data lands where it belongs;
* medium: the host learns of every change of the medium and of its write protection
  before it reads or writes the new one, a locked medium stays, a command keeps the
  medium it is using, a CD-ROM stays read-only, the semaphore always goes to somebody who
  wants it;
* mode switch: the driver asked for last is loaded in the end, a device in use is
  neither put to sleep nor taken away, nothing is called in a driver that has gone, and
  the controller runs when, and only when, there is a B plug;
* endpoint queue: requests are carried out and given back once, in order, with the
  outcome they had; none falls off the chain; the controller never works on freed dTDs; a
  request that is to interrupt, or has one behind it that is, comes back;
* factory reset: whatever the power does, the boot that gets to its end leaves the
  settings that were promised.

## Modules

| module | models | main state -> code |
|---|---|---|
| `FsgException` | the exception machinery | `state`, `exception_req_tag`, `config`, `running`, `new_config` are the fields of `fsg_dev`; `bstate`, `busy` the buffer heads' `state` and `inreq_busy`/`outreq_busy`; `queued` the controller's queues; `signals` the thread's pending signals; `pc`, `h`, `cur` the thread's place and locals; `ep0_wait`, `hostcfg`, `answer` what the host sees |
| `MCFsgException` | - | symmetry of the buffer heads for TLC |
| `FsgException_proofs` | - | proofs about `FsgException` |
| `FsgLifecycle` | insmod, the thread, rmmod, sysfs | one `pc` per process; `REGISTERED`, `notifier` (the completion's count), `refs`, `lundev`, `filp`, `filesem`; `udc_driver`, `udc_on` the controller's registration |
| `FsgLifecycle_proofs` | - | proofs about `FsgLifecycle` |
| `FsgPipeline` | the Bulk-only command pipeline and its host | `bh` the buffer heads (state, lengths of both requests, contents); `fill`, `drain` the two ring pointers; `outq`, `inq`, `halted` the bulk endpoints; `fsg` the counters and flags of the current command, `tag` its saved tag; `io` the locals of `do_read` and `do_write`; `host` the host's side of the protocol |
| `BulkOnly` | what a Bulk-only device promises | phase, tag, size announced, data moved, status wrapper |
| `MCFsgPipeline` | - | the commands for TLC |
| `FsgPipeline_inv` | - | the inductive invariant of `FsgPipeline`, lemmas about its operators, the proofs about commands, data to the host and status |
| `FsgPipeline_proofs` | - | the proofs about data from the host, and the theorems, the refinement of `BulkOnly` among them |
| `FsgMedium` | the LUNs, against commands, sysfs writers and exceptions | `filp`, `ro`, `prevent`, `sense`, `ua` the fields of `struct lun`; `filesem` its readers, its writer and its wait list; `pc`, `cmnd`, `curlun`, `using` the thread's place; `exc`, `signal` the pending exception; `store` what each writer of an attribute is at; `known`, `wp`, `wiped` what the host has been told |
| `MCFsgMedium` | - | the commands and the symmetry of the writers for TLC |
| `FsgMedium_proofs` | - | proofs about `FsgMedium` |
| `UsbModeSwitch` | controller driver, OTG driver, work items, sleep, daemon and host | `driver`, `usb_state`, `resume_state`, `stopped`, `already_stopped` of `udc_controller`; `timer`, `is_suspend`, `queue` (keventd), `otg`, `daemon`, `bus`, `irq` |
| `UsbModeSwitch_proofs` | - | proofs about `UsbModeSwitch` |
| `ArcUdc` | the request queue of a bulk endpoint and the controller at work on it | `queue`, `status`, `count`, `quiet` (`no_interrupt`) of the requests; `td` the dTDs in memory; `enabled`, `prime`, `complete`, `atdtw`, `qhnext` the registers and the queue head; `cpu` the driver's place, `hw` the controller's |
| `EndpointQueue` | what a gadget driver may expect of such a queue | the requests in order, which of them were carried out or failed, how each was given back |
| `ArcUdc_proofs` | - | proofs about `ArcUdc`, the refinement of `EndpointQueue` among them |
| `FactoryReset` | the scripts that restore or keep settings, with power cuts | `ram`, `flash` the directories as seen by programs and as on the flash; `script`, `at` the running script and the command it is at; `left`, `busy` the files `cp` has still to copy and the one it has emptied; `defaults` where the defaults are; `expect` what `/etc` is to hold |
| `FactoryReset_proofs` | - | proofs about `FactoryReset` |

### FsgException

An interrupt handler is one action: it runs to its end with interrupts off on the
only core. The thread can be interrupted anywhere, so its code is cut wherever an
interrupt could see or change what it uses (the models do not rely on the absence of
kernel preemption): `sleep_thread` is two actions (the test
that ends the sleep; the clearing of the flag), `start_transfer` is two (marking the
buffer head under the lock; `usb_ep_queue`), `handle_exception` is one per phase
(dequeue signals, cancel, test for idle, sleep, the locked reset, the action for the
exception, the comparison of tags, the response), `do_set_config` is three.

A SCSI command is reduced to what it may do to the shared state, in any order: fill
or drain a buffer head, start a transfer, wait for one, set the phase, give up. That
covers every command of the driver (and some sequences no command performs).

`Complete` finishes any queued request at any time; a dequeued request is marked
`cancelled` and finishes some time later. `arcotg_udc.c` finishes it inside
`fsl_ep_dequeue`; the model allows what the gadget API allows. `BusReset` is
`reset_irq`: it retires every queued request and calls `fsg_disconnect`. The ghost
variables `ep0_wait`, `hostcfg` and `answer` record what the host may conclude; no
action of the driver reads them.

CBI and CB transports are not modelled (the image is built and used Bulk-only).

### FsgLifecycle

Three processes: insmod (`fsg_init`, `usb_gadget_register_driver`, `fsg_bind`), the
main thread reduced to serving commands, handling exceptions and exiting, and rmmod
(`fsg_cleanup`). `Unregister(p)` is `usb_gadget_unregister_driver` with
`fsg_unbind`, run by whichever process `p` gets there. Every step of `fsg_bind` may
fail. `lun_release` runs some time after `device_unregister`, when the last user of
the LUN's device is gone.

Two rare events are switched by `Faults` and remembered in `faulted`: `"attr"`,
creation of an attribute file fails; `"early"`, the thread is killed before insmod has
returned. The run has both. After `"attr"`, `NoUseAfterFree` cannot hold: `fsg_bind`
calls `device_unregister` for a LUN whose `kref_get` (4176) it has not reached, so
`lun_release` drops a reference that was never taken. After `"early"`,
`BuffersOutliveUsers` cannot hold either: the thread deregisters the driver before
`usb_gadget_register_driver` turns the controller on. Both properties say so; the
liveness properties hold all the same.

### FsgPipeline and BulkOnly

Two actors: the thread, cut where it waits for a buffer head, and the host together
with the controller, which finish one queued transfer at a time. Every loop of
`do_read`, `do_write`, `pad_with_zeros` and `throw_away_data` is one action per round,
so that transfers complete, fail or are cancelled by a reset between any two rounds.
`Polls` lists where the thread looks for signals.

Data is counted in units, `Block` of them to a 512-byte block (which is also a bulk
packet). A unit that is read is its offset in the file, a unit that is written its
position in the host's data, so `DataInPlace` can tell whether the two offsets of
`do_write` or the buffers of the ring were mixed up. The ghost variables `sent` and
`written` record the units of the current command; the thread does not read them.

The host follows the Bulk-only protocol: a wrapper, the data it announced (or less,
ended by a short packet), the status; it clears a halted bulk-in endpoint and asks for
the status; it may reset the device at any time. It may announce a length and direction
that do not fit the command, which is what most of `check_command` and `finish_reply`
is about. Everything else that can be wrong with a command (LUN, fields, medium, write
protection) is one choice, `"check"` in `Faults`, because it is answered in the same
way: no data, and sense data or a phase error.

Simplifications: `handle_exception` is one action, which `FsgException` looks inside
and proves to act only on idle buffers; a request the controller refuses
(`start_transfer`'s error path) is left to `FsgException`; CB and CBI are left out, and
so is the firmware update protocol (`CONFIG_STMP_UTP` is not set).

`OrdinaryAssumption` names the commands that are left out (`Unusual`), because the code
leaves to chance what it answers them: a READ or WRITE that moves nothing, or a VERIFY of
nothing, from a host that announces data to itself (`do_read` 1636 and `do_verify` 1982
return without a reply, and the length of an earlier transfer stands), and blocks past the
end of a backing file that ends inside a block (`open_backing_file` rounds the number of
sectors down, not the length). No driver of a host sends them; runs and proofs need the
same assumption.

`BulkOnly` is the abstract device: one command at a time, data never exceeding what was
announced, one status with the command's tag and the exact residue, nothing more until
the host takes it. `ImplementsBulkOnly` maps the pipeline's state to it (`Phase`,
`Moved`, the queued status wrapper).

### FsgMedium

The main thread takes `filesem` for reading around a command; the execution of the
command and its status are separate steps. Any number of processes write to the
attributes of the LUNs at the same time (sysfs serialises the writers of one open file
only): `store_ro` takes the semaphore for reading; `store_file` tests
`prevent_medium_removal`, takes it for writing, ejects and loads.

The semaphore is the one of `lib/rwsem-spinlock.c`: `DownRead` and `DownWrite` wait
behind whoever waits already, `UpRead` hands the semaphore on to the first writer in the
list, `UpWrite` to the first writer or to all readers in front of it. Whoever is handed
the semaphore runs only later, so `down_read` and the command are two steps when the
thread had to wait (`CommandWaits`, then `Executes`), and so are `down_write` and the
eject of `store_file`. An eject by START STOP UNIT gives the semaphore up, takes it for writing, closes the file and takes
it for reading again (`CommandSleeps`, `EjectCloses`, `EjectEnds`). The kernel is not
preemptible, so nothing comes between the test in `store_file` and its place in the
wait list. Exceptions are raised at any moment; their handling wipes sense data, unit
attention and the lock of every LUN, and `fsync_all` walks the LUNs without the
semaphore.

A command is a LUN, an operation and whether its length and fields are right. The
host's view is a ghost: `known` is the medium it believes to be there (it learns of a
new one from the sense data of a refused command), `wp` what MODE SENSE told it. An
exception may wipe a notice before the host has seen it; `wiped` remembers that, and
the properties exempt that LUN until the next notice.

A lock that is set while a `store_file` is past its test does not keep the medium (see the
observations); `SettledLockHolds` says what the lock is good for. READ HEADER and READ TOC
with no `curlun` kill the thread (`pc = "oops"`), which keeps the semaphore.

### UsbModeSwitch

Interrupts, timers and the ID pin come between any two steps; processes (keventd, the
gadget's thread, the daemon) change only where one sleeps, and the 100 ms busy wait of
`dr_controller_run` is a step of its own in which interrupts are still taken.
`fsl_udc_irq` is one action, in the order of the code: bus resume, setup packets, port
change, reset, suspend. The host resets, addresses, suspends and resumes the device and
sends START STOP UNIT; a suspend is also what an unplugged cable looks like.
GDevSwitch, whose source is not in the repository, is external: it reads the events of
the otg-switch input device and replaces one gadget driver by the other.

Taken from the configuration: `CONFIG_USB_OTG=y` and no EHCI host on the OTG port, so
that the OTG driver has no host to start; `device_set_wakeup_capable(0)` in OTG mode, so
that the controller does not wake the system. Without a host driver the controller stays
in the device mode `dr_controller_setup` has set, and the return of `udc_suspend` for any
other mode (3240) is never taken. Failures of `bind` are left to
`FsgLifecycle`; the event buffer of the input device never overflows.

`mishaps` remembers four rare events after which a property is known not to hold:
`coalesced` (suspend and port change in one interrupt), `restarted` (OTG work starts a
controller that runs already), `unresumed` (`fsl_udc_resume` starts a controller without
calling the gadget's `resume`), `misled` (the OTG driver stops a controller that is
stopped, and `udc_suspend` takes that for a system sleep).

### ArcUdc and EndpointQueue

On these paths the driver runs with interrupts off on one core, so its operations do not
overlap; the controller works between any two of its accesses. `fsl_queue_td` is cut at
each register access: the test of ENDPTPRIME, the setting of the trip wire, the reading
of ENDPTSTAT, the test of the trip wire. `dtd_complete_irq` is cut at the clearing of
ENDPTCOMPLETE and at each request; a completion handler may queue its request again in
between (`rx_complete` of the Ethernet gadget). The dTDs are separate from the requests:
a request with `zero` set may take two, the second without data. The last dTD of a request
interrupts unless the request was submitted with `no_interrupt` (`fsl_build_dtd` 1095; the
Ethernet gadget sets it for most of what it sends at high speed): such a request, in
`quiet`, stays on the queue although it is finished until `dtd_complete_irq` runs for another one.
`NoMemory` is the `-ENOMEM` of `fsl_ep_queue`: the request has its status set and is not
queued. Its other errors (no endpoint descriptor, no driver, no speed) return before they
change anything.

Of the controller four things are assumed: it takes the next pointer of a dTD together
with writing its status back; it keeps ATDTW clear from there until it has decided where
to go on, and clears it when it writes a status back; an error halts the endpoint; and
priming it for a dTD that is done already ends at once without a transfer.

`EndpointQueue` is the promise: a request is submitted or refused; requests are carried
out in the order of submission, given back in that order with the outcome they had, or
cancelled. The order is promised only while `ordered`: cancelling the first request, or
an error, leaves those behind it without a primed endpoint (`stranded` in `ArcUdc`), and
a request that is submitted then is primed past them. `overtaken` ends the model when
`fsl_ep_dequeue` has freed a dTD the controller was at: what follows is undefined.

Left out: ep0, isochronous endpoints and the IRAM path (`CONFIG_USB_STATIC_IRAM` is not
set), `set_halt`, requests of more than 16 KB (no gadget driver of the image has them).

### FactoryReset

A script is at one of its commands (`at`); a `cp` of a directory takes the files in any
order, the password file last, and empties each before it fills it; `rm -rf` removes files
in any order and a directory once it is empty. `br_recover` runs at boot on the directories
it finds, `recover` before `default_bk` (`script` is the one it is at); `br_default.sh`
is started by the web page (which then has the browser ask for a reboot) or by the LCD
daemon (which reboots whatever the script says); the upgrade page makes `recover`, syncs
and starts the new firmware. Each file has a version: the user's, newer, the factory's,
torn, none.

Both partitions are JFFS2 with a write buffer that reaches the flash as a whole, some
time later and independently of the other (`Flush`); a power cut loses what only `ram`
has. Assumed: `reboot` syncs (busybox does, with `-f` too), the new firmware is flashed
as a whole, and the web pages come up later than the five seconds after which a buffer is
written.

`mishaps` remembers what the scripts do not survive: a cut while a directory is being made
(`br_recover` cannot tell half of it from the whole), a cut while only a buffer holds the
copies (nothing syncs before `rm -rf`), and an upgrade that did not happen (`recover`
stays and is applied at the next boot).

## Runs

| run | checks | result |
|---|---|---|
| `exception` | inductive invariant (types included), buffer ownership, allocation, wakeups, lost requests, agreement on the configuration, idle reconfiguration | holds, 404 160 states |
| `exception_live` | a disconnect, an exit and a forwarded request are eventually handled | holds, 107 882 states |
| `status_stage` | `StatusStageMatches` | violated: the tag test and `ep0_queue` are two steps |
| `lifecycle` | deregistered once, no use after free, buffers outlive users; rmmod ends, a killed thread ends, memory is freed | holds, 4 393 states |
| `files` | `FilesProtected` | violated: `fsg_unbind` closes files without `filesem` |
| `pipeline` | host and device in phase, "pass" only for work done, data in place, refinement of `BulkOnly` (one status per command, exact residue, no more data than announced) | holds, 1 157 486 states |
| `pipeline_nostall` | with `stall=0`: refinement, every command is answered | holds, 771 462 states |
| `medium` | changes of medium and write protection are announced; with two writers at a time, the semaphore is handed on to those who want it, a medium in use stays, a lock holds against every later `store_file` | holds, 4 098 664 states |
| `cdrom_written` | `CdromReadOnly` | violated: the `ro` attribute of a CD-ROM after a disk is writable |
| `modeswitch` | callbacks have a driver, a device in use is left alone, the switch-off flag follows the bus, no controller with an A plug; the driver asked for last is loaded, the controller comes back | holds, 752 012 states |
| `udc_queue` | chain and queue agree, no freed dTD is worked on, refinement of `EndpointQueue`; every request that will interrupt, or is in front of one that will, comes back | holds, 473 204 states |
| `factory_reset` | a boot leaves the settings that were promised, and whole files | holds, 2 180 131 states |

Each module has a type invariant `TypeOK`. That of `FsgException` is part of `IndInv`,
which its run checks. The others hold in their runs too, and are not listed there because
TLC would stop at a value outside its type in almost every case anyway; all of them are
proved (see below), and so are the inductive invariants, each of which TLC checked on the
constants of its run before it was proved.

Bounds. Two buffer heads (`NUM_BUFFERS` is 2) with symmetry; two ep0 requests, so
that one can overtake the other; one bus reset and one exit, so that both can hit any
phase of the two requests. A run with three requests and two resets was also made and
shows nothing new (several million states). The liveness run has one buffer head:
the thread's waiting does not depend on which buffer it waits for, and symmetry may
not be used with liveness. `FsgLifecycle` uses two LUNs (the loop of
`fsg_unbind` meets open and closed, registered and unregistered LUNs). The proofs need
none of these bounds.

`FsgPipeline`: two commands, so that what one leaves behind meets the next, and one
reset. A block is two units (a partial block exists), buffer and page are two blocks,
the file five: the commands of `MCFsgPipeline` start inside a page, need three chunks
(the ring of two wraps), run past the end of the file, and are combined with every
announced length and direction: equal, smaller, larger, not a multiple of a block, none,
opposite. `Wrap` (2^32) is 16 units, more than any of the commands. `Faults` selects the
failures: failing and partial file access (`"io"`), a host that stops early (`"short"`),
a failed transfer (`"usb"`), a rejected command (`"check"`). `pipeline` has them all.
`pipeline_nostall` leaves out `"io"`, with which a failed write of a short packet breaks
liveness (see below), and `"usb"`, after which the host is expected to reset.

`FsgMedium`: one LUN, because LUNs share nothing but the semaphore, `curlun` and the
exceptions, and a command for a LUN that does not exist is among the commands; two
files, one of them read-only, one of them long enough for a CD-ROM; four commands (a
change, the refusal, the retry and one more), two exceptions, two sysfs writes by two
interchangeable writers (symmetry). Two writers and the thread are enough for readers to
wait behind a writer, writers behind readers, and for a lock to be set while a
`store_file` is past its test; `cdrom_written` has two LUNs.
`UsbModeSwitch`: three events on the bus, two START STOP UNITs, two ID changes and one
sleep; four bus events gave 2.7 million states and the same result. `ArcUdc` needs no
counters: the three requests go round for ever; one of them may take two dTDs and may be
quiet (with two that may be quiet there are 740 611 states and the same result).
`FactoryReset`: two resets or
upgrades, two power cuts (the second hits the recovery from the first), one edit, one
file in `/etc/config` beside `passwd`; with two files and one cut there are 6 637 024
states and the same result.

Deadlock is checked in `udc_queue` and `factory_reset`. Elsewhere the bounds, the exit of
the thread or rmmod stop the system for good.

Fairness. `FsgException`: the thread is a kernel thread and gets the core
(`WF(Thread)`); a SCSI command ends if it is scheduled and its transfers complete
(`SF(CmdEnd)`: it moves a bounded amount of data, but the model does not count it); the
controller finishes the requests that were dequeued. Nothing is assumed of the host:
transfers that were not cancelled may hang for ever, requests may never come.
`FsgLifecycle`: each process that has started goes on; a command ends once an
exception is raised; the last user of a LUN's device lets it go. `FsgPipeline`: the
thread is scheduled, and a host that has sent a command goes on with it (it sends or
takes the data it announced, clears a halt, takes the status); it need not send
another, and it need not reset the device.
`UsbModeSwitch`: interrupts, timers, keventd, the thread and the daemon get the core;
nothing is assumed of the host, the cable or whoever wakes the system. `ArcUdc`: the
driver's code and the controller go on; the host keeps trying (`SF`: the endpoint may be
off for moments), and an interrupt is taken in the end however often the gadget calls
the driver (`SF`).

## Findings

Three properties that comments of `file_storage.c` state do not hold of the code:

1. *A response for the wrong request* (`status_stage`). A setup interrupt between
   `ep0_req_tag == exception_req_tag` and `ep0_queue` lets the response complete the
   newer request.
2. *Files closed under a command* (`files`). `fsg_unbind` closes the backing files
   before it stops the thread and without the semaphore.
3. *A CD-ROM that can be written* (`cdrom_written`). With a disk as an earlier LUN, the
   shared `dev_attr_ro` makes the `ro` attribute of the CD-ROM writable.

Observations made on the way, which the properties name as exceptions or the runs leave
out:

* exceptions: `raise_exception` ignores a SET_CONFIGURATION while a DISCONNECT is
  pending, yet `fsg_setup` defers its status stage, so the host waits for its timeout
  (`"dropped"` in `LostOnlyWhenOutranked`); SET_INTERFACE is accepted while
  `do_set_config` has set `config` but may still fail, after which `running` stays set
  with `config = 0`;
* pipeline: a READ of no blocks (or READ(12) of 2^23) sends the reply buffer with the
  length of an earlier transfer; `do_write` (1890) looks for a failed write before it
  looks for a short packet, so that a short packet that cannot be written is forgotten and
  `throw_away_data` waits for data that will not come;
* medium: `store_file` (3886) tests the lock and then waits for `filesem`; if a writer for
  another LUN holds it and the thread waits for it with a PREVENT, a second writer passes
  the test, waits behind the thread and ejects the medium the thread has locked meanwhile
  (`SettledLockHolds` promises nothing against such a writer); READ TOC or READ HEADER before any command has
  set `curlun` dereferences NULL, and the thread dies with the semaphore;
  a `ro` that was set because a file could not be opened for writing stays for the next
  file; an exception wipes a unit attention the host has not seen (`wiped`); `fsync_all`
  uses files that `store_file` may close meanwhile;
* mode switch: an ID change stops a controller that is stopped already, and `udc_suspend`
  (3234, "this must be a PM suspend") then makes the next start a no-op (`misled`); a
  suspend timer that outlives its driver dereferences NULL (220); `fsl_udc_resume` does
  not tell the storage gadget that the bus is back (`unresumed`);
* endpoint queue: `fsl_ep_dequeue` of a request that is not the first frees dTDs the
  controller may be at (1290, "hasn't been processed"); cancelling the first request, or
  an error (1986, "FIXME: continue with next queued TD?"), leaves the others unprimed;
  `req.actual` of a request with a zero-length dTD counts the length twice (1975); a dTD
  that cannot be allocated leaks those before it, and `dma_pool_alloc` with `GFP_KERNEL` is
  called under a spinlock; the build option of 364 takes the lock around a completion handler
  where it should release it, which only one core makes harmless;
* factory reset: see the mishaps above; besides, a second `br_default.sh` before the reboot
  puts the files into `default_bk/config/config`, and files the user added to
  `/etc/config` survive a reset.

## Proofs

For each module the theorems follow from one inductive invariant, the conjunction of
`TypeOK` and named parts; a lemma or a step per action shows that it is preserved.

### FsgException

`FsgException_proofs` proves, for any set of buffer heads and any bounds, the type
invariant, every safety invariant of the run `exception` and its action property. The
only assumption is `BoundsAssumption` (the bounds are natural numbers).

None of the safety properties is inductive. `BufferOwnership`, for instance, says
nothing about `queued`, so a completion of a request that is queued but not busy
would break it. `IndInv` adds:

* `BusyQueued`: a request is busy exactly if it is queued or in the hands of
  `start_transfer`;
* `UpWhileUsed`: the interface is up, and its requests are allocated, as long as
  anything is busy, a command runs or an aborted command waits to be handled;
* `IdleBelow`: from the idle test of `handle_exception` to its end nothing is busy;
* `SleepersWoken`: whatever a sleeping thread waits for has not happened yet, or a
  wakeup or signal is pending;
* `ForwardedKept`: a request the host waits for is the pending exception, or the one
  being handled, or has lost to the thread's exit;
* `TagsOrdered`: tags never run backwards between request, exception and handler;
* `HostKept`: where host and device disagree on the configuration, an exception that
  settles it is pending or being handled.

One lemma per part shows that every action preserves it; `Inductive` puts them
together; the theorems follow from `IndInv` alone, `ReconfigurationSafe` from
`IndInv` and a look at which actions change `running` and `req`.

### FsgLifecycle

For any number of LUNs, with or without the rare events of `Faults` (`LunsAssumption`:
there is a LUN, and `Faults` names known events): types, `UnregisteredOnce`,
`NoUseAfterFree` and `BuffersOutliveUsers`. The invariant follows three things that are
handed from process to process:

* `Token`: the `REGISTERED` bit. Whoever clears it may deregister the driver, and the bit
  was set as long as nobody has; insmod, the thread and rmmod never hold it together;
* `Completion`: `thread_notifier`. Its count is at most one, and one means that the thread
  is dead or was never created; `ub_again` (the second `complete`) is reached only after
  the first was taken. `UnregisteredOnce` and the safety of the buffers rest on this;
* `Refs`: the reference count is one for the driver itself and one per registered or
  not yet released LUN device, less the one that the error path for the attributes drops too often.
  The sum is a cardinality, so each step that touches a LUN cites a fact about
  cardinalities of finite sets.

`PcOK` and `Stages` say which code each process may be in, given the others; `Orderly`
that, without a kill before insmod is through, the thread outlives insmod; `Buffers` who
may still have a use for the buffers.

### UsbModeSwitch

For any number of bus events, commands, ID changes and sleeps (`ModeSwitchAssumption`:
the bounds are natural numbers): types, `CallbacksHaveDriver`, `OffWithAPlug`,
`InUseKeepsAwake` and `SwitchOffFollowsBus`. The properties relate what driver and gadget
believe to what the bus does, and an interrupt that is pending may make the difference;
so the invariant has one part that says what each pending interrupt tells (`Pending`) and
one that says how the driver's state follows the bus given the pending interrupts
(`Tracking`). `Hooked` and `Silent` are why no callback finds no driver: a controller
without a gadget driver is off the bus and has no interrupt pending. `Stopping` says who
may start a stopped controller, `Believing` when the gadget takes the bus for suspended.

### FsgMedium

For any LUNs, sysfs writers, backing files and commands (`MediumAssumption`,
`NamesAssumption`): types, `HandedOn`, `ChangePending`, `ProtectionAnnounced`, and the
action properties `MediumAnnounced`, `CommandKeepsMedium` and `SettledLockHolds`. The last
is what is left of the lock: a medium that is locked while no `store_file` for its LUN is
past its test stays, and no later one gets past the test.

The invariant has three layers. `Semaphore` is about `filesem` alone: `GoodSem` says that
its holders and those on the wait list are at a place where they want it (`MayRead`,
`MayWrite`), that each waits once and holds nothing meanwhile, that somebody holds it while
somebody waits, and that the first to wait behind readers is a writer; one lemma per
operation (`DownRead`, `DownWrite`, `UpRead`, `UpWrite`) shows that it keeps this, for wait
lists of any length. `Critical` says that whoever is past its wait has it. `Working` is
what a command has checked and may go on relying on while it sleeps. `ChangePending` and
`ProtectionPending` say which notice is still to come when the host is wrong about the
medium or its write protection; they lean on `Semaphore` where a file is opened in one step
and recorded in the next. That the medium of a LUN in use stays follows from `Semaphore`.

### ArcUdc

For any set of requests (`ArcUdcAssumption`: `NoReq` is none of them): types, `NoFreedTd`,
`ChainIsQueue`, and the refinement of `EndpointQueue`. The invariant concerns `Pending`,
the list with the request that is being linked:

* `Sized`, `Chained`: the dTDs in memory are those of the pending requests and form one
  chain in the order of the list;
* `Registers`: what prime bit, trip wire and status register say to each other;
* `Positioned`, `Arrived`: the controller's place is a dTD of a pending request and
  nothing from there on has been touched, or it is at the end of the chain and nothing but
  the request being linked is left to do;
* `Driving`: what the driver holds in its locals is still on the list, or not yet.

All this holds until the controller is overtaken by the dequeueing of a request that it
may be at (`overtaken`, see the observations). `ChainIsQueue` is stated without reference
to that invariant: the controller is at the first outstanding dTD, and from each
outstanding dTD the chain leads to the next. The hard step is the trip wire: between the
read of ENDPTSTAT and the test of ATDTW the controller may run off the end of the old
chain, and the driver must find out.

In `Refinement`, `fsl_ep_queue` is `Submit`, or `Refuse` if there is no memory for its
dTDs, the retirement of the last dTD of a request is `Move` or `Fail`,
`dtd_complete_irq` and `done` are `Return`, `fsl_ep_dequeue` is `Cancel`, `nuke` is
`CancelAll`; linking, priming and every other step of driver and controller is a
stutter.

### FsgPipeline

For any number of buffer heads, any lengths of buffer, page, file and reply, with or
without stalls and with any of the faults: types (no offset leaves the file, no length
exceeds a buffer, no counter becomes negative), `InSync`, `PassMeansDone`, `DataInPlace`
and the refinement of `BulkOnly`. The assumptions are `SizesAssumption` (a buffer is a
whole number of pages, a page and 2^32 are whole numbers of blocks, replies fit into a
buffer), `CbwsAssumption` (a wrapper announces a direction exactly if it announces data)
and `OrdinaryAssumption` (see above). Each of the properties speaks of the end of a
transfer or of a command; the invariant `IInv` says how things stand on the way:

* `Exceptions`, `Queues`, `Stages`, `Phases`: which exception may be pending when, that
  every queued transfer has one busy buffer head of its own and a status is the last, and
  what the thread's place and the host's phase tell of each other;
* `InOrder`: in a data phase to the host, the transfers follow one another, and the host
  takes the last one, and no other, for the end of the data (a short packet, or all it
  wanted). Block sizes matter here: a transfer in the middle must be a whole number of
  packets (`AmountWhole`), whatever the alignment of page, file and length;
* `Tiled`, `Served`: in a data phase from the host, the requests of the ring cover what was
  asked of the host, without gap or overlap, from the drain pointer to the fill pointer;
  the host serves them in this order, and a buffer head holds the units of its place. The
  place of each buffer head is `pos`, which the code does not store: the invariant says
  that there is such a function;
* `SentSoFar`, `TakenSoFar`, `Counted`: the counters of `fsg_dev` and the locals of
  `do_read` and `do_write` agree with what was sent and written, at every place of the
  thread, through short packets, errors, padding and thrown-away data;
* `Passed`: a queued status that says "pass" is true;
* `Tagged`: the tag `received_cbw` has saved is that of the host's command for as long as a
  status for it may still be sent, an aborted transfer included.

In `Refinement`, a wrapper is `Command` or `Malformed`; a round of `do_read` or `do_write`,
or what `finish_reply` sends, is `Move`; `send_status` is `Answer`; the host's taking it is
`Take`; a device reset is `Reset`, the end of its handling `Recover`; everything else,
an aborted transfer, padding and discarded data included, is a stutter. That `residue`
is exact rests on `SentSoFar` (the units sent before the padding are as many as the
residue says) and on `TakenSoFar` (`written` is the prefix of the data that the residue
leaves).

The proof corrected `InSync`: with three or more buffer heads the device may ask for the
next wrapper while the host is still taking data, which two buffer heads never show.

### FactoryReset

For any files in `/etc/config` and any number of power cuts, resets, upgrades and edits
(`FactoryResetAssumption`: the bounds are natural numbers, and no file of `/etc/config` is
called `passwd` or `none`): types, `BootRestores` and `WholeFiles`. Both speak of the end
of a boot only. The invariant says, for each file and at each place of each script, what
the next boot will make of it:

* `Outcome` is what `br_recover` makes of a file on given directories: the copy in
  `default_bk`, else the one in `recover`, else what `/etc` has. `Safe(p, S)` says that
  this is one of the versions `S`: while the system boots, of the directories as programs
  see them, and of those on the flash as far as a copy is left there; while it is up, the
  same, unless `default_bk` has not reached the flash;
* `WholeInv` is `Safe` with the whole versions, `RestoreInv` with the one that was promised.
  An upgrade without the settings promises the defaults from the moment it is asked for;
  an upgrade that keeps them needs, besides, that each file it is done with is in
  `recover`, since the new firmware overwrites `/etc`;
* `RecoverInv`: what `br_recover` is about to remove has been copied, and every copy that is
  left is also on the flash, although the flash may lag behind by any number of steps;
* `DefaultInv`: outside a boot `default_bk` is empty or complete, unless `br_default.sh` is
  at it. That a second reset before the reboot does not copy again rests on it;
* `Housed`: a directory that is not there holds nothing.

The heart is `CutOutcome`: after a power cut that is none of the mishaps, the flash has the
copy that counts, or `/etc` on the flash has the file it was made into. The order of the two
directories matters here: on one partition, a flash without the copy in `default_bk` has
none in `recover` either, unless there never was one in `default_bk`.

### Only model-checked

* Liveness, everywhere: the prover does not handle fairness. (`CommandAnswered`,
  `EveryRequestReturned`, and the liveness properties of `exception_live`,
  `lifecycle` and `modeswitch`.)

## Not modelled

* Battery and charger monitor: conversions are serialised by one mutex, the suspend flag
  it tests is never set in this configuration, and the one access outside the mutex (an
  ioctl that resets the ADC) races with hardware whose behaviour the source does not tell.
* Control transfers inside `arcotg_udc.c` (setup tripwire, status stages, ch9 requests),
  `set_halt`, isochronous and IRAM paths.
* First boot, doze and hotplug scripts, and the daemons without source.
* The Ethernet gadget (stock Linux code) except for its habit of requeueing in the
  completion handler; Linux, OpenWrt, packages and feeds, the TI WLAN driver: third-party.

## Plan

1. Models: `FsgException`, `FsgLifecycle`, `FsgPipeline` with `BulkOnly`, `FsgMedium`,
   `UsbModeSwitch`, `ArcUdc` with `EndpointQueue`, `FactoryReset`: done.
2. Proofs: `FsgException`, `FsgLifecycle`, `FsgMedium`, `UsbModeSwitch`, `ArcUdc` with the
   refinement of `EndpointQueue`, `FsgPipeline` with the refinement of `BulkOnly`,
   `FactoryReset`: done. What is left is liveness.
3. Candidates for further modelling: control transfers of `arcotg_udc.c`.
