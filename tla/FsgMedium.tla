----------------------------- MODULE FsgMedium -----------------------------
(***************************************************************************)
(* The logical units of the storage gadget: the medium in each of them,    *)
(* its read-only status, the sense data and the unit attention condition,  *)
(* and who may change them (drivers/usb/gadget/file_storage.c).            *)
(*                                                                         *)
(* Three parties meet here.  The main thread carries out the host's SCSI   *)
(* commands, holding filesem for reading; processes that write to sysfs    *)
(* attributes, several at a time, load and eject media, holding it for     *)
(* writing; and exceptions make the thread wipe the state of every LUN,    *)
(* holding nothing.  The kernel is not preemptible: a process runs until   *)
(* it sleeps, but one that is woken with the semaphore runs only later.    *)
(***************************************************************************)
EXTENDS Integers, FiniteSets, Sequences

CONSTANTS
    NLuns,          \* number of LUNs
    Files,          \* the backing files that can be opened
    Writable,       \* those that can be opened for writing
    Long,           \* those long enough for a CD-ROM track
    removable,      \* the module parameter
    Commands,       \* the commands the host sends
    Writers,        \* the processes that write to the sysfs attributes
    MaxCmd, MaxExc, MaxStore    \* bounds: commands, exceptions, sysfs writes

Luns == 0 .. NLuns - 1
Ops  == {"INQUIRY", "REQUEST_SENSE", "MODE_SENSE", "PREVENT", "ALLOW", "READ", "WRITE",
         "READ_TOC", "START", "STOP", "EJECT", "UNKNOWN"}

\* A command is for a LUN, which need not exist; its length or its fields may
\* be wrong.
CommandType == [op : Ops, lun : Nat, form : {"ok", "length", "field"}]

NoCommand == [op |-> "UNKNOWN", lun |-> 0, form |-> "ok"]

ASSUME MediumAssumption ==
    /\ NLuns \in Nat \ {0}
    /\ Writable \subseteq Files /\ Long \subseteq Files
    /\ removable \in BOOLEAN
    /\ Commands \subseteq CommandType
    /\ MaxCmd \in Nat /\ MaxExc \in Nat /\ MaxStore \in Nat

NULL    == -1       \* no LUN
NoFile  == "none"
Unknown == "unknown"
ASSUME NamesAssumption == {NoFile, Unknown} \cap Files = {} /\ {"thread", "nobody"} \cap Writers = {}

VARIABLES
    cdrom,          \* which LUNs are CD-ROM drives; fixed when the module is loaded
    filp,           \* the medium of each LUN: a file and how it was opened
    ro,             \* LUN is read-only
    prevent,        \* prevent_medium_removal
    sense,          \* sense_data
    ua,             \* unit_attention_data
    filesem,        \* who holds the semaphore for reading, who for writing, and who waits
    pc,             \* where the main thread is
    cmnd,           \* the command it carries out
    curlun,         \* fsg->curlun
    phase_error,    \* fsg->phase_error
    using,          \* the LUN whose backing file the thread is reading, writing or syncing
    i,              \* the loop variable of fsync_all
    running,        \* the interface is up
    exc,            \* fsg->state: the exception to be handled, if any
    signal,         \* SIGUSR1 is pending
    store,          \* what each writer is doing: its LUN, the new file, its step
    known,          \* auxiliary: the medium the host believes to be in each LUN
    wp,             \* auxiliary: the write protection the host believes in
    wiped,          \* auxiliary: LUNs whose notice was wiped before the host got it
    n               \* how many commands, exceptions and sysfs writes there were

state == <<filp, ro, prevent, sense, ua>>
flow  == <<cmnd, curlun, phase_error>>
host  == <<known, wp, wiped>>
excs  == <<exc, signal, running>>
vars  == <<cdrom, state, filesem, pc, flow, using, i, excs, store, host, n>>

Procs == Writers \cup {"thread"}
Notices == {"MEDIUM_NOT_PRESENT", "NOT_READY_TO_READY", "RESET_OCCURRED"}
Senses == Notices \cup {"NO_SENSE", "INVALID_COMMAND", "INVALID_FIELD", "WRITE_PROTECTED",
                        "REMOVAL_PREVENTED"}
Media  == [file : Files, mode : {"r", "rw"}] \cup {[file |-> NoFile, mode |-> "r"]}
Empty  == [file |-> NoFile, mode |-> "r"]
NoStore == [lun |-> NULL, file |-> NoFile, ro |-> FALSE, at |-> "none"]

WaiterType == [proc : Procs, mode : {"read", "write"}]
SemType    == [readers : SUBSET Procs, writer : Procs \cup {"nobody"}, queue : Seq(WaiterType)]
StoreType  == [lun : Luns, file : Files \cup {NoFile}, ro : BOOLEAN,
               at : {"down_read", "down_write", "open", "load"}] \cup {NoStore}
CountType  == [cmd : 0 .. MaxCmd, exc : 0 .. MaxExc, store : 0 .. MaxStore]

TypeOK ==
    /\ cdrom \subseteq Luns
    /\ filp \in [Luns -> Media]
    /\ ro \subseteq Luns /\ prevent \subseteq Luns
    /\ sense \in [Luns -> Senses] /\ ua \in [Luns -> Notices \cup {"NO_SENSE"}]
    /\ filesem \in SemType
    /\ pc \in {"idle", "wait", "exec", "status", "eject", "reread", "handle", "setif", "sync",
               "oops"}
    /\ cmnd \in CommandType
    /\ curlun \in Luns \cup {NULL} /\ phase_error \in BOOLEAN
    /\ using \in Luns \cup {NULL} /\ i \in 0 .. NLuns
    /\ running \in BOOLEAN /\ signal \in BOOLEAN
    /\ exc \in {"NONE", "RESET", "CONFIG", "DISCONNECT"}
    /\ store \in [Writers -> StoreType]
    /\ known \in [Luns -> Files \cup {Unknown}]
    /\ wp \in [Luns -> {"ro", "rw", Unknown}]
    /\ wiped \subseteq Luns
    /\ n \in CountType

-----------------------------------------------------------------------------
(* Backing files.                                                          *)

\* open_backing_file: which files are accepted as a medium of LUN l, and how
\* they are opened: "R/W if we can, R/O if we must".
Opens(l, f)        == f \in Files /\ (l \in cdrom => f \in Long)
Medium(f, as_ro)   == [file |-> f, mode |-> IF as_ro \/ f \notin Writable THEN "r" ELSE "rw"]

backing_file_is_open(l) == filp[l] # Empty

\* fsg_bind: the LUNs with their media; a CD-ROM drive is read-only.
Init ==
    /\ cdrom \in SUBSET Luns
    /\ \E param \in SUBSET Luns, file \in [Luns -> Files \cup {NoFile}] :
          /\ \A l \in Luns : IF file[l] = NoFile THEN removable ELSE Opens(l, file[l])
          /\ filp = [l \in Luns |-> IF file[l] = NoFile THEN Empty
                                   ELSE Medium(file[l], l \in param \cup cdrom)]
          /\ ro = param \cup cdrom \cup {l \in Luns : file[l] \in Files \ Writable}
    /\ prevent = {}
    /\ sense = [l \in Luns |-> "NO_SENSE"] /\ ua = [l \in Luns |-> "NO_SENSE"]
    /\ filesem = [readers |-> {}, writer |-> "nobody", queue |-> <<>>]
    /\ pc = "idle" /\ cmnd = NoCommand
    /\ curlun = NULL /\ phase_error = FALSE /\ using = NULL /\ i = 0
    /\ running = FALSE /\ exc = "NONE" /\ signal = FALSE
    /\ store = [w \in Writers |-> NoStore]
    /\ known = [l \in Luns |-> Unknown] /\ wp = [l \in Luns |-> Unknown] /\ wiped = {}
    /\ n = [cmd |-> 0, exc |-> 0, store |-> 0]

-----------------------------------------------------------------------------
(* The semaphore: its wait list is first come, first served, and whoever   *)
(* releases it hands it on.                                                *)

Waits(s, p, m) == [s EXCEPT !.queue = Append(@, [proc |-> p, mode |-> m])]

\* __down_read and __down_write: nobody gets past a process that waits.
DownRead(s, p) ==
    IF s.writer = "nobody" /\ s.queue = <<>> THEN [s EXCEPT !.readers = @ \cup {p}]
                                            ELSE Waits(s, p, "read")
DownWrite(s, p) ==
    IF s.writer = "nobody" /\ s.readers = {} /\ s.queue = <<>> THEN [s EXCEPT !.writer = p]
                                                             ELSE Waits(s, p, "write")

HandWriter(s) == [readers |-> {}, writer |-> Head(s.queue).proc, queue |-> Tail(s.queue)]

\* __up_read: the last reader gives the semaphore to the first process that
\* waits, which must be a writer.
UpRead(s, p) ==
    IF s.readers \ {p} = {} /\ s.queue # <<>> THEN HandWriter(s)
                                             ELSE [s EXCEPT !.readers = @ \ {p}]

\* How many readers wait in front of the first writer.
LeadingReaders(q) ==
    CHOOSE k \in 0 .. Len(q) : /\ \A j \in 1 .. k : q[j].mode = "read"
                               /\ k < Len(q) => q[k + 1].mode = "write"

\* Mutant: only the first reader is woken.
UpWrite_WakesOne(s) ==
    IF s.queue # <<>> /\ Head(s.queue).mode = "write" THEN HandWriter(s)
    ELSE LET k == IF s.queue = <<>> THEN 0 ELSE 1
         IN [readers |-> {s.queue[j].proc : j \in 1 .. k}, writer |-> "nobody",
             queue |-> SubSeq(s.queue, k + 1, Len(s.queue))]

\* __up_write: to the first writer, or to all the readers in front of it.
UpWrite(s) ==
    LET k == LeadingReaders(s.queue)
    IN IF k = 0 /\ s.queue # <<>> THEN HandWriter(s)
       ELSE [readers |-> {s.queue[j].proc : j \in 1 .. k}, writer |-> "nobody",
             queue |-> SubSeq(s.queue, k + 1, Len(s.queue))]

-----------------------------------------------------------------------------
(* The main thread carries out a command.                                  *)

Exempt      == {"INQUIRY", "REQUEST_SENSE"}
NeedsMedium == {"READ", "WRITE", "READ_TOC"}

\* READ HEADER and READ TOC are dispatched on the kind of fsg->curlun, which is
\* still the LUN of the command before.
Dispatched(c) == IF c.op = "READ_TOC" /\ curlun \notin cdrom THEN "UNKNOWN" ELSE c.op

\* check_command: the first thing that is wrong with a command.
Verdict(op, c) ==
    IF c.form = "length" /\ op # "UNKNOWN" THEN "PHASE_ERROR"
    ELSE IF c.lun \notin Luns
         THEN IF op \in Exempt /\ c.form # "field" THEN "OK" ELSE "NOT_SUPPORTED"
    ELSE IF ua[c.lun] # "NO_SENSE" /\ op \notin Exempt THEN ua[c.lun]
    ELSE IF c.form = "field" THEN "INVALID_FIELD"
    ELSE IF op \in NeedsMedium /\ ~backing_file_is_open(c.lun) THEN "MEDIUM_NOT_PRESENT"
    ELSE "OK"

\* Mutant: every command ends the unit attention condition, INQUIRY too.
Checked_ClearsAlways(op, c, v) ==
    /\ curlun' = IF v = "PHASE_ERROR" THEN curlun ELSE IF c.lun \in Luns THEN c.lun ELSE NULL
    /\ phase_error' = (v = "PHASE_ERROR")
    /\ IF c.lun \in Luns /\ v # "PHASE_ERROR"
       THEN /\ sense' = [sense EXCEPT ![c.lun] = IF v # "OK" THEN v
                                                 ELSE IF op = "REQUEST_SENSE" THEN @
                                                 ELSE "NO_SENSE"]
            /\ ua' = [ua EXCEPT ![c.lun] = "NO_SENSE"]
       ELSE UNCHANGED <<sense, ua>>

\* What check_command leaves in fsg->curlun and in the LUN: sense data, cleared
\* unless it is asked for, and no unit attention if that is what it reports.
Checked(op, c, v) ==
    /\ curlun' = IF v = "PHASE_ERROR" THEN curlun ELSE IF c.lun \in Luns THEN c.lun ELSE NULL
    /\ phase_error' = (v = "PHASE_ERROR")
    /\ IF c.lun \in Luns /\ v # "PHASE_ERROR"
       THEN /\ sense' = [sense EXCEPT ![c.lun] = IF v # "OK" THEN v
                                                 ELSE IF op = "REQUEST_SENSE" THEN @
                                                 ELSE "NO_SENSE"]
            /\ ua' = [ua EXCEPT ![c.lun] = IF op \in Exempt THEN @ ELSE "NO_SENSE"]
       ELSE UNCHANGED <<sense, ua>>

\* What the handler of a command for LUN l leaves in its sense data.
Outcome(op, l) ==
    CASE op = "UNKNOWN"                                  -> "INVALID_COMMAND"
      [] op \in {"PREVENT", "ALLOW"} /\ ~removable       -> "INVALID_COMMAND"
      [] op \in {"START", "STOP", "EJECT"} /\ ~removable -> "INVALID_COMMAND"
      [] op \in {"STOP", "EJECT"} /\ removable /\ l \in prevent    -> "REMOVAL_PREVENTED"
      [] op = "START" /\ removable /\ ~backing_file_is_open(l)     -> "MEDIUM_NOT_PRESENT"
      [] op = "WRITE" /\ l \in ro                        -> "WRITE_PROTECTED"
      [] OTHER                                           -> "NO_SENSE"

\* Handlers that wait for something: for data, for fsync_sub, for the semaphore.
Sleeps(op, l) ==
    /\ Outcome(op, l) = "NO_SENSE"
    /\ (op \in {"READ", "WRITE", "EJECT"} \/ (op = "ALLOW" /\ l \in prevent))

\* The next command arrives.
Arrives == pc = "idle" /\ exc = "NONE" /\ ~signal /\ running
           /\ n.cmd < MaxCmd /\ n' = [n EXCEPT !.cmd = @ + 1]

Free == filesem.writer = "nobody" /\ filesem.queue = <<>>

\* do_scsi_command has to wait for the semaphore.
CommandWaits(c) ==
    /\ Arrives /\ ~Free
    /\ filesem' = DownRead(filesem, "thread")
    /\ pc' = "wait" /\ cmnd' = c
    /\ UNCHANGED <<cdrom, state, curlun, phase_error, using, i, excs, store, host>>

\* do_scsi_command has the semaphore, at once or after its wait.
Begins(c) ==
    /\ \/ Arrives /\ Free
       \/ pc = "wait" /\ cmnd = c /\ "thread" \in filesem.readers /\ UNCHANGED n
    /\ UNCHANGED <<cdrom, filp, ro, i, excs, store>>

Held == [filesem EXCEPT !.readers = @ \cup {"thread"}]

\* (A START STOP UNIT that succeeds also reports a switch event: UsbModeSwitch.)

\* A READ TOC without a current LUN dereferences a null pointer: the thread is
\* killed and keeps the semaphore.
CommandOops(c) ==
    /\ Begins(c) /\ c.op = "READ_TOC" /\ curlun = NULL
    /\ pc' = "oops" /\ cmnd' = c
    /\ filesem' = Held
    /\ UNCHANGED <<curlun, phase_error, prevent, using, sense, ua, host>>

\* check_command refuses the command, or the LUN does not exist and need not.
CommandRefused(c) ==
    LET op == Dispatched(c)
        v  == Verdict(op, c)
    IN /\ Begins(c) /\ ~(c.op = "READ_TOC" /\ curlun = NULL)
       /\ v # "OK" \/ c.lun \notin Luns
       /\ cmnd' = [c EXCEPT !.op = op] /\ Checked(op, c, v)
       /\ pc' = "status" /\ filesem' = UpRead(Held, "thread")
       /\ UNCHANGED <<prevent, using, host>>

Accepted(c) ==
    /\ Begins(c) /\ ~(c.op = "READ_TOC" /\ curlun = NULL)
    /\ Verdict(Dispatched(c), c) = "OK" /\ c.lun \in Luns
    /\ cmnd' = [c EXCEPT !.op = Dispatched(c)]
    /\ curlun' = c.lun /\ phase_error' = FALSE
    /\ sense' = [sense EXCEPT ![c.lun] = Outcome(Dispatched(c), c.lun)]
    /\ UNCHANGED ua

\* The command is carried out without a break: INQUIRY, REQUEST SENSE (which
\* clears the sense data), MODE SENSE (which reports the write-protect bit, if
\* the reply is not lost), READ TOC, PREVENT, and what is refused.
CommandAtOnce(c) ==
    LET op == Dispatched(c)
        l  == c.lun
    IN /\ Accepted(c) /\ ~Sleeps(op, l)
       /\ prevent' = IF op = "PREVENT" /\ removable THEN prevent \cup {l} ELSE prevent
       /\ \/ op = "MODE_SENSE" /\ wp' = [wp EXCEPT ![l] = IF l \in ro THEN "ro" ELSE "rw"]
          \/ UNCHANGED wp
       /\ known' = IF op = "READ_TOC" THEN [known EXCEPT ![l] = filp[l].file] ELSE known
       /\ pc' = "status" /\ filesem' = UpRead(Held, "thread")
       /\ UNCHANGED <<using, wiped>>

\* The command waits, with the semaphore for reading, while it uses the file;
\* an eject gives the semaphore up and wants it for writing.
CommandSleeps(c) ==
    LET op == Dispatched(c)
    IN /\ Accepted(c) /\ Sleeps(op, c.lun)
       /\ IF op = "EJECT"
          THEN /\ pc' = "eject" /\ UNCHANGED using
               /\ filesem' = DownWrite(UpRead(Held, "thread"), "thread")
          ELSE pc' = "exec" /\ using' = c.lun /\ filesem' = Held
       /\ UNCHANGED <<prevent, host>>

\* The end of do_read and do_write: the host has seen the medium, or has
\* written to it; of do_prevent_allow after it has synced the file.
CommandEnds ==
    /\ pc = "exec" /\ pc' = "status"
    /\ using' = NULL /\ filesem' = UpRead(filesem, "thread")
    /\ IF cmnd.op = "ALLOW"
       THEN prevent' = prevent \ {curlun} /\ UNCHANGED known
       ELSE known' = [known EXCEPT ![curlun] = filp[curlun].file] /\ UNCHANGED prevent
    /\ UNCHANGED <<cdrom, filp, ro, sense, ua, flow, i, excs, store, wp, wiped, n>>

\* "Simulate an unload/eject": once the thread has the semaphore for writing it
\* closes the backing file and wants the semaphore for reading again, ...
EjectCloses ==
    /\ pc = "eject" /\ filesem.writer = "thread"
    /\ filp' = [filp EXCEPT ![curlun] = Empty]
    /\ filesem' = DownRead(UpWrite(filesem), "thread") /\ pc' = "reread"
    /\ UNCHANGED <<cdrom, ro, prevent, sense, ua, flow, using, i, excs, store, host, n>>

\* ... only to release it at the end of the command.
EjectEnds ==
    /\ pc = "reread" /\ "thread" \in filesem.readers
    /\ filesem' = UpRead(filesem, "thread") /\ pc' = "status"
    /\ UNCHANGED <<cdrom, state, flow, using, i, excs, store, host, n>>

\* finish_reply and send_status.  If a signal is pending the host gets no
\* status, and the notice in the sense data is lost.
SendStatus ==
    /\ pc = "status" /\ pc' = "idle"
    /\ LET l      == curlun
           failed == l # NULL /\ ~phase_error /\ sense[l] # "NO_SENSE"
           told   == failed /\ sense[l] \in Notices
       IN IF told /\ signal THEN wiped' = wiped \cup {l} /\ UNCHANGED <<known, wp>>
          ELSE IF told
               THEN /\ known' = [known EXCEPT ![l] = Unknown]
                    /\ wp' = [wp EXCEPT ![l] = Unknown]
                    /\ wiped' = wiped \ {l}
          ELSE IF cmnd.op = "EJECT" /\ l # NULL /\ ~phase_error /\ ~failed /\ ~signal
               THEN known' = [known EXCEPT ![l] = Unknown] /\ UNCHANGED <<wp, wiped>>
          ELSE UNCHANGED host
    /\ cmnd' = NoCommand /\ phase_error' = FALSE
    /\ UNCHANGED <<cdrom, state, filesem, curlun, using, i, excs, store, n>>

-----------------------------------------------------------------------------
(* Exceptions.                                                             *)

Rank(e) == CASE e = "NONE" -> 0 [] e = "RESET" -> 1 [] e = "CONFIG" -> 2 [] e = "DISCONNECT" -> 3

\* raise_exception, for a Bulk-only reset, a SET_INTERFACE or SET_CONFIGURATION,
\* and the end of the connection.
raise_exception(new) ==
    /\ n.exc < MaxExc /\ n' = [n EXCEPT !.exc = @ + 1]
    /\ pc # "oops"
    /\ IF Rank(exc) <= Rank(new) THEN exc' = new /\ signal' = TRUE
                                 ELSE UNCHANGED <<exc, signal>>
    /\ UNCHANGED <<cdrom, state, filesem, pc, flow, using, i, running, store, host>>

\* handle_exception takes the signals that are pending; a signal may be left
\* over from an exception that was handled already.
HandleBegins ==
    /\ pc = "idle" /\ (exc # "NONE" \/ signal)
    /\ signal' = FALSE /\ pc' = "handle"
    /\ UNCHANGED <<cdrom, state, filesem, flow, using, i, running, exc, store, host, n>>

\* It then clears the state of every LUN, whatever the exception, and the
\* exception.  A signal that comes before this is left over.
HandleResets ==
    /\ pc = "handle"
    /\ prevent' = {}
    /\ sense' = [l \in Luns |-> "NO_SENSE"] /\ ua' = [l \in Luns |-> "NO_SENSE"]
    /\ wiped' = wiped \cup {l \in Luns : ua[l] # "NO_SENSE"}
    /\ exc' = "NONE"
    /\ pc' = CASE exc = "CONFIG" -> "setif" [] exc = "DISCONNECT" -> "sync" [] OTHER -> "idle"
    /\ UNCHANGED <<cdrom, filp, ro, filesem, flow, using, i, running, signal, store, known, wp, n>>

\* do_set_interface: if it succeeds, every LUN has a unit attention condition.
do_set_interface ==
    /\ pc = "setif" /\ pc' = "idle"
    /\ \E up \in BOOLEAN :
          /\ running' = up
          /\ IF up THEN ua' = [l \in Luns |-> "RESET_OCCURRED"] /\ wiped' = {}
                   ELSE UNCHANGED <<ua, wiped>>
    /\ UNCHANGED <<cdrom, filp, ro, prevent, sense, filesem, flow, using, i, exc, signal, store,
                   known, wp, n>>

\* fsync_all: without the semaphore.
SyncBegins ==
    /\ pc = "sync" /\ using = NULL /\ i < NLuns
    /\ IF backing_file_is_open(i) /\ i \notin ro
       THEN using' = i /\ UNCHANGED i
       ELSE i' = i + 1 /\ UNCHANGED using
    /\ UNCHANGED <<cdrom, state, filesem, pc, flow, excs, store, host, n>>

SyncEnds ==
    /\ pc = "sync"
    /\ IF using # NULL
       THEN using' = NULL /\ i' = i + 1 /\ UNCHANGED <<pc, running>>
       ELSE i = NLuns /\ i' = 0 /\ running' = FALSE /\ pc' = "idle" /\ UNCHANGED using
    /\ UNCHANGED <<cdrom, state, filesem, flow, exc, signal, store, host, n>>

-----------------------------------------------------------------------------
(* The sysfs attributes.                                                   *)

\* fsg_bind makes the one dev_attr_ro writable when it meets a disk, and creates
\* the attribute of that LUN and of all later ones from it.
RoAttributeWritable(l) == \E k \in 0 .. l : k \notin cdrom

\* A process starts to write to an attribute.
Writing(w) == store[w] = NoStore /\ n.store < MaxStore /\ n' = [n EXCEPT !.store = @ + 1]

\* Mutant: the read-only status changes under an open file.
SetsRo_WhileOpen(l, value) == ro' = IF value THEN ro \cup {l} ELSE ro \ {l}

\* "Allow the write-enable status to change only while the backing file is
\* closed."
SetsRo(l, value) ==
    ro' = IF backing_file_is_open(l) THEN ro ELSE IF value THEN ro \cup {l} ELSE ro \ {l}

\* store_ro, at once or when it has the semaphore.  (show_file takes the
\* semaphore in the same way and changes nothing.)
store_ro(w, l, value) ==
    /\ RoAttributeWritable(l) /\ Writing(w)
    /\ IF Free
       THEN SetsRo(l, value) /\ ro' # ro /\ UNCHANGED <<filesem, store>>
       ELSE /\ filesem' = DownRead(filesem, w) /\ UNCHANGED ro
            /\ store' = [store EXCEPT ![w] = [lun |-> l, file |-> NoFile, ro |-> value,
                                             at |-> "down_read"]]
    /\ UNCHANGED <<cdrom, filp, prevent, sense, ua, pc, flow, using, i, excs, host>>

StoreRoEnds(w) ==
    /\ store[w].at = "down_read" /\ w \in filesem.readers
    /\ SetsRo(store[w].lun, store[w].ro)
    /\ filesem' = UpRead(filesem, w) /\ store' = [store EXCEPT ![w] = NoStore]
    /\ UNCHANGED <<cdrom, filp, prevent, sense, ua, pc, flow, using, i, excs, host, n>>

\* Mutant: store_file does not wait for readers of the backing file.
store_file_Shared(w, l, f) ==
    /\ removable /\ Writing(w)
    /\ ~(l \in prevent /\ backing_file_is_open(l))
    /\ filesem.writer = "nobody"
    /\ store' = [store EXCEPT ![w] = [lun |-> l, file |-> f, ro |-> FALSE, at |-> "down_write"]]
    /\ filesem' = [filesem EXCEPT !.writer = w]
    /\ UNCHANGED <<cdrom, state, pc, flow, using, i, excs, host>>

\* Mutant: the lock is not tested.
store_file_NoTest(w, l, f) ==
    /\ removable /\ Writing(w)
    /\ store' = [store EXCEPT ![w] = [lun |-> l, file |-> f, ro |-> FALSE, at |-> "down_write"]]
    /\ filesem' = DownWrite(filesem, w)
    /\ UNCHANGED <<cdrom, state, pc, flow, using, i, excs, host>>

\* store_file: refuse if "door is locked", else take the semaphore for writing.
\* Nothing comes between the test and the place in the semaphore's wait list.
store_file(w, l, f) ==
    /\ removable /\ Writing(w)
    /\ ~(l \in prevent /\ backing_file_is_open(l))
    /\ store' = [store EXCEPT ![w] = [lun |-> l, file |-> f, ro |-> FALSE, at |-> "down_write"]]
    /\ filesem' = DownWrite(filesem, w)
    /\ UNCHANGED <<cdrom, state, pc, flow, using, i, excs, host>>

Unlocked(w) == filesem' = UpWrite(filesem) /\ store' = [store EXCEPT ![w] = NoStore]

\* It has the semaphore: "Eject current medium".
StoreEjects(w) ==
    /\ store[w].at = "down_write" /\ filesem.writer = w
    /\ LET l == store[w].lun
       IN IF backing_file_is_open(l)
          THEN /\ filp' = [filp EXCEPT ![l] = Empty]
               /\ ua' = [ua EXCEPT ![l] = "MEDIUM_NOT_PRESENT"]
          ELSE UNCHANGED <<filp, ua>>
    /\ IF store[w].file = NoFile THEN Unlocked(w)
       ELSE store' = [store EXCEPT ![w].at = "open"] /\ UNCHANGED filesem
    /\ UNCHANGED <<cdrom, ro, prevent, sense, pc, flow, using, i, excs, host, n>>

\* "Load new medium": open_backing_file looks at the LUN's read-only status,
\* opens the file ...
StoreOpens(w) ==
    /\ store[w].at = "open"
    /\ store' = [store EXCEPT ![w] = [lun |-> store[w].lun, file |-> store[w].file,
                                       ro |-> store[w].lun \in ro, at |-> "load"]]
    /\ UNCHANGED <<cdrom, state, filesem, pc, flow, using, i, excs, host, n>>

\* Mutant: the new medium ends the unit attention condition of the eject.
StoreLoads_EndsNotice(w) ==
    /\ store[w].at = "load" /\ Opens(store[w].lun, store[w].file)
    /\ filp' = [filp EXCEPT ![store[w].lun] = Medium(store[w].file, store[w].ro)]
    /\ ro' = IF store[w].ro \/ store[w].file \notin Writable THEN ro \cup {store[w].lun}
          ELSE ro \ {store[w].lun}
    /\ ua' = [ua EXCEPT ![store[w].lun] = "NO_SENSE"]
    /\ Unlocked(w)
    /\ UNCHANGED <<cdrom, prevent, sense, pc, flow, using, i, excs, host, n>>

\* ... and, unless the file is no good, records it and how it was opened.
StoreLoads(w) ==
    /\ store[w].at = "load"
    /\ LET l == store[w].lun
           m == Medium(store[w].file, store[w].ro)
       IN IF Opens(l, store[w].file)
          THEN /\ filp' = [filp EXCEPT ![l] = m]
               /\ ro' = IF m.mode = "r" THEN ro \cup {l} ELSE ro \ {l}
               /\ ua' = [ua EXCEPT ![l] = "NOT_READY_TO_READY"]
          ELSE UNCHANGED <<filp, ro, ua>>
    /\ Unlocked(w)
    /\ UNCHANGED <<cdrom, prevent, sense, pc, flow, using, i, excs, host, n>>

-----------------------------------------------------------------------------
Executes(c) == CommandOops(c) \/ CommandRefused(c) \/ CommandAtOnce(c) \/ CommandSleeps(c)
Handlers    == CommandEnds \/ EjectCloses \/ EjectEnds \/ SendStatus
HandleException == HandleBegins \/ HandleResets \/ do_set_interface \/ SyncBegins \/ SyncEnds
StoreSteps(w)   == StoreRoEnds(w) \/ StoreEjects(w) \/ StoreOpens(w) \/ StoreLoads(w)

Next ==
    \/ \E c \in Commands : CommandWaits(c) \/ Executes(c)
    \/ Handlers \/ HandleException
    \/ \E e \in {"RESET", "CONFIG", "DISCONNECT"} : raise_exception(e)
    \/ \E w \in Writers :
          \/ StoreSteps(w)
          \/ \E l \in Luns, v \in BOOLEAN : store_ro(w, l, v)
          \/ \E l \in Luns, f \in Files \cup {NoFile} : store_file(w, l, f)

Spec == Init /\ [][Next]_vars

-----------------------------------------------------------------------------
(* Properties.                                                             *)

\* A medium the host has not been told of is announced: while it is in the
\* LUN, a unit attention condition is pending, or the command that reports it
\* is under way, unless an exception has wiped the notice.
ChangePending ==
    \A l \in Luns :
        known[l] \notin {Unknown, filp[l].file} /\ backing_file_is_open(l)
        => \/ ua[l] # "NO_SENSE"
           \/ l \in wiped
           \/ pc = "status" /\ curlun = l /\ ~phase_error /\ sense[l] \in Notices

\* So the host never reads from, or writes to, another medium than it thinks it
\* does: READ and WRITE are refused once after every change.
MediumAnnounced ==
    [][\A l \in Luns : known[l] # Unknown /\ known'[l] \notin {Unknown, known[l]}
                       => l \in wiped]_vars

\* What MODE SENSE has told the host about write protection holds whenever a
\* command gets through to a medium, unless a notice was wiped.
ProtectionAnnounced ==
    pc = "exec" /\ cmnd.op \in NeedsMedium /\ wp[curlun] # Unknown /\ curlun \notin wiped
    => (wp[curlun] = "ro" <=> curlun \in ro)

\* "Door is locked": while a medium is locked in and no store_file for its LUN has
\* passed the test before, it stays, and none passes the test.  (One that passed it
\* earlier and waits for the semaphore does not test again: it ejects the medium.)
PastTest(l) == \E w \in Writers : store[w].at \in {"down_write", "open", "load"} /\ store[w].lun = l
SettledLockHolds ==
    [][\A l \in Luns : l \in prevent /\ backing_file_is_open(l) /\ ~PastTest(l)
                       => filp'[l] = filp[l] /\ (l \in prevent' => ~PastTest(l)')]_vars

\* No hand-over of the semaphore is lost or goes wrong: a writer has it alone;
\* somebody holds it as long as somebody waits; when readers hold it the first
\* to wait is a writer, so that the last of them may hand it on unseen; and
\* nobody who wanted to read is left with it for writing, or the other way round.
HandedOn ==
    /\ filesem.readers = {} \/ filesem.writer = "nobody"
    /\ filesem.queue # <<>> => filesem.readers # {} \/ filesem.writer # "nobody"
    /\ filesem.queue # <<>> /\ filesem.readers # {} => Head(filesem.queue).mode = "write"
    /\ "thread" \in filesem.readers => pc \in {"wait", "exec", "reread", "oops"}
    /\ filesem.writer = "thread" => pc = "eject"
    /\ \A w \in Writers :
          /\ w \in filesem.readers => store[w].at = "down_read"
          /\ filesem.writer = w => store[w].at \in {"down_write", "open", "load"}

\* "We're using the backing file": a medium stays while a command uses it.
\* (fsync_all uses backing files without the semaphore, and they may go away.)
CommandKeepsMedium ==
    [][\A l \in Luns : using = l /\ pc # "sync" => filp'[l] = filp[l]]_vars

\* "For CD-ROM emulation, access is always read-only": no WRITE gets through to
\* a CD-ROM drive.
CdromReadOnly == pc = "exec" /\ cmnd.op = "WRITE" => curlun \notin cdrom

=============================================================================
