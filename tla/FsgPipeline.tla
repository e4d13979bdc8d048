----------------------------- MODULE FsgPipeline -----------------------------
(***************************************************************************)
(* The Bulk-only command pipeline of the file-backed storage gadget        *)
(* (drivers/usb/gadget/file_storage.c): a command block arrives in a       *)
(* buffer head, data moves between the backing file and the host through   *)
(* the ring of buffer heads, and a status wrapper ends the command.        *)
(*                                                                         *)
(* Actors: the main thread (pc), and the host with the device controller,  *)
(* which finish one queued transfer at a time.  The thread is cut where it *)
(* waits for a buffer head; FsgException looks inside its waiting and      *)
(* inside handle_exception, which is one action here.                      *)
(*                                                                         *)
(* Data is counted in units, Block of them to a 512-byte block.  A unit of *)
(* a READ is its offset in the backing file, a unit of a WRITE its         *)
(* position in what the host sends.                                        *)
(***************************************************************************)
EXTENDS Integers, Sequences, FiniteSets

CONSTANTS
    NUM_BUFFERS,
    Block,      \* units in a block; a bulk packet is a block
    BufLen,     \* mod_data.buflen
    Page,       \* PAGE_CACHE_SIZE
    FileLen,    \* curlun->file_length
    Wrap,       \* 2^32: a length from a command block wraps here
    ReplyLen,   \* length of a reply that is built in the buffer (INQUIRY, ...)
    CswLen,     \* USB_BULK_CS_WRAP_LEN
    can_stall,  \* mod_data.can_stall
    Cbws,       \* the command block wrappers the host may send
    MaxCmd,     \* bound: number of commands
    MaxReset,   \* bound: number of device resets
    Faults      \* which faults occur: "io", a file read or write fails; "short", the
                \* host stops sending early; "usb", a transfer from the host fails;
                \* "check", check_command or the command finds fault with a command

\* A wrapper is well-formed ("ok"), not valid ("bad") or not meaningful ("odd"); n is
\* a number of blocks, or an allocation length; size is the data the host expects to
\* move, in direction dir.
Ops == {"read", "write", "verify", "reply", "select", "other"}

CbwType == [form : {"ok", "bad", "odd"}, op : Ops, lba : Nat, n : Nat,
            dir : {"in", "out", "none"}, size : Nat]

ASSUME SizesAssumption ==
    /\ {NUM_BUFFERS, Block, BufLen, Page, Wrap} \subseteq Nat \ {0}
    /\ {FileLen, ReplyLen, CswLen, MaxCmd, MaxReset} \subseteq Nat
    /\ BufLen % Page = 0 /\ Page % Block = 0 /\ Wrap % Block = 0
    /\ ReplyLen <= BufLen /\ CswLen <= BufLen
    /\ can_stall \in {0, 1}
    /\ Faults \subseteq {"io", "short", "usb", "check"}

ASSUME CbwsAssumption ==
    \A c \in Cbws : c \in CbwType /\ (c.size = 0 <=> c.dir = "none")

VARIABLES
    pc,                \* where the thread is
    bh,                \* the buffer heads: state; inlen, the length of inreq; outlen and
                       \* act, length and actual of outreq; err, whether its status is
                       \* not 0; want, what it was queued for; buf, what is in the buffer
    fill, drain,       \* next_buffhd_to_fill, next_buffhd_to_drain
    outq, inq,         \* the controller's bulk-out and bulk-in queues
    halted,            \* the bulk endpoints that are halted
    ignore,            \* IGNORE_BULK_OUT
    exc,               \* the pending exception
    fsg,               \* fsg_dev's counters and flags of the current command
    tag,               \* fsg->tag, saved from its wrapper
    io,                \* the locals of do_read and do_write
    cbw,               \* the wrapper the host sent last
    host,              \* what the host does: phase, tag of its command, units moved
    sent, written,     \* the units queued for the host, the units written to the file
                       \* (offset, position) in the current command
    resets

vars == <<pc, bh, fill, drain, outq, inq, halted, ignore, exc, fsg, tag, io, cbw,
          host, sent, written, resets>>

Heads == 0 .. NUM_BUFFERS - 1

Zero == -1     \* a unit of padding
Junk == -2     \* whatever the buffer held before

NoCsw == [tag |-> 0, residue |-> 0, status |-> "none"]

NoCbw == [form |-> "ok", op |-> "other", lba |-> 0, n |-> 0, dir |-> "none", size |-> 0]

num_sectors == FileLen \div Block

Least(S) == CHOOSE x \in S : \A y \in S : x <= y

\* bh->next.
NextBh(b) == IF b = NUM_BUFFERS - 1 THEN 0 ELSE b + 1

EmptyBh == [state |-> "EMPTY", inlen |-> 0, outlen |-> 0, act |-> 0, err |-> 0,
            want |-> "none", buf |-> <<>>]

\* do_set_interface has allocated the requests and the thread is about to ask for the
\* first command.
Init ==
    /\ pc = "get"
    /\ bh = [b \in Heads |-> EmptyBh]
    /\ fill = 0 /\ drain = 0
    /\ outq = <<>> /\ inq = <<>>
    /\ halted = {} /\ ignore = 0 /\ exc = "none"
    /\ fsg = [residue |-> 0, left |-> 0, phase_error |-> 0, short |-> 0, sense |-> 0]
    /\ tag = 0
    /\ io = [off |-> 0, left |-> 0, uoff |-> 0, uleft |-> 0, more |-> 0,
             keep |-> 0]
    /\ cbw = NoCbw
    /\ host = [phase |-> "cbw", tag |-> 0, moved |-> 0]
    /\ sent = <<>> /\ written = {}
    /\ resets = 0

UNITS  == <<sent, written>>
QUEUES == <<outq, inq, halted>>
HOST   == <<cbw, host, resets>>
ASIDE  == <<tag, HOST>>      \* what the thread leaves alone while it works on a command

-----------------------------------------------------------------------------
(* Waiting, and the exceptions that end it.                                *)

Goto(from, to) == pc = from /\ pc' = to

Empty(b) == bh[b].state = "EMPTY"
Full(b)  == bh[b].state = "FULL"

\* do_write can ask for more data; throw_away_data can.
CanRequest == Empty(fill) /\ io.more = 1
CanDiscard == Empty(fill) /\ fsg.left > 0

\* The thread polls for signals: in the main loop, whenever it has to wait, and at the
\* end of do_scsi_command.
Polls ==
    \/ pc \in {"get", "finish"}
    \/ pc = "cbw" /\ ~Full(fill)
    \/ pc \in {"read", "pad", "status"} /\ ~Empty(fill)
    \/ pc = "write" /\ io.left > 0 /\ ~CanRequest /\ ~Full(drain)
       /\ ~(Empty(drain) /\ io.more = 0)
    \/ pc = "throw" /\ ~Full(drain) /\ ~CanDiscard /\ (~Empty(drain) \/ fsg.left > 0)
    \/ pc = "halt" /\ inq # <<>>

Interrupted ==
    /\ exc # "none" /\ Polls
    /\ pc' = "exc"
    /\ UNCHANGED <<bh, fill, drain, QUEUES, ignore, exc, fsg, io, ASIDE, UNITS>>

\* Mutant: a device reset is answered with a status wrapper too.
HandleException_Status ==
    /\ Goto("exc", "status")
    /\ outq' = <<>> /\ inq' = <<>>
    /\ bh' = [b \in Heads |-> [EmptyBh EXCEPT !.inlen = bh[b].inlen]]
    /\ fill' = 0 /\ drain' = 0
    /\ exc' = "none"
    /\ IF exc = "abort"
       THEN UNCHANGED <<halted, ignore, fsg, host>>
       ELSE /\ halted' = {} /\ ignore' = 0
            /\ fsg' = [fsg EXCEPT !.sense = 0]
            /\ host' = [host EXCEPT !.phase = "cbw"]
    /\ UNCHANGED <<tag, io, cbw, resets, UNITS>>

\* handle_exception: the transfers are cancelled and the ring is reset.  Only an
\* aborted bulk-out transfer is answered with a status wrapper; after a device reset
\* the host has cleared its halts and starts over.
HandleException ==
    /\ Goto("exc", IF exc = "abort" THEN "status" ELSE "get")
    /\ outq' = <<>> /\ inq' = <<>>
    /\ bh' = [b \in Heads |-> [EmptyBh EXCEPT !.inlen = bh[b].inlen]]
    /\ fill' = 0 /\ drain' = 0
    /\ exc' = "none"
    /\ IF exc = "abort"
       THEN UNCHANGED <<halted, ignore, fsg, host>>
       ELSE /\ halted' = {} /\ ignore' = 0
            /\ fsg' = [fsg EXCEPT !.sense = 0]
            /\ host' = [host EXCEPT !.phase = "cbw"]
    /\ UNCHANGED <<tag, io, cbw, resets, UNITS>>

-----------------------------------------------------------------------------
(* start_transfer, as its callers use it.  FsgException has the case that the  *)
(* controller refuses the request, which only a reset mends.                   *)

\* len units of the buffer whose contents are d.
Payload(len, d) == [k \in 1 .. len |-> IF k <= Len(d) THEN d[k] ELSE Junk]

\* Send the buffer head to fill: len units, ended by a zero-length packet if zero = 1.
SendData(len, d, zero) ==
    /\ inq' = Append(inq, [b |-> fill, kind |-> "data", data |-> Payload(len, d),
                           zero |-> zero, csw |-> NoCsw])
    /\ bh' = [bh EXCEPT ![fill].state = "BUSY", ![fill].inlen = len,
                        ![fill].buf = <<>>]
    /\ fill' = NextBh(fill)
    /\ sent' = sent \o Payload(len, d)
    /\ UNCHANGED <<outq, halted, written>>

\* The bulk-out request of the buffer head to fill is queued for amount units.
QueueOut(amount, want) ==
    /\ outq' = Append(outq, fill)
    /\ bh' = [bh EXCEPT ![fill].state = "BUSY", ![fill].outlen = amount,
                        ![fill].want = want]
    /\ UNCHANGED <<inq, halted>>

\* The reply of len units with contents d waits in the buffer head to fill.
Reply(len, d) ==
    bh' = [bh EXCEPT ![fill].state = "FULL", ![fill].inlen = len, ![fill].buf = d]

\* The received data is taken out of the buffer head to drain.
Drained == [bh EXCEPT ![drain].state = "EMPTY", ![drain].buf = <<>>,
                      ![drain].want = "none"]

-----------------------------------------------------------------------------
(* The command phase.                                                      *)

\* get_next_command asks for a command block wrapper: one packet.
RequestCbw ==
    /\ Goto("get", "cbw")
    /\ Empty(fill)
    /\ QueueOut(Block, "cbw")
    /\ UNCHANGED <<fill, drain, ignore, exc, fsg, io, ASIDE, UNITS>>

\* received_cbw: an invalid wrapper wedges the bulk-in endpoint and everything is
\* ignored until the next reset; one that is not meaningful halts both endpoints.  Any
\* other is a command, and its tag is saved.
ReceivedCbw ==
    /\ pc = "cbw" /\ Full(fill)
    /\ bh' = [bh EXCEPT ![fill].state = "EMPTY", ![fill].want = "none"]
    /\ LET heard == bh[fill].err = 0 /\ ignore = 0
       IN /\ pc' = IF heard /\ cbw.form = "ok" THEN "scsi" ELSE "get"
          /\ tag' = IF heard /\ cbw.form = "ok" THEN host.tag ELSE tag
          /\ ignore' = IF heard /\ cbw.form = "bad" THEN 1 ELSE ignore
          /\ halted' = IF heard /\ cbw.form = "bad" THEN halted \cup {"in"}
                       ELSE IF heard /\ cbw.form = "odd" /\ can_stall = 1
                       THEN halted \cup {"in", "out"}
                       ELSE halted
    /\ UNCHANGED <<fill, drain, outq, inq, exc, fsg, io, HOST, UNITS>>

\* The length a command block asks for, in u32, and the direction that goes with it.
SizeFromCmnd(c) ==
    CASE c.op \in {"read", "write"}   -> (c.n * Block) % Wrap
      [] c.op \in {"reply", "select"} -> c.n
      [] OTHER                        -> 0

DirFromCmnd(c) ==
    IF SizeFromCmnd(c) = 0 THEN "none"
    ELSE IF c.op \in {"read", "reply"} THEN "in" ELSE "out"

\* data_size_from_cmnd after check_command.
DataSize(c) == Least({SizeFromCmnd(c), c.size})

\* What a driver on the host does not send: a command that moves and checks nothing yet
\* announces data to the host, for which do_read, do_write and do_verify leave the reply
\* to chance (1636, 1982); and blocks past the end of a file that ends inside a block, of
\* which do_read (1651) and do_write (1795, 1813) would move a part.
Unusual(c) ==
    \/ /\ c.dir = "in"
       /\ (c.op \in {"read", "write"} /\ SizeFromCmnd(c) = 0) \/ (c.op = "verify" /\ c.n = 0)
    \/ c.op \in {"read", "write"} /\ FileLen % Block # 0 /\ c.lba + c.n > num_sectors

ASSUME OrdinaryAssumption == \A c \in Cbws : ~Unusual(c)

Conflict(c) == c.dir # DirFromCmnd(c) /\ DataSize(c) > 0

\* check_command sets the counters.  It, or the command, may find fault: a phase error
\* (the direction is wrong or the command block too short), which keeps the old sense
\* data, or new sense data.
CheckedCommand(c, fault) ==
    [residue     |-> c.size,
     left        |-> c.size,
     phase_error |-> IF c.size < SizeFromCmnd(c) \/ fault = "phase" THEN 1 ELSE 0,
     short       |-> 0,
     sense       |-> IF fault = "sense" THEN 1 ELSE IF fault = "phase" THEN fsg.sense ELSE 0]

\* do_scsi_command gets a reply of len units from a command; only a host that expects
\* data will see it.
Replies(c, len, fault) ==
    /\ pc' = "finish"
    /\ LET n == Least({len, DataSize(c)}) IN
       IF c.dir = "in"
       THEN /\ Reply(n, [k \in 1 .. n |-> k - 1])
            /\ fsg' = [CheckedCommand(c, fault) EXCEPT !.residue = @ - n]
       ELSE /\ fsg' = CheckedCommand(c, fault)
            /\ UNCHANGED bh
    /\ UNCHANGED io

\* do_read and do_write start; without anything to move, and in do_verify without
\* anything to verify, there is no reply at all.
Starts(c, to) ==
    /\ pc' = to
    /\ fsg' = CheckedCommand(c, "none")
    /\ io' = [off |-> c.lba * Block, left |-> DataSize(c),
              uoff |-> c.lba * Block, uleft |-> DataSize(c), more |-> 1,
              keep |-> 0]
    /\ UNCHANGED bh

DoRead(c) ==
    IF c.lba >= num_sectors THEN Replies(c, 0, "sense")
    ELSE Starts(c, IF DataSize(c) = 0 THEN "finish" ELSE "read")

DoWrite(c) ==
    IF c.lba >= num_sectors THEN Replies(c, 0, "sense")
    ELSE Starts(c, IF DataSize(c) = 0 THEN "finish" ELSE "write")

\* do_verify reads the blocks and sends nothing; the reads may fail or run past the end.
DoVerify(c) ==
    LET past == c.lba >= num_sectors \/ (c.lba + c.n) * Block > FileLen
    IN IF c.lba < num_sectors /\ c.n = 0 THEN Starts(c, "finish")
       ELSE \/ ~past /\ Replies(c, 0, "none")
            \/ (past \/ "io" \in Faults) /\ Replies(c, 0, "sense")

\* INQUIRY, and the other commands that build a reply in the buffer.
DoInquiry(c) == Replies(c, ReplyLen, "none")

\* We don't support MODE SELECT.
DoModeSelect(c) == Replies(c, 0, "sense")

\* do_scsi_command.  An error ends in a reply of length 0.
DoScsiCommand ==
    /\ pc = "scsi" /\ Empty(fill)
    /\ drain' = fill
    /\ \/ Conflict(cbw) /\ Replies(cbw, 0, "phase")
       \/ /\ ~Conflict(cbw) /\ "check" \in Faults
          /\ \E fault \in {"phase", "sense"} : Replies(cbw, 0, fault)
       \/ /\ ~Conflict(cbw)
          /\ \/ cbw.op = "read" /\ DoRead(cbw)
             \/ cbw.op = "write" /\ DoWrite(cbw)
             \/ cbw.op = "verify" /\ DoVerify(cbw)
             \/ cbw.op = "reply" /\ DoInquiry(cbw)
             \/ cbw.op = "select" /\ DoModeSelect(cbw)
             \/ cbw.op = "other" /\ Replies(cbw, 0, "none")
    /\ UNCHANGED <<fill, QUEUES, ignore, exc, ASIDE, UNITS>>

-----------------------------------------------------------------------------
(* The data phase.                                                         *)

\* How much to move next at offset off with left to go: not more than a buffer, not past
\* the end of the file, not past the next page.
Amount(left, off) ==
    LET a == Least({left, BufLen, FileLen - off})
    IN IF off % Page > 0 THEN Least({a, Page - (off % Page)}) ELSE a

\* What vfs_read or vfs_write of n units may achieve, rounded down to a block if it
\* fails.
FileIO(n) == {n} \cup (IF "io" \in Faults THEN {k \in 0 .. n : k % Block = 0} ELSE {})

\* One round of do_read: read the next piece of the file; the last one is left in its
\* buffer for finish_reply.
ReadChunk ==
    /\ pc = "read" /\ Empty(fill)
    /\ LET amount == Amount(io.left, io.off) IN
       \E n \in FileIO(amount) :
          LET data == [k \in 1 .. n |-> io.off + k - 1]
              last == amount = 0 \/ n < amount \/ io.left = n
          IN IF amount > 0 /\ exc # "none"
             THEN pc' = "exc" /\ UNCHANGED <<bh, fill, QUEUES, fsg, io, UNITS>>
             ELSE /\ io' = [io EXCEPT !.off = @ + n, !.left = @ - n]
                  /\ fsg' = [fsg EXCEPT !.residue = @ - n,
                                        !.sense = IF amount = 0 \/ n < amount THEN 1 ELSE @]
                  /\ IF last
                     THEN pc' = "finish" /\ Reply(n, data) /\ UNCHANGED <<fill, QUEUES, UNITS>>
                     ELSE pc' = pc /\ SendData(n, data, 0)
    /\ UNCHANGED <<drain, ignore, exc, ASIDE>>

\* do_write asks the host for the next whole blocks, if there is room for them.
WriteRequest ==
    /\ pc = "write" /\ io.left > 0 /\ CanRequest
    /\ LET room   == Amount(io.uleft, io.uoff)
           amount == room - (room % Block)
       IN IF amount = 0
          THEN /\ io' = [io EXCEPT !.more = 0]
               /\ fsg' = [fsg EXCEPT !.sense = IF room = 0 THEN 1 ELSE @]
               /\ UNCHANGED <<bh, fill, QUEUES>>
          ELSE /\ io' = [io EXCEPT !.uoff = @ + amount, !.uleft = @ - amount,
                                   !.more = IF io.uleft = amount THEN 0 ELSE 1]
               /\ fsg' = [fsg EXCEPT !.left = @ - amount]
               /\ QueueOut(amount, "data")
               /\ fill' = NextBh(fill)
    /\ UNCHANGED <<pc, drain, ignore, exc, ASIDE, UNITS>>

\* Mutant: the data is written where the next request begins.
WriteOffset_Usb == io.uoff

\* Where do_write puts the data it has received.
WriteOffset == io.off

\* Mutant: a short packet is not noticed.
StoppedEarly_Never == FALSE

\* The host sent less than do_write had asked for.
StoppedEarly == bh[drain].act # bh[drain].outlen

\* do_write puts the received data into the file.  A failed transfer, a failed write and
\* a short packet end the command.
WriteChunk ==
    /\ pc = "write" /\ io.left > 0 /\ ~CanRequest /\ Full(drain)
    /\ bh' = Drained /\ drain' = NextBh(drain)
    /\ IF bh[drain].err = 1
       THEN /\ pc' = "finish"
            /\ fsg' = [fsg EXCEPT !.sense = 1]
            /\ UNCHANGED <<io, written>>
       ELSE LET amount == Least({bh[drain].act, FileLen - io.off}) IN
            \E n \in FileIO(amount) :
               /\ written' = written \cup {<<WriteOffset + k - 1, bh[drain].buf[k]>> :
                                              k \in 1 .. n}
               /\ IF exc # "none"
                  THEN pc' = "exc" /\ UNCHANGED <<fsg, io>>
                  ELSE /\ io' = [io EXCEPT !.off = @ + n, !.left = @ - n]
                       /\ fsg' = [fsg EXCEPT
                                   !.residue = @ - n,
                                   !.sense = IF n < amount THEN 1 ELSE @,
                                   !.short = IF n = amount /\ StoppedEarly THEN 1 ELSE @]
                       /\ pc' = IF n < amount \/ StoppedEarly THEN "finish" ELSE pc
    /\ UNCHANGED <<fill, QUEUES, ignore, exc, ASIDE, sent>>

\* do_write is over: everything is written, or it stopped early and the ring is empty.
WriteEnds ==
    /\ Goto("write", "finish")
    /\ io.left = 0 \/ (~CanRequest /\ Empty(drain) /\ io.more = 0)
    /\ UNCHANGED <<bh, fill, drain, QUEUES, ignore, exc, fsg, io, ASIDE, UNITS>>

-----------------------------------------------------------------------------
(* finish_reply.                                                           *)

\* raise_exception(fsg, FSG_STATE_ABORT_BULK_OUT): a pending reset has priority.
AbortBulkOut == exc' = IF exc = "none" THEN "abort" ELSE exc

\* Mutant: only the residue is sent, not what is in the first buffer.
PadLength_Residue == fsg.residue

\* usb_amount_left at the start of pad_with_zeros.
PadLength == bh[fill].inlen + fsg.residue

\* The last buffer goes to the host; if that leaves a residue, it ends in a short packet
\* and a halt, or in padding.
FinishToHost ==
    /\ pc = "finish" /\ cbw.dir = "in"
    /\ IF fsg.residue = 0 \/ can_stall = 1
       THEN /\ SendData(bh[fill].inlen, bh[fill].buf, IF fsg.residue = 0 THEN 0 ELSE 1)
            /\ pc' = IF fsg.residue = 0 THEN "status" ELSE "halt"
            /\ UNCHANGED <<fsg, io>>
       ELSE /\ bh' = [bh EXCEPT ![fill].state = "EMPTY"]
            /\ fsg' = [fsg EXCEPT !.left = PadLength]
            /\ io' = [io EXCEPT !.keep = bh[fill].inlen]
            /\ pc' = "pad"
            /\ UNCHANGED <<fill, QUEUES, UNITS>>
    /\ UNCHANGED <<drain, ignore, exc, ASIDE>>

\* Mutant: what the host still wants to send is left to the next command.
FinishFromHost_NoDiscard ==
    /\ pc = "finish" /\ cbw.dir # "in"
    /\ IF fsg.residue > 0 /\ fsg.short = 1
       THEN pc' = "exc" /\ AbortBulkOut
       ELSE pc' = "status" /\ UNCHANGED exc
    /\ UNCHANGED <<bh, fill, drain, QUEUES, ignore, fsg, io, ASIDE, UNITS>>

\* Nothing more to receive, a host that stopped early, or data to throw away.
FinishFromHost ==
    /\ pc = "finish" /\ cbw.dir # "in"
    /\ IF fsg.residue > 0 /\ fsg.short = 1
       THEN pc' = "exc" /\ AbortBulkOut
       ELSE pc' = (IF fsg.residue = 0 THEN "status" ELSE "throw") /\ UNCHANGED exc
    /\ UNCHANGED <<bh, fill, drain, QUEUES, ignore, fsg, io, ASIDE, UNITS>>

\* halt_bulk_in_endpoint: the controller refuses (-EAGAIN) while transfers are queued.
HaltBulkIn ==
    /\ Goto("halt", "status")
    /\ inq = <<>>
    /\ halted' = halted \cup {"in"}
    /\ UNCHANGED <<bh, fill, drain, outq, inq, ignore, exc, fsg, io, ASIDE, UNITS>>

\* pad_with_zeros: the first buffer keeps what is in it.
PadWithZeros ==
    /\ pc = "pad" /\ fsg.left > 0 /\ Empty(fill)
    /\ LET n == Least({fsg.left, BufLen})
       IN /\ SendData(n, Payload(io.keep, bh[fill].buf)
                         \o [k \in 1 .. n - io.keep |-> Zero], 0)
          /\ fsg' = [fsg EXCEPT !.left = @ - n]
          /\ io' = [io EXCEPT !.keep = 0]
    /\ UNCHANGED <<pc, drain, ignore, exc, ASIDE>>

PadEnds ==
    /\ Goto("pad", "status")
    /\ fsg.left = 0
    /\ UNCHANGED <<bh, fill, drain, QUEUES, ignore, exc, fsg, io, ASIDE, UNITS>>

\* throw_away_data drops a full buffer; a short packet or an error ends everything.
DiscardChunk ==
    /\ pc = "throw" /\ Full(drain)
    /\ bh' = Drained /\ drain' = NextBh(drain)
    /\ IF StoppedEarly \/ bh[drain].err = 1
       THEN pc' = "exc" /\ AbortBulkOut
       ELSE UNCHANGED <<pc, exc>>
    /\ UNCHANGED <<fill, QUEUES, ignore, fsg, io, ASIDE, UNITS>>

\* throw_away_data asks for more.
DiscardRequest ==
    /\ pc = "throw" /\ ~Full(drain) /\ CanDiscard
    /\ LET amount == Least({fsg.left, BufLen})
       IN /\ QueueOut(amount, "data")
          /\ fsg' = [fsg EXCEPT !.left = @ - amount]
    /\ fill' = NextBh(fill)
    /\ UNCHANGED <<pc, drain, ignore, exc, io, ASIDE, UNITS>>

DiscardEnds ==
    /\ Goto("throw", "status")
    /\ Empty(drain) /\ fsg.left = 0
    /\ UNCHANGED <<bh, fill, drain, QUEUES, ignore, exc, fsg, io, ASIDE, UNITS>>

-----------------------------------------------------------------------------
(* The status phase.                                                       *)

\* Mutant: sense data has priority over a phase error.
StatusOf_SenseFirst ==
    IF fsg.sense = 1 THEN "fail" ELSE "pass"

StatusOf ==
    IF fsg.phase_error = 1 THEN "phase" ELSE IF fsg.sense = 1 THEN "fail" ELSE "pass"

ResidueOf == fsg.residue

\* send_status, and the end of the loop of fsg_main_thread.
SendStatus ==
    /\ Goto("status", "get")
    /\ Empty(fill)
    /\ inq' = Append(inq, [b |-> fill, kind |-> "csw", data |-> <<>>, zero |-> 0,
                           csw |-> [tag |-> tag, residue |-> ResidueOf,
                                    status |-> StatusOf]])
    /\ bh' = [bh EXCEPT ![fill].state = "BUSY", ![fill].inlen = CswLen]
    /\ fill' = NextBh(fill)
    /\ UNCHANGED <<drain, outq, halted, ignore, exc, fsg, io, ASIDE, UNITS>>

-----------------------------------------------------------------------------
(* The host, and the completion of transfers (bulk_in_complete,            *)
(* bulk_out_complete).                                                     *)

\* A bulk-out transfer finishes with the units d.
OutDone(d, err) ==
    LET b == Head(outq) IN
    /\ bh' = [bh EXCEPT ![b].state = "FULL", ![b].buf = d, ![b].act = Len(d),
                        ![b].err = err]
    /\ outq' = Tail(outq)
    /\ UNCHANGED <<inq, halted>>

\* A bulk-in transfer finishes.
InDone ==
    /\ bh' = [bh EXCEPT ![Head(inq).b].state = "EMPTY"]
    /\ inq' = Tail(inq)
    /\ UNCHANGED <<outq, halted>>

THREAD == <<pc, fill, drain, ignore, exc, fsg, tag, io>>

\* The host sends a command block wrapper.
HostSendsCbw(c) ==
    /\ host.phase = "cbw" /\ host.tag < MaxCmd
    /\ outq # <<>> /\ "out" \notin halted
    /\ cbw' = c
    /\ host' = [phase |-> IF c.form = "ok" /\ c.dir # "none" THEN "data" ELSE "csw",
                tag |-> host.tag + 1, moved |-> 0]
    /\ OutDone(<<>>, 0)
    /\ sent' = <<>> /\ written' = {}
    /\ UNCHANGED <<THREAD, resets>>

\* The wrapper is lost in a failed transfer, and the host will send it again.
CbwLost ==
    /\ "usb" \in Faults
    /\ host.phase = "cbw" /\ host.tag < MaxCmd
    /\ outq # <<>> /\ "out" \notin halted
    /\ OutDone(<<>>, 1)
    /\ UNCHANGED <<THREAD, HOST, UNITS>>

\* The host sends data: all the device asked for, or less, which ends the data phase
\* with a short packet.
HostSendsData ==
    /\ host.phase = "data" /\ cbw.dir = "out" /\ outq # <<>>
    /\ LET n == Least({bh[Head(outq)].outlen, cbw.size - host.moved}) IN
       \E k \in {n} \cup (IF "short" \in Faults THEN 0 .. n - 1 ELSE {}) :
          /\ OutDone([i \in 1 .. k |-> host.moved + i - 1], 0)
          /\ host' = [host EXCEPT !.moved = @ + k,
                                  !.phase = IF k < n \/ host.moved + k = cbw.size
                                            THEN "csw" ELSE "data"]
    /\ UNCHANGED <<THREAD, cbw, resets, UNITS>>

\* A data transfer fails; the host gives up sending.
DataLost ==
    /\ "usb" \in Faults
    /\ host.phase = "data" /\ cbw.dir = "out" /\ outq # <<>>
    /\ OutDone(<<>>, 1)
    /\ host' = [host EXCEPT !.phase = "csw"]
    /\ UNCHANGED <<THREAD, cbw, resets, UNITS>>

\* The host receives data; a short packet, or all it wanted, ends the data phase.
HostTakesData ==
    /\ host.phase = "data" /\ cbw.dir = "in"
    /\ inq # <<>> /\ "in" \notin halted
    /\ LET t == Head(inq)
           n == host.moved + Len(t.data)
           short == t.zero = 1 \/ t.data = <<>> \/ Len(t.data) % Block # 0
       IN host' = [host EXCEPT !.moved = n,
                               !.phase = IF short \/ n >= cbw.size THEN "csw" ELSE "data"]
    /\ InDone
    /\ UNCHANGED <<THREAD, cbw, resets, UNITS>>

\* The host receives the status wrapper.
HostTakesCsw ==
    /\ host.phase = "csw"
    /\ inq # <<>> /\ "in" \notin halted
    /\ host' = [host EXCEPT !.phase = "cbw"]
    /\ InDone
    /\ UNCHANGED <<THREAD, cbw, resets, UNITS>>

\* The host finds the bulk-in endpoint halted, clears the halt and asks for the status.
HostClearsHalt ==
    /\ host.phase \in {"data", "csw"} /\ "in" \in halted
    /\ halted' = halted \ {"in"}
    /\ host' = [host EXCEPT !.phase = "csw"]
    /\ UNCHANGED <<THREAD, bh, outq, inq, cbw, resets, UNITS>>

\* The host gives up on a command: Bulk-only device reset (or a bus reset).
HostResets ==
    /\ host.phase # "reset" /\ resets < MaxReset
    /\ resets' = resets + 1
    /\ host' = [host EXCEPT !.phase = "reset"]
    /\ exc' = "reset"
    /\ UNCHANGED <<pc, bh, fill, drain, QUEUES, ignore, fsg, tag, io, cbw, UNITS>>

-----------------------------------------------------------------------------

Thread ==
    \/ Interrupted \/ HandleException
    \/ RequestCbw \/ ReceivedCbw \/ DoScsiCommand
    \/ ReadChunk \/ WriteRequest \/ WriteChunk \/ WriteEnds
    \/ FinishToHost \/ FinishFromHost \/ HaltBulkIn
    \/ PadWithZeros \/ PadEnds
    \/ DiscardChunk \/ DiscardRequest \/ DiscardEnds
    \/ SendStatus

\* What a host does to finish the command it has sent.
HostGoesOn == HostSendsData \/ HostTakesData \/ HostTakesCsw \/ HostClearsHalt

Next ==
    \/ Thread \/ HostGoesOn
    \/ \E c \in Cbws : HostSendsCbw(c)
    \/ CbwLost \/ DataLost \/ HostResets

Spec == Init /\ [][Next]_vars

\* The thread is scheduled, and a host that has sent a command goes on with it.
FairSpec == Spec /\ WF_vars(Thread) /\ WF_vars(HostGoesOn)

-----------------------------------------------------------------------------
(* Properties.                                                             *)

BhType == [state : {"EMPTY", "FULL", "BUSY"}, inlen : 0 .. BufLen, outlen : 0 .. BufLen,
           act : 0 .. BufLen, err : {0, 1}, want : {"none", "cbw", "data"}, buf : Seq(Int)]

CswType == [tag : Nat, residue : Nat, status : {"none", "pass", "fail", "phase"}]

InType == [b : Heads, kind : {"data", "csw"}, data : Seq(Int), zero : {0, 1}, csw : CswType]

FsgType == [residue : Nat, left : Nat, phase_error : {0, 1}, short : {0, 1}, sense : {0, 1}]

IoType == [off : 0 .. FileLen, left : Nat, uoff : 0 .. FileLen, uleft : Nat,
           more : {0, 1}, keep : 0 .. BufLen]

HostType == [phase : {"cbw", "data", "csw", "reset"}, tag : 0 .. MaxCmd, moved : Nat]

\* Types: every variable stays in its range; in particular no offset leaves the file, no
\* length exceeds a buffer and no counter becomes negative.
Ranges ==
    /\ pc \in {"get", "cbw", "scsi", "read", "write", "finish", "halt", "pad", "throw",
               "status", "exc"}
    /\ bh \in [Heads -> BhType]
    /\ fill \in Heads /\ drain \in Heads
    /\ outq \in Seq(Heads) /\ inq \in Seq(InType)
    /\ halted \subseteq {"in", "out"} /\ ignore \in {0, 1}
    /\ exc \in {"none", "abort", "reset"}
    /\ fsg \in FsgType /\ io \in IoType
    /\ cbw \in Cbws \cup {NoCbw} /\ host \in HostType
    /\ sent \in Seq(Int) /\ written \subseteq Nat \X Nat
    /\ resets \in 0 .. MaxReset

TypeOK == Ranges /\ tag \in 0 .. MaxCmd

\* Host and device are always in the same phase of the same command: a wrapper is only
\* sent into a buffer that waits for one, data goes where data is expected, and what the
\* host takes for the status is the status (get_next_command, finish_reply, send_status).
InSync ==
    /\ outq # <<>> /\ host.phase = "cbw" => bh[Head(outq)].want = "cbw"
    /\ outq # <<>> /\ host.phase = "data" /\ cbw.dir = "out" => bh[Head(outq)].want = "data"
    /\ inq # <<>> /\ host.phase = "cbw" => FALSE
    /\ inq # <<>> /\ host.phase = "data" => cbw.dir = "in"
    /\ inq # <<>> /\ host.phase = "data" /\ halted = {} => Head(inq).kind = "data"
    /\ inq # <<>> /\ host.phase = "csw" /\ halted = {} => Head(inq).kind = "csw"

Status == {inq[i].csw : i \in {j \in DOMAIN inq : inq[j].kind = "csw"}}

Moved == IF cbw.dir = "in" THEN Cardinality({k \in DOMAIN sent : sent[k] # Zero})
         ELSE Cardinality(written)

\* A command that passes has done all the command block asked for: every block read was
\* sent, every block to write is in the file unless the host itself stopped sending
\* (check_command's phase errors and the sense data of do_read and do_write).
PassMeansDone ==
    \A s \in Status : s.status = "pass" /\ host.phase # "reset" =>
       /\ cbw.op = "read" => Len(sent) >= SizeFromCmnd(cbw)
       /\ cbw.op = "write" => Cardinality(written) = Least({SizeFromCmnd(cbw), host.moved})

\* Data arrives in order and at its place: the k-th unit sent is the k-th unit of the file
\* range (or padding behind it), the k-th unit received is written at the k-th offset,
\* whichever buffer head it went through.
DataInPlace ==
    /\ cbw.op = "read" =>
          \A k \in DOMAIN sent : sent[k] \in {cbw.lba * Block + k - 1, Zero}
    /\ \A w \in written : w[1] = cbw.lba * Block + w[2]

\* The refinement mapping: where the host is in the protocol.
Phase ==
    IF host.phase = "reset" THEN "reset"
    ELSE IF host.phase = "cbw" THEN "ready"
    ELSE IF cbw.form # "ok" THEN "stuck"
    ELSE IF Status # {} THEN "status" ELSE "busy"

Active == Phase \in {"busy", "status"}

BO == INSTANCE BulkOnly WITH
         Sizes <- {c.size : c \in Cbws},
         phase <- Phase,
         tag   <- host.tag,
         size  <- IF Active THEN cbw.size ELSE 0,
         moved <- IF Active THEN Moved ELSE 0,
         csw   <- IF Phase = "status" THEN CHOOSE s \in Status : TRUE ELSE NoCsw

\* The pipeline implements a Bulk-only device: one status per command, with its tag, an
\* exact residue, after its data, and never more data than announced.
ImplementsBulkOnly == BO!Spec

\* Every command the host sends is answered with a status, unless the host resets the
\* device.
CommandAnswered ==
    host.phase \in {"data", "csw"} /\ cbw.form = "ok" ~> host.phase \in {"cbw", "reset"}

=============================================================================
