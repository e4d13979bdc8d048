------------------------ MODULE FsgException_proofs ------------------------
(***************************************************************************)
(* Proofs about FsgException, for any set of buffer heads and any bounds.  *)
(***************************************************************************)
EXTENDS FsgException, TLAPS

\* The definitions that every step about the thread needs.
USE DEF DATA_PHASE, STATUS_PHASE, IDLE, ABORT_BULK_OUT, RESET, INTERFACE_CHANGE,
        CONFIG_CHANGE, DISCONNECT, EXIT, TERMINATED, FsgStates, CONFIG_VALUE, Unknown

\* raise_exception touches the exception and the signals only.
LEMMA RaiseType ==
    ASSUME TypeOK, NEW new \in FsgStates, NEW t \in Tags, raise_exception(new, t)
    PROVE  /\ state' \in FsgStates /\ exception_req_tag' \in Tags
           /\ signals' \subseteq {"USR1", "KILL"}
BY ZenonT(60) DEF TypeOK, raise_exception

\* The completion handlers keep the buffer heads well typed.
LEMMA CompleteType ==
    ASSUME TypeOK, NEW S \in SUBSET Requests, complete_requests(S)
    PROVE  /\ bstate' \in [Bufs -> {"EMPTY", "FULL", "BUSY"}]
           /\ busy' \subseteq Requests /\ queued' \subseteq Requests
           /\ cancelled' \subseteq Requests
           /\ thread_wakeup_needed' \in {0, 1}
BY DEF TypeOK, complete_requests, completed

\* A request is one of the two of a buffer head.
LEMMA RequestParts ==
    ASSUME NEW r \in Requests
    PROVE  /\ r[1] \in Bufs /\ r[2] \in {"in", "out"}
           /\ r = <<r[1], r[2]>>
BY DEF Requests

\* Both halves of start_transfer keep the buffer heads well typed.
LEMMA TransferType ==
    ASSUME TypeOK, NEW from, NEW to,
           \/ \E r \in Requests : StartTransfer(from, to, r)
           \/ QueueRequest(from, to) /\ cur \in Requests
    PROVE  /\ bstate' \in [Bufs -> {"EMPTY", "FULL", "BUSY"}]
           /\ busy' \subseteq Requests /\ queued' \subseteq Requests
           /\ cancelled' \subseteq Requests
           /\ cur' \in Requests \cup {NoReq} /\ refused' \subseteq Bufs
<1>1. ASSUME NEW r \in Requests, StartTransfer(from, to, r)
      PROVE  bstate' \in [Bufs -> {"EMPTY", "FULL", "BUSY"}]
  BY <1>1 DEF TypeOK, StartTransfer
<1>2. ASSUME NEW r \in Requests, StartTransfer(from, to, r)
      PROVE  /\ busy' \subseteq Requests /\ queued' \subseteq Requests
             /\ cancelled' \subseteq Requests /\ cur' \in Requests \cup {NoReq}
             /\ refused' \subseteq Bufs
  BY <1>2 DEF TypeOK, StartTransfer
<1>3. ASSUME QueueRequest(from, to)
      PROVE  bstate' \in [Bufs -> {"EMPTY", "FULL", "BUSY"}]
  BY <1>3 DEF TypeOK, QueueRequest
<1>4. ASSUME QueueRequest(from, to), cur \in Requests
      PROVE  /\ busy' \subseteq Requests /\ queued' \subseteq Requests
             /\ cancelled' \subseteq Requests /\ cur' \in Requests \cup {NoReq}
             /\ refused' \subseteq Bufs
  BY <1>4, RequestParts DEF TypeOK, QueueRequest
<1> QED
  BY <1>1, <1>2, <1>3, <1>4

\* Every variable keeps its type: FsgException is well typed.
LEMMA TypeStep == IndInv /\ [Next]_vars => TypeOK'
<1> SUFFICES ASSUME IndInv, [Next]_vars PROVE TypeOK'
  OBVIOUS
<1> USE DEF IndInv, TypeOK, shared, device, buffers, host, request, local, Goto
<1>1. ASSUME NEW r \in Requests, Complete(r) PROVE TypeOK'
  BY <1>1, CompleteType DEF Complete
<1>2. CASE SetupImmediate
  BY <1>2, BoundsAssumption DEF SetupImmediate, Tags
<1>3. ASSUME NEW v \in {0, CONFIG_VALUE}, SetConfiguration(v) PROVE TypeOK'
  <2>1. ep0_req_tag + 1 \in Tags
    BY <1>3, BoundsAssumption DEF SetConfiguration, Tags
  <2> QED
    BY <1>3, <2>1, RaiseType DEF SetConfiguration
<1>4. ASSUME NEW new \in {RESET, INTERFACE_CHANGE}, SetupForwarded(new) PROVE TypeOK'
  <2>1. ep0_req_tag + 1 \in Tags
    BY <1>4, BoundsAssumption DEF SetupForwarded, Tags
  <2> QED
    BY <1>4, <2>1, RaiseType DEF SetupForwarded
<1>5. CASE BusReset
  <2>1. resets + 1 \in 0 .. MaxReset
    BY <1>5, BoundsAssumption DEF BusReset
  <2> QED
    BY <1>5, <2>1, RaiseType, CompleteType DEF BusReset
<1>6. CASE Kill \/ Unbind
  <2>1. exits + 1 \in 0 .. MaxExit
    BY <1>6, BoundsAssumption DEF Kill, Unbind
  <2>2. CASE Kill
    BY <2>1, <2>2 DEF Kill
  <2>3. CASE Unbind
    BY <2>1, <2>3, RaiseType DEF Unbind
  <2> QED
    BY <1>6, <2>2, <2>3
<1>7. CASE MainLoop
  BY <1>7 DEF MainLoop, Pcs, Handler, Command
<1>8. CASE LoopSleep
  BY <1>8 DEF LoopSleep, SleepReturns, SleepEnds, Pcs
<1>9. CASE CmdSleep
  BY <1>9 DEF CmdSleep, SleepReturns, SleepEnds, Pcs, Command
<1>10. CASE IdleSleep
  BY <1>10 DEF IdleSleep, SleepReturns, SleepEnds, Pcs, Handler
<1>11. ASSUME NEW r \in Requests, CmdStart(r) PROVE TypeOK'
  <2>1. StartTransfer("cmd", "queue", r)
    BY <1>11 DEF CmdStart
  <2>2. /\ bstate' \in [Bufs -> {"EMPTY", "FULL", "BUSY"}]
        /\ busy' \subseteq Requests /\ queued' \subseteq Requests
        /\ cancelled' \subseteq Requests
        /\ cur' \in Requests \cup {NoReq} /\ refused' \subseteq Bufs
    BY <2>1, TransferType
  <2> QED
    BY <2>1, <2>2 DEF StartTransfer, Pcs, Command
<1>12. ASSUME NEW r \in Requests, AbortStatus(r) PROVE TypeOK'
  <2>1. StartTransfer("ab_status", "ab_queue", r)
    BY <1>12 DEF AbortStatus
  <2>2. /\ bstate' \in [Bufs -> {"EMPTY", "FULL", "BUSY"}]
        /\ busy' \subseteq Requests /\ queued' \subseteq Requests
        /\ cancelled' \subseteq Requests
        /\ cur' \in Requests \cup {NoReq} /\ refused' \subseteq Bufs
    BY <2>1, TransferType
  <2> QED
    BY <2>1, <2>2 DEF StartTransfer, Pcs, Handler
<1>13. CASE CmdQueue
  <2>1. cur \in Requests
    BY <1>13 DEF CmdQueue, QueueRequest, BusyQueued, InTransfer
  <2> QED
    BY <1>13, <2>1, TransferType DEF CmdQueue, QueueRequest, Pcs, Command
<1>14. CASE AbortQueue
  <2>1. cur \in Requests
    BY <1>14 DEF AbortQueue, QueueRequest, BusyQueued, InTransfer
  <2> QED
    BY <1>14, <2>1, TransferType DEF AbortQueue, QueueRequest, Pcs, Handler
<1>15. ASSUME NEW b \in Bufs, CmdFill(b) \/ CmdDrain(b) PROVE TypeOK'
  <2>1. CASE CmdFill(b)
    BY <2>1 DEF CmdFill
  <2>2. CASE CmdDrain(b)
    BY <2>2 DEF CmdDrain
  <2> QED
    BY <1>15, <2>1, <2>2
<1>16. ASSUME NEW b \in Bufs, CmdWait(b) PROVE TypeOK'
  BY <1>16 DEF CmdWait, Pcs, Command
<1>17. ASSUME NEW s \in {DATA_PHASE, STATUS_PHASE}, CmdPhase(s) PROVE TypeOK'
  BY <1>17 DEF CmdPhase
<1>18. CASE CmdAbort
  BY <1>18, RaiseType DEF CmdAbort, Pcs
<1>19. CASE CmdReturns \/ CmdEnd
  <2>1. CASE CmdReturns
    BY <2>1 DEF CmdReturns, Pcs
  <2>2. CASE CmdEnd
    BY <2>2 DEF CmdEnd, Pcs
  <2> QED
    BY <1>19, <2>1, <2>2
<1>20. CASE DequeueSignals
  BY <1>20 DEF DequeueSignals, Pcs, Handler
<1>21. CASE CancelTransfers
  BY <1>21 DEF CancelTransfers, Pcs, Handler
<1>22. CASE TestIdle
  BY <1>22 DEF TestIdle, Pcs, Handler
<1>23. CASE ResetState
  BY <1>23 DEF ResetState, ActionFor, Pcs, Handler
<1>24. CASE AbortDone
  BY <1>24 DEF AbortDone, Pcs
<1>25. CASE SyncFiles
  BY <1>25 DEF SyncFiles, Pcs, Handler
<1>26. ASSUME NEW rc \in {0, -1}, ChangeInterface(rc) PROVE TypeOK'
  BY <1>26 DEF ChangeInterface, do_set_interface, Pcs, Handler
<1>27. ASSUME NEW rc \in {0, -1}, ConfigInterface(rc) PROVE TypeOK'
  BY <1>27 DEF ConfigInterface, do_set_interface, Pcs, Handler
<1>28. CASE ConfigDown
  BY <1>28 DEF ConfigDown, do_set_interface, Pcs, Handler
<1>29. CASE ConfigUp
  BY <1>29 DEF ConfigUp, Pcs, Handler
<1>30. CASE Terminate
  BY <1>30 DEF Terminate, Pcs
<1>31. CASE CompareTags
  BY <1>31 DEF CompareTags, Pcs, Handler
<1>32. CASE AnswerEp0
  BY <1>32 DEF AnswerEp0, Pcs
<1>33. CASE ThreadExit
  BY <1>33 DEF ThreadExit, Pcs
<1>34. CASE UNCHANGED vars
  BY <1>34 DEF vars
<1> QED
  BY <1>1, <1>2, <1>3, <1>4, <1>5, <1>6, <1>7, <1>8, <1>9, <1>10, <1>11, <1>12, <1>13, <1>14, <1>15, <1>16, <1>17, <1>18, <1>19, <1>20, <1>21, <1>22, <1>23, <1>24, <1>25, <1>26, <1>27, <1>28, <1>29, <1>30, <1>31, <1>32, <1>33, <1>34
  DEF Next, Thread, Environment, DoCommand, HandleException, SetInterface, BulkReset

\* The requests of a buffer head that is not BUSY are not busy: start_transfer's guard
\* keeps it from starting a request twice.
LEMMA NotBusy ==
    ASSUME BufferOwnership, NEW r \in Requests, bstate[r[1]] # "BUSY"
    PROVE  r \notin busy
<1>1. r[1] \in Bufs /\ r[2] \in {"in", "out"} /\ r = <<r[1], r[2]>>
  BY RequestParts
<1>2. \A d \in {"in", "out"} : <<r[1], d>> \notin busy
  BY <1>1 DEF BufferOwnership
<1> QED
  BY <1>1, <1>2

\* The first half of start_transfer takes a buffer head from the thread.
LEMMA StartedOwnership ==
    ASSUME TypeOK, BufferOwnership, NEW from, NEW to, NEW r \in Requests, StartTransfer(from, to, r)
    PROVE  BufferOwnership'
<1>1. r[1] \in Bufs /\ r[2] \in {"in", "out"} /\ r = <<r[1], r[2]>>
  BY RequestParts
<1> SUFFICES ASSUME NEW b \in Bufs
    PROVE  /\ bstate'[b] = "BUSY" <=> \E d \in {"in", "out"} : <<b, d>> \in busy'
           /\ ~({<<b, "in">>, <<b, "out">>} \subseteq busy')
  BY DEF BufferOwnership
<1>2. CASE b = r[1]
  <2>1. bstate'[b] = "BUSY"
    BY <1>1, <1>2 DEF TypeOK, StartTransfer
  <2>2. <<b, "in">> \notin busy /\ <<b, "out">> \notin busy
    BY <1>1, <1>2 DEF BufferOwnership, StartTransfer
  <2>3. r \in busy' /\ r = <<b, r[2]>>
    BY <1>1, <1>2 DEF StartTransfer
  <2>4. <<b, "in">> # <<b, "out">>
    OBVIOUS
  <2>5. busy' = busy \cup {r}
    BY DEF StartTransfer
  <2>6. ~({<<b, "in">>, <<b, "out">>} \subseteq busy')
    BY <2>2, <2>4, <2>5
  <2> QED
    BY <1>1, <2>1, <2>3, <2>6
<1>3. CASE b # r[1]
  <2>1. bstate'[b] = bstate[b]
    BY <1>1, <1>3 DEF TypeOK, StartTransfer
  <2>2. \A d : <<b, d>> # r
    BY <1>1, <1>3
  <2>3. \A d : <<b, d>> \in busy' <=> <<b, d>> \in busy
    BY <2>2 DEF StartTransfer
  <2> QED
    BY <2>1, <2>3 DEF BufferOwnership
<1> QED
  BY <1>2, <1>3

\* A failed usb_ep_queue gives the buffer head back to the thread.
LEMMA QueuedOwnership ==
    ASSUME TypeOK, BufferOwnership, BusyQueued, NEW from, NEW to, QueueRequest(from, to),
           cur \in busy
    PROVE  BufferOwnership'
<1>1. cur[1] \in Bufs /\ cur[2] \in {"in", "out"} /\ cur = <<cur[1], cur[2]>>
  BY RequestParts DEF TypeOK
<1>2. CASE busy' = busy /\ bstate' = bstate
  BY <1>2 DEF BufferOwnership
<1>3. CASE busy' = busy \ {cur} /\ bstate' = [bstate EXCEPT ![cur[1]] = "EMPTY"]
  <2> SUFFICES ASSUME NEW b \in Bufs
      PROVE  /\ bstate'[b] = "BUSY" <=> \E d \in {"in", "out"} : <<b, d>> \in busy'
             /\ ~({<<b, "in">>, <<b, "out">>} \subseteq busy')
    BY DEF BufferOwnership
  <2>1. ~({<<b, "in">>, <<b, "out">>} \subseteq busy')
    BY <1>3 DEF BufferOwnership
  <2>2. CASE b = cur[1]
    <3>1. bstate'[b] = "EMPTY"
      BY <1>1, <1>3, <2>2 DEF TypeOK
    <3>2. \A d \in {"in", "out"} : <<b, d>> \notin busy'
      BY <1>1, <1>3, <2>2 DEF BufferOwnership
    <3> QED
      BY <2>1, <3>1, <3>2
  <2>3. CASE b # cur[1]
    <3>1. bstate'[b] = bstate[b]
      BY <1>1, <1>3, <2>3 DEF TypeOK
    <3>2. \A d : <<b, d>> # cur
      BY <1>1, <2>3
    <3>3. \A d : <<b, d>> \in busy' <=> <<b, d>> \in busy
      BY <1>3, <3>2
    <3> QED
      BY <2>1, <3>1, <3>3 DEF BufferOwnership
  <2> QED
    BY <2>2, <2>3
<1> QED
  BY <1>2, <1>3 DEF QueueRequest

\* The completion handlers give buffer heads back to the thread.
LEMMA CompletedOwnership ==
    ASSUME TypeOK, BufferOwnership, NEW S \in SUBSET busy, complete_requests(S)
    PROVE  BufferOwnership'
<1> SUFFICES ASSUME NEW b \in Bufs
    PROVE  /\ bstate'[b] = "BUSY" <=> \E d \in {"in", "out"} : <<b, d>> \in busy'
           /\ ~({<<b, "in">>, <<b, "out">>} \subseteq busy')
  BY DEF BufferOwnership
<1>1. ~({<<b, "in">>, <<b, "out">>} \subseteq busy')
  BY DEF BufferOwnership, complete_requests
<1>2. CASE <<b, "out">> \in S \/ <<b, "in">> \in S
  <2>1. bstate'[b] \in {"EMPTY", "FULL"}
    BY <1>2 DEF complete_requests, completed
  <2>2. \A d \in {"in", "out"} : <<b, d>> \notin busy'
    BY <1>2 DEF BufferOwnership, complete_requests
  <2> QED
    BY <1>1, <2>1, <2>2
<1>3. CASE ~(<<b, "out">> \in S \/ <<b, "in">> \in S)
  <2>1. bstate'[b] = bstate[b]
    BY <1>3 DEF complete_requests, completed
  <2>2. \A d \in {"in", "out"} : <<b, d>> \in busy' <=> <<b, d>> \in busy
    BY <1>3 DEF complete_requests
  <2> QED
    BY <1>1, <2>1, <2>2 DEF BufferOwnership
<1> QED
  BY <1>2, <1>3
\* A busy request stays on a queue, or with start_transfer, until it completes.
LEMMA BusyQueuedStep == IndInv /\ [Next]_vars => BusyQueued'
<1> SUFFICES ASSUME IndInv, [Next]_vars PROVE BusyQueued'
  OBVIOUS
<1> USE DEF IndInv, shared, device, buffers, host, request, local, Goto, BusyQueued,
        InTransfer
<1>1. ASSUME NEW r \in Requests, Complete(r) PROVE BusyQueued'
  BY <1>1 DEF Complete, complete_requests
<1>2. CASE SetupImmediate \/ Kill \/ Unbind
  BY <1>2 DEF SetupImmediate, Kill, Unbind, raise_exception
<1>3. ASSUME NEW v \in {0, CONFIG_VALUE}, SetConfiguration(v) PROVE BusyQueued'
  BY <1>3 DEF SetConfiguration, raise_exception
<1>4. CASE SetInterface \/ BulkReset
  BY <1>4 DEF SetInterface, SetupForwarded, raise_exception, BulkReset
<1>5. CASE BusReset
  BY <1>5 DEF BusReset, complete_requests, raise_exception
<1>6. CASE MainLoop
  BY <1>6 DEF MainLoop
<1>7. CASE LoopSleep \/ CmdSleep \/ IdleSleep
  BY <1>7 DEF LoopSleep, SleepReturns, SleepEnds, CmdSleep, IdleSleep
<1>8. ASSUME NEW r \in Requests, CmdStart(r) PROVE BusyQueued'
  BY <1>8, NotBusy DEF CmdStart, StartTransfer
<1>9. ASSUME NEW r \in Requests, AbortStatus(r) PROVE BusyQueued'
  BY <1>9, NotBusy DEF AbortStatus, StartTransfer
<1>10. CASE CmdQueue
  BY <1>10 DEF CmdQueue, QueueRequest
<1>11. CASE AbortQueue
  BY <1>11 DEF AbortQueue, QueueRequest
<1>12. ASSUME NEW b \in Bufs, CmdFill(b) \/ CmdDrain(b) \/ CmdWait(b) PROVE BusyQueued'
  BY <1>12 DEF CmdFill, CmdDrain, CmdWait
<1>13. ASSUME NEW s \in {DATA_PHASE, STATUS_PHASE}, CmdPhase(s) PROVE BusyQueued'
  BY <1>13 DEF CmdPhase
<1>14. CASE CmdAbort \/ CmdReturns \/ CmdEnd
  BY <1>14 DEF CmdAbort, CmdReturns, raise_exception, CmdEnd
<1>15. CASE DequeueSignals
  BY <1>15 DEF DequeueSignals
<1>16. CASE CancelTransfers \/ TestIdle
  BY <1>16 DEF CancelTransfers, TestIdle
<1>17. CASE ResetState
  BY <1>17 DEF ResetState, ActionFor
<1>18. CASE AbortDone \/ Terminate
  BY <1>18 DEF AbortDone, Terminate
<1>19. CASE SyncFiles \/ ThreadExit
  BY <1>19 DEF SyncFiles, ThreadExit
<1>20. ASSUME NEW rc \in {0, -1}, ChangeInterface(rc) \/ ConfigInterface(rc) PROVE BusyQueued'
  BY <1>20 DEF ChangeInterface, do_set_interface, ConfigInterface
<1>21. CASE ConfigDown \/ ConfigUp
  BY <1>21 DEF ConfigDown, do_set_interface, ConfigUp
<1>22. CASE CompareTags \/ AnswerEp0
  BY <1>22 DEF CompareTags, AnswerEp0
<1>23. CASE UNCHANGED vars
  BY <1>23 DEF vars
<1> QED
  BY <1>1, <1>2, <1>3, <1>4, <1>5, <1>6, <1>7, <1>8, <1>9, <1>10, <1>11, <1>12,
     <1>13, <1>14, <1>15, <1>16, <1>17, <1>18, <1>19, <1>20, <1>21, <1>22, <1>23
  DEF Next, Thread, Environment, DoCommand, HandleException

\* The interface stays up, and its requests allocated, while they are used.
LEMMA UpWhileUsedStep == IndInv /\ [Next]_vars => UpWhileUsed'
<1> SUFFICES ASSUME IndInv, [Next]_vars PROVE UpWhileUsed'
  OBVIOUS
<1> USE DEF IndInv, shared, device, buffers, host, request, local, Goto, UpWhileUsed,
        BusyQueued, IdleBelow, InTransfer, Command
<1>1. ASSUME NEW r \in Requests, Complete(r) PROVE UpWhileUsed'
  BY <1>1 DEF Complete, complete_requests
<1>2. CASE SetupImmediate \/ Kill \/ Unbind
  BY <1>2 DEF SetupImmediate, Kill, Unbind, raise_exception
<1>3. ASSUME NEW v \in {0, CONFIG_VALUE}, SetConfiguration(v) PROVE UpWhileUsed'
  BY <1>3 DEF SetConfiguration, raise_exception
<1>4. CASE SetInterface \/ BulkReset
  BY <1>4 DEF SetInterface, SetupForwarded, raise_exception, BulkReset
<1>5. CASE BusReset
  BY <1>5 DEF BusReset, complete_requests, raise_exception
<1>6. CASE MainLoop
  BY <1>6 DEF MainLoop, TypeOK, exception_in_progress
<1>7. CASE LoopSleep \/ CmdSleep \/ IdleSleep
  BY <1>7 DEF LoopSleep, SleepReturns, SleepEnds, CmdSleep, IdleSleep
<1>8. ASSUME NEW r \in Requests, CmdStart(r) PROVE UpWhileUsed'
  BY <1>8 DEF CmdStart, StartTransfer
<1>9. ASSUME NEW r \in Requests, AbortStatus(r) PROVE UpWhileUsed'
  BY <1>9 DEF AbortStatus, StartTransfer
<1>10. CASE CmdQueue
  BY <1>10 DEF CmdQueue, QueueRequest
<1>11. CASE AbortQueue
  BY <1>11 DEF AbortQueue, QueueRequest
<1>12. ASSUME NEW b \in Bufs, CmdFill(b) \/ CmdDrain(b) \/ CmdWait(b) PROVE UpWhileUsed'
  BY <1>12 DEF CmdFill, CmdDrain, CmdWait
<1>13. ASSUME NEW s \in {DATA_PHASE, STATUS_PHASE}, CmdPhase(s) PROVE UpWhileUsed'
  BY <1>13 DEF CmdPhase
<1>14. CASE CmdAbort \/ CmdReturns \/ CmdEnd
  BY <1>14 DEF CmdAbort, CmdReturns, raise_exception, CmdEnd
<1>15. CASE DequeueSignals
  BY <1>15 DEF DequeueSignals
<1>16. CASE CancelTransfers \/ TestIdle
  BY <1>16 DEF CancelTransfers, TestIdle
<1>17. CASE ResetState
  BY <1>17 DEF ResetState, ActionFor
<1>18. CASE AbortDone \/ Terminate
  BY <1>18 DEF AbortDone, Terminate
<1>19. CASE SyncFiles \/ ThreadExit
  BY <1>19 DEF SyncFiles, ThreadExit
<1>20. ASSUME NEW rc \in {0, -1}, ChangeInterface(rc) \/ ConfigInterface(rc) PROVE UpWhileUsed'
  BY <1>20 DEF ChangeInterface, do_set_interface, ConfigInterface
<1>21. CASE ConfigDown \/ ConfigUp
  BY <1>21 DEF ConfigDown, do_set_interface, ConfigUp
<1>22. CASE CompareTags \/ AnswerEp0
  BY <1>22 DEF CompareTags, AnswerEp0
<1>23. CASE UNCHANGED vars
  BY <1>23 DEF vars
<1> QED
  BY <1>1, <1>2, <1>3, <1>4, <1>5, <1>6, <1>7, <1>8, <1>9, <1>10, <1>11, <1>12,
     <1>13, <1>14, <1>15, <1>16, <1>17, <1>18, <1>19, <1>20, <1>21, <1>22, <1>23
  DEF Next, Thread, Environment, DoCommand, HandleException

\* handle_exception starts no transfer between the idle wait and its action.
LEMMA IdleBelowStep == IndInv /\ [Next]_vars => IdleBelow'
<1> SUFFICES ASSUME IndInv, [Next]_vars PROVE IdleBelow'
  OBVIOUS
<1> USE DEF IndInv, shared, device, buffers, host, request, local, Goto, IdleBelow,
        BusyQueued, InTransfer
<1>1. ASSUME NEW r \in Requests, Complete(r) PROVE IdleBelow'
  BY <1>1 DEF Complete, complete_requests
<1>2. CASE SetupImmediate \/ Kill \/ Unbind
  BY <1>2 DEF SetupImmediate, Kill, Unbind, raise_exception
<1>3. ASSUME NEW v \in {0, CONFIG_VALUE}, SetConfiguration(v) PROVE IdleBelow'
  BY <1>3 DEF SetConfiguration, raise_exception
<1>4. CASE SetInterface \/ BulkReset
  BY <1>4 DEF SetInterface, SetupForwarded, raise_exception, BulkReset
<1>5. CASE BusReset
  BY <1>5 DEF BusReset, complete_requests, raise_exception, completed
<1>6. CASE MainLoop
  BY <1>6 DEF MainLoop
<1>7. CASE LoopSleep \/ CmdSleep \/ IdleSleep
  BY <1>7 DEF LoopSleep, SleepReturns, SleepEnds, CmdSleep, IdleSleep
<1>8. ASSUME NEW r \in Requests, CmdStart(r) PROVE IdleBelow'
  BY <1>8 DEF CmdStart, StartTransfer
<1>9. ASSUME NEW r \in Requests, AbortStatus(r) PROVE IdleBelow'
  BY <1>9 DEF AbortStatus, StartTransfer
<1>10. CASE CmdQueue
  BY <1>10 DEF CmdQueue, QueueRequest
<1>11. CASE AbortQueue
  BY <1>11 DEF AbortQueue, QueueRequest
<1>12. ASSUME NEW b \in Bufs, CmdFill(b) \/ CmdDrain(b) \/ CmdWait(b) PROVE IdleBelow'
  BY <1>12 DEF CmdFill, CmdDrain, CmdWait
<1>13. ASSUME NEW s \in {DATA_PHASE, STATUS_PHASE}, CmdPhase(s) PROVE IdleBelow'
  BY <1>13 DEF CmdPhase
<1>14. CASE CmdAbort \/ CmdReturns \/ CmdEnd
  BY <1>14 DEF CmdAbort, CmdReturns, raise_exception, CmdEnd
<1>15. CASE DequeueSignals
  BY <1>15 DEF DequeueSignals
<1>16. CASE CancelTransfers \/ TestIdle
  BY <1>16 DEF CancelTransfers, TestIdle
<1>17. CASE ResetState
  BY <1>17 DEF ResetState, ActionFor
<1>18. CASE AbortDone \/ Terminate
  BY <1>18 DEF AbortDone, Terminate
<1>19. CASE SyncFiles \/ ThreadExit
  BY <1>19 DEF SyncFiles, ThreadExit
<1>20. ASSUME NEW rc \in {0, -1}, ChangeInterface(rc) \/ ConfigInterface(rc) PROVE IdleBelow'
  BY <1>20 DEF ChangeInterface, do_set_interface, ConfigInterface
<1>21. CASE ConfigDown \/ ConfigUp
  BY <1>21 DEF ConfigDown, do_set_interface, ConfigUp
<1>22. CASE CompareTags \/ AnswerEp0
  BY <1>22 DEF CompareTags, AnswerEp0
<1>23. CASE UNCHANGED vars
  BY <1>23 DEF vars
<1> QED
  BY <1>1, <1>2, <1>3, <1>4, <1>5, <1>6, <1>7, <1>8, <1>9, <1>10, <1>11, <1>12,
     <1>13, <1>14, <1>15, <1>16, <1>17, <1>18, <1>19, <1>20, <1>21, <1>22, <1>23
  DEF Next, Thread, Environment, DoCommand, HandleException

\* Nothing a sleeping thread waits for happens without a wakeup or a signal.
LEMMA SleepersWokenStep == IndInv /\ [Next]_vars => SleepersWoken'
<1> SUFFICES ASSUME IndInv, [Next]_vars PROVE SleepersWoken'
  OBVIOUS
<1> USE DEF IndInv, shared, device, buffers, host, request, local, Goto, SleepersWoken,
        Command, exception_in_progress
<1>1. ASSUME NEW r \in Requests, Complete(r) PROVE SleepersWoken'
  BY <1>1 DEF Complete, complete_requests
<1>2. CASE SetupImmediate \/ Kill \/ Unbind
  BY <1>2 DEF SetupImmediate, Kill, Unbind, raise_exception
<1>3. ASSUME NEW v \in {0, CONFIG_VALUE}, SetConfiguration(v) PROVE SleepersWoken'
  BY <1>3 DEF SetConfiguration, raise_exception
<1>4. CASE SetInterface \/ BulkReset
  BY <1>4 DEF SetInterface, SetupForwarded, raise_exception, BulkReset
<1>5. CASE BusReset
  BY <1>5 DEF BusReset, complete_requests, raise_exception, completed
<1>6. CASE MainLoop
  BY <1>6 DEF MainLoop
<1>7. CASE LoopSleep \/ CmdSleep \/ IdleSleep
  BY <1>7 DEF LoopSleep, SleepReturns, SleepEnds, CmdSleep, IdleSleep
<1>8. ASSUME NEW r \in Requests, CmdStart(r) PROVE SleepersWoken'
  BY <1>8 DEF CmdStart, StartTransfer
<1>9. ASSUME NEW r \in Requests, AbortStatus(r) PROVE SleepersWoken'
  BY <1>9 DEF AbortStatus, StartTransfer
<1>10. CASE CmdQueue
  BY <1>10 DEF CmdQueue, QueueRequest
<1>11. CASE AbortQueue
  BY <1>11 DEF AbortQueue, QueueRequest
<1>12. ASSUME NEW b \in Bufs, CmdFill(b) \/ CmdDrain(b) \/ CmdWait(b) PROVE SleepersWoken'
  BY <1>12 DEF CmdFill, CmdDrain, CmdWait
<1>13. ASSUME NEW s \in {DATA_PHASE, STATUS_PHASE}, CmdPhase(s) PROVE SleepersWoken'
  BY <1>13 DEF CmdPhase
<1>14. CASE CmdAbort \/ CmdReturns \/ CmdEnd
  BY <1>14 DEF CmdAbort, CmdReturns, raise_exception, CmdEnd
<1>15. CASE DequeueSignals
  BY <1>15 DEF DequeueSignals
<1>16. CASE CancelTransfers \/ TestIdle
  BY <1>16 DEF CancelTransfers, TestIdle
<1>17. CASE ResetState
  BY <1>17 DEF ResetState, ActionFor
<1>18. CASE AbortDone \/ Terminate
  BY <1>18 DEF AbortDone, Terminate
<1>19. CASE SyncFiles \/ ThreadExit
  BY <1>19 DEF SyncFiles, ThreadExit
<1>20. ASSUME NEW rc \in {0, -1}, ChangeInterface(rc) \/ ConfigInterface(rc) PROVE SleepersWoken'
  BY <1>20 DEF ChangeInterface, do_set_interface, ConfigInterface
<1>21. CASE ConfigDown \/ ConfigUp
  BY <1>21 DEF ConfigDown, do_set_interface, ConfigUp
<1>22. CASE CompareTags \/ AnswerEp0
  BY <1>22 DEF CompareTags, AnswerEp0
<1>23. CASE UNCHANGED vars
  BY <1>23 DEF vars
<1> QED
  BY <1>1, <1>2, <1>3, <1>4, <1>5, <1>6, <1>7, <1>8, <1>9, <1>10, <1>11, <1>12,
     <1>13, <1>14, <1>15, <1>16, <1>17, <1>18, <1>19, <1>20, <1>21, <1>22, <1>23
  DEF Next, Thread, Environment, DoCommand, HandleException

\* No step loses a forwarded request that is not outranked.
LEMMA ForwardedKeptStep == IndInv /\ [Next]_vars => ForwardedKept'
<1> SUFFICES ASSUME IndInv, [Next]_vars PROVE ForwardedKept'
  OBVIOUS
<1> USE DEF IndInv, shared, device, buffers, host, request, local, Goto, ForwardedKept,
        TypeOK
<1>1. ASSUME NEW r \in Requests, Complete(r) PROVE ForwardedKept'
  BY <1>1 DEF Complete, complete_requests
<1>2. CASE SetupImmediate \/ Kill \/ Unbind
  BY <1>2 DEF SetupImmediate, Kill, Unbind, raise_exception
<1>3. ASSUME NEW v \in {0, CONFIG_VALUE}, SetConfiguration(v) PROVE ForwardedKept'
  BY <1>3 DEF SetConfiguration, raise_exception
<1>4. CASE SetInterface \/ BulkReset
  BY <1>4 DEF SetInterface, SetupForwarded, raise_exception, BulkReset
<1>5. CASE BusReset
  BY <1>5 DEF BusReset, complete_requests, raise_exception
<1>6. CASE MainLoop
  BY <1>6 DEF MainLoop
<1>7. CASE LoopSleep \/ CmdSleep \/ IdleSleep
  BY <1>7 DEF LoopSleep, SleepReturns, SleepEnds, CmdSleep, IdleSleep
<1>8. ASSUME NEW r \in Requests, CmdStart(r) PROVE ForwardedKept'
  BY <1>8 DEF CmdStart, StartTransfer
<1>9. ASSUME NEW r \in Requests, AbortStatus(r) PROVE ForwardedKept'
  BY <1>9 DEF AbortStatus, StartTransfer
<1>10. CASE CmdQueue
  BY <1>10 DEF CmdQueue, QueueRequest
<1>11. CASE AbortQueue
  BY <1>11 DEF AbortQueue, QueueRequest
<1>12. ASSUME NEW b \in Bufs, CmdFill(b) \/ CmdDrain(b) \/ CmdWait(b) PROVE ForwardedKept'
  BY <1>12 DEF CmdFill, CmdDrain, CmdWait
<1>13. ASSUME NEW s \in {DATA_PHASE, STATUS_PHASE}, CmdPhase(s) PROVE ForwardedKept'
  BY <1>13 DEF CmdPhase, exception_in_progress
<1>14. CASE CmdAbort \/ CmdReturns \/ CmdEnd
  BY <1>14 DEF CmdAbort, CmdReturns, raise_exception, CmdEnd, exception_in_progress
<1>15. CASE DequeueSignals
  BY <1>15 DEF DequeueSignals
<1>16. CASE CancelTransfers \/ TestIdle
  BY <1>16 DEF CancelTransfers, TestIdle
<1>17. CASE ResetState
  BY <1>17 DEF ResetState, ActionFor
<1>18. CASE AbortDone \/ Terminate
  BY <1>18 DEF AbortDone, Terminate
<1>19. CASE SyncFiles \/ ThreadExit
  BY <1>19 DEF SyncFiles, ThreadExit
<1>20. ASSUME NEW rc \in {0, -1}, ChangeInterface(rc) \/ ConfigInterface(rc) PROVE ForwardedKept'
  BY <1>20 DEF ChangeInterface, do_set_interface, ConfigInterface
<1>21. CASE ConfigDown \/ ConfigUp
  <2>1. CASE ConfigDown
    <3>1. h.old = CONFIG_CHANGE => pc' \in {"cfg_up", "ans"}
      BY <2>1 DEF ConfigDown
    <3>2. h.old \in {EXIT, TERMINATED} => pc' = "term"
      BY <2>1 DEF ConfigDown
    <3> QED
      BY <2>1, <3>1, <3>2 DEF ConfigDown
  <2>2. CASE ConfigUp
    BY <2>2 DEF ConfigUp
  <2> QED
    BY <1>21, <2>1, <2>2
<1>22. CASE CompareTags \/ AnswerEp0
  BY <1>22 DEF CompareTags, AnswerEp0
<1>23. CASE UNCHANGED vars
  BY <1>23 DEF vars
<1> QED
  BY <1>1, <1>2, <1>3, <1>4, <1>5, <1>6, <1>7, <1>8, <1>9, <1>10, <1>11, <1>12,
     <1>13, <1>14, <1>15, <1>16, <1>17, <1>18, <1>19, <1>20, <1>21, <1>22, <1>23
  DEF Next, Thread, Environment, DoCommand, HandleException

\* A buffer head is passed between the thread and the UDC, never shared.
LEMMA BufferOwnershipStep == IndInv /\ [Next]_vars => BufferOwnership'
<1> SUFFICES ASSUME IndInv, [Next]_vars PROVE BufferOwnership'
  OBVIOUS
<1> USE DEF IndInv, shared, device, buffers, host, request, local, Goto, BufferOwnership
<1>1. ASSUME NEW r \in Requests, Complete(r) PROVE BufferOwnership'
  <2>1. {r} \subseteq busy
    BY <1>1 DEF Complete, BusyQueued
  <2> QED
    BY <1>1, <2>1, CompletedOwnership DEF Complete
<1>2. CASE SetupImmediate \/ Kill \/ Unbind
  BY <1>2 DEF SetupImmediate, Kill, Unbind, raise_exception
<1>3. ASSUME NEW v \in {0, CONFIG_VALUE}, SetConfiguration(v) PROVE BufferOwnership'
  BY <1>3 DEF SetConfiguration, raise_exception
<1>4. CASE SetInterface \/ BulkReset
  BY <1>4 DEF SetInterface, SetupForwarded, raise_exception, BulkReset
<1>5. CASE BusReset
  <2>1. queued \subseteq busy
    BY DEF BusyQueued
  <2> QED
    BY <1>5, <2>1, CompletedOwnership DEF BusReset
<1>6. CASE MainLoop
  BY <1>6 DEF MainLoop
<1>7. CASE LoopSleep \/ CmdSleep \/ IdleSleep
  BY <1>7 DEF LoopSleep, SleepReturns, SleepEnds, CmdSleep, IdleSleep
<1>8. ASSUME NEW r \in Requests, CmdStart(r) PROVE BufferOwnership'
  BY <1>8, StartedOwnership DEF CmdStart
<1>9. ASSUME NEW r \in Requests, AbortStatus(r) PROVE BufferOwnership'
  BY <1>9, StartedOwnership DEF AbortStatus
<1>10. CASE CmdQueue
  BY <1>10, QueuedOwnership DEF CmdQueue, QueueRequest, BusyQueued, InTransfer
<1>11. CASE AbortQueue
  BY <1>11, QueuedOwnership DEF AbortQueue, QueueRequest, BusyQueued, InTransfer
<1>12. ASSUME NEW b \in Bufs, CmdFill(b) \/ CmdDrain(b) \/ CmdWait(b) PROVE BufferOwnership'
  <2>1. CASE CmdFill(b) \/ CmdDrain(b)
    <3>1. \A c \in Bufs : bstate'[c] = "BUSY" <=> bstate[c] = "BUSY"
      BY <2>1 DEF CmdFill, CmdDrain, TypeOK
    <3> QED
      BY <2>1, <3>1 DEF CmdFill, CmdDrain
  <2>2. CASE CmdWait(b)
    BY <2>2 DEF CmdWait
  <2> QED
    BY <1>12, <2>1, <2>2
<1>13. ASSUME NEW s \in {DATA_PHASE, STATUS_PHASE}, CmdPhase(s) PROVE BufferOwnership'
  BY <1>13 DEF CmdPhase
<1>14. CASE CmdAbort \/ CmdReturns \/ CmdEnd
  BY <1>14 DEF CmdAbort, CmdReturns, raise_exception, CmdEnd
<1>15. CASE DequeueSignals
  BY <1>15 DEF DequeueSignals
<1>16. CASE CancelTransfers \/ TestIdle
  BY <1>16 DEF CancelTransfers, TestIdle
<1>17. CASE ResetState
  BY <1>17 DEF ResetState, ActionFor, IdleBelow
<1>18. CASE AbortDone \/ Terminate
  BY <1>18 DEF AbortDone, Terminate
<1>19. CASE SyncFiles \/ ThreadExit
  BY <1>19 DEF SyncFiles, ThreadExit
<1>20. ASSUME NEW rc \in {0, -1}, ChangeInterface(rc) \/ ConfigInterface(rc) PROVE BufferOwnership'
  BY <1>20 DEF ChangeInterface, do_set_interface, ConfigInterface
<1>21. CASE ConfigDown \/ ConfigUp
  BY <1>21 DEF ConfigDown, do_set_interface, ConfigUp
<1>22. CASE CompareTags \/ AnswerEp0
  BY <1>22 DEF CompareTags, AnswerEp0
<1>23. CASE UNCHANGED vars
  BY <1>23 DEF vars
<1> QED
  BY <1>1, <1>2, <1>3, <1>4, <1>5, <1>6, <1>7, <1>8, <1>9, <1>10, <1>11, <1>12,
     <1>13, <1>14, <1>15, <1>16, <1>17, <1>18, <1>19, <1>20, <1>21, <1>22, <1>23
  DEF Next, Thread, Environment, DoCommand, HandleException

\* Tags grow, and a later exception never carries an earlier tag.
LEMMA TagsOrderedStep == IndInv /\ [Next]_vars => TagsOrdered'
<1> SUFFICES ASSUME IndInv, [Next]_vars PROVE TagsOrdered'
  OBVIOUS
<1> USE DEF IndInv, shared, device, buffers, host, request, local, Goto, TagsOrdered,
        AfterReset, TypeOK, Tags
<1>1. ASSUME NEW r \in Requests, Complete(r) PROVE TagsOrdered'
  BY <1>1 DEF Complete, complete_requests
<1>2. CASE SetupImmediate \/ Kill \/ Unbind
  BY <1>2 DEF SetupImmediate, Kill, Unbind, raise_exception
<1>3. ASSUME NEW v \in {0, CONFIG_VALUE}, SetConfiguration(v) PROVE TagsOrdered'
  BY <1>3 DEF SetConfiguration, raise_exception
<1>4. CASE SetInterface \/ BulkReset
  BY <1>4 DEF SetInterface, SetupForwarded, raise_exception, BulkReset
<1>5. CASE BusReset
  BY <1>5 DEF BusReset, complete_requests, raise_exception
<1>6. CASE MainLoop
  BY <1>6 DEF MainLoop
<1>7. CASE LoopSleep \/ CmdSleep \/ IdleSleep
  BY <1>7 DEF LoopSleep, SleepReturns, SleepEnds, CmdSleep, IdleSleep
<1>8. ASSUME NEW r \in Requests, CmdStart(r) PROVE TagsOrdered'
  BY <1>8 DEF CmdStart, StartTransfer
<1>9. ASSUME NEW r \in Requests, AbortStatus(r) PROVE TagsOrdered'
  BY <1>9 DEF AbortStatus, StartTransfer
<1>10. CASE CmdQueue
  BY <1>10 DEF CmdQueue, QueueRequest
<1>11. CASE AbortQueue
  BY <1>11 DEF AbortQueue, QueueRequest
<1>12. ASSUME NEW b \in Bufs, CmdFill(b) \/ CmdDrain(b) \/ CmdWait(b) PROVE TagsOrdered'
  BY <1>12 DEF CmdFill, CmdDrain, CmdWait
<1>13. ASSUME NEW s \in {DATA_PHASE, STATUS_PHASE}, CmdPhase(s) PROVE TagsOrdered'
  BY <1>13 DEF CmdPhase
<1>14. CASE CmdAbort \/ CmdReturns \/ CmdEnd
  BY <1>14 DEF CmdAbort, CmdReturns, raise_exception, CmdEnd
<1>15. CASE DequeueSignals
  BY <1>15 DEF DequeueSignals
<1>16. CASE CancelTransfers \/ TestIdle
  BY <1>16 DEF CancelTransfers, TestIdle
<1>17. CASE ResetState
  BY <1>17 DEF ResetState, ActionFor
<1>18. CASE AbortDone \/ Terminate
  BY <1>18 DEF AbortDone, Terminate
<1>19. CASE SyncFiles \/ ThreadExit
  BY <1>19 DEF SyncFiles, ThreadExit
<1>20. ASSUME NEW rc \in {0, -1}, ChangeInterface(rc) \/ ConfigInterface(rc) PROVE TagsOrdered'
  BY <1>20 DEF ChangeInterface, do_set_interface, ConfigInterface, HostKept
<1>21. CASE ConfigDown \/ ConfigUp
  BY <1>21 DEF ConfigDown, do_set_interface, ConfigUp
<1>22. CASE CompareTags \/ AnswerEp0
  BY <1>22 DEF CompareTags, AnswerEp0
<1>23. CASE UNCHANGED vars
  BY <1>23 DEF vars
<1> QED
  BY <1>1, <1>2, <1>3, <1>4, <1>5, <1>6, <1>7, <1>8, <1>9, <1>10, <1>11, <1>12,
     <1>13, <1>14, <1>15, <1>16, <1>17, <1>18, <1>19, <1>20, <1>21, <1>22, <1>23
  DEF Next, Thread, Environment, DoCommand, HandleException

\* Host and device disagree on the configuration only while it is being changed.
LEMMA HostKeptStep == IndInv /\ [Next]_vars => HostKept'
<1> SUFFICES ASSUME IndInv, [Next]_vars PROVE HostKept'
  OBVIOUS
<1> USE DEF IndInv, shared, device, buffers, host, request, local, Goto, HostKept,
        ForwardedKept, TypeOK
<1>1. ASSUME NEW r \in Requests, Complete(r) PROVE HostKept'
  BY <1>1 DEF Complete, complete_requests
<1>2. CASE SetupImmediate \/ Kill \/ Unbind
  BY <1>2 DEF SetupImmediate, Kill, Unbind, raise_exception
<1>3. ASSUME NEW v \in {0, CONFIG_VALUE}, SetConfiguration(v) PROVE HostKept'
  BY <1>3 DEF SetConfiguration, raise_exception
<1>4. CASE SetInterface \/ BulkReset
  BY <1>4 DEF SetInterface, SetupForwarded, raise_exception, BulkReset
<1>5. CASE BusReset
  BY <1>5 DEF BusReset, complete_requests, raise_exception
<1>6. CASE MainLoop
  BY <1>6 DEF MainLoop
<1>7. CASE LoopSleep \/ CmdSleep \/ IdleSleep
  BY <1>7 DEF LoopSleep, SleepReturns, SleepEnds, CmdSleep, IdleSleep
<1>8. ASSUME NEW r \in Requests, CmdStart(r) PROVE HostKept'
  BY <1>8 DEF CmdStart, StartTransfer
<1>9. ASSUME NEW r \in Requests, AbortStatus(r) PROVE HostKept'
  BY <1>9 DEF AbortStatus, StartTransfer
<1>10. CASE CmdQueue
  BY <1>10 DEF CmdQueue, QueueRequest
<1>11. CASE AbortQueue
  BY <1>11 DEF AbortQueue, QueueRequest
<1>12. ASSUME NEW b \in Bufs, CmdFill(b) \/ CmdDrain(b) \/ CmdWait(b) PROVE HostKept'
  BY <1>12 DEF CmdFill, CmdDrain, CmdWait
<1>13. ASSUME NEW s \in {DATA_PHASE, STATUS_PHASE}, CmdPhase(s) PROVE HostKept'
  BY <1>13 DEF CmdPhase, exception_in_progress
<1>14. CASE CmdAbort \/ CmdReturns \/ CmdEnd
  BY <1>14 DEF CmdAbort, CmdReturns, raise_exception, CmdEnd, exception_in_progress
<1>15. CASE DequeueSignals
  BY <1>15 DEF DequeueSignals
<1>16. CASE CancelTransfers \/ TestIdle
  BY <1>16 DEF CancelTransfers, TestIdle
<1>17. CASE ResetState
  BY <1>17 DEF ResetState, ActionFor
<1>18. CASE AbortDone \/ Terminate
  BY <1>18 DEF AbortDone, Terminate
<1>19. CASE SyncFiles \/ ThreadExit
  BY <1>19 DEF SyncFiles, ThreadExit
<1>20. ASSUME NEW rc \in {0, -1}, ChangeInterface(rc) \/ ConfigInterface(rc) PROVE HostKept'
  BY <1>20 DEF ChangeInterface, do_set_interface, ConfigInterface
<1>21. CASE ConfigDown \/ ConfigUp
  BY <1>21 DEF ConfigDown, do_set_interface, ConfigUp
<1>22. CASE CompareTags \/ AnswerEp0
  <2>1. CASE CompareTags
    BY <2>1 DEF CompareTags
  <2>2. CASE AnswerEp0
    <3>1. CASE hostcfg' = hostcfg
      BY <2>2, <3>1 DEF AnswerEp0
    <3>2. CASE /\ ep0_wait = "config" /\ h.rc = 0 /\ h.tag = ep0_req_tag
               /\ hostcfg' = new_config
      <4>1. h.old = CONFIG_CHANGE /\ h.cfg = new_config
        BY <2>2, <3>2 DEF AnswerEp0, TagsOrdered, AfterReset
      <4>2. state \notin {CONFIG_CHANGE, DISCONNECT}
        BY <2>2, <3>2 DEF AnswerEp0, TagsOrdered, AfterReset, Tags
      <4> QED
        BY <2>2, <3>2, <4>1, <4>2 DEF AnswerEp0
    <3> QED
      BY <2>2, <3>1, <3>2 DEF AnswerEp0
  <2> QED
    BY <1>22, <2>1, <2>2
<1>23. CASE UNCHANGED vars
  BY <1>23 DEF vars
<1> QED
  BY <1>1, <1>2, <1>3, <1>4, <1>5, <1>6, <1>7, <1>8, <1>9, <1>10, <1>11, <1>12,
     <1>13, <1>14, <1>15, <1>16, <1>17, <1>18, <1>19, <1>20, <1>21, <1>22, <1>23
  DEF Next, Thread, Environment, DoCommand, HandleException
-----------------------------------------------------------------------------
(* The theorems.                                                           *)

\* The state after fsg_bind satisfies the inductive invariant.
LEMMA IndInvInit == Init => IndInv
<1> SUFFICES ASSUME Init PROVE IndInv
  OBVIOUS
<1>1. TypeOK
  BY BoundsAssumption DEF Init, TypeOK, Tags, Pcs
<1>2. BufferOwnership /\ BusyQueued /\ UpWhileUsed /\ IdleBelow
  BY DEF Init, BufferOwnership, BusyQueued, InTransfer, UpWhileUsed, IdleBelow, Command
<1>3. SleepersWoken /\ ForwardedKept /\ TagsOrdered /\ HostKept
  BY DEF Init, SleepersWoken, Command, exception_in_progress, ForwardedKept, TagsOrdered,
         AfterReset, HostKept
<1> QED
  BY <1>1, <1>2, <1>3 DEF IndInv

\* The inductive invariant of the exception machinery holds in every reachable
\* state, for any number of buffers, ep0 requests, resets and exits.
THEOREM Inductive == Spec => []IndInv
<1>1. IndInv /\ [Next]_vars => IndInv'
  BY TypeStep, BufferOwnershipStep, BusyQueuedStep, UpWhileUsedStep, IdleBelowStep,
     SleepersWokenStep, ForwardedKeptStep, TagsOrderedStep, HostKeptStep DEF IndInv
<1> QED
  BY IndInvInit, <1>1, PTL DEF Spec

\* In every reachable state each variable has its type: tags stay in step with
\* the number of ep0 requests, pc with the control flow of the thread.
THEOREM TypeCorrect == Spec => []TypeOK
<1>1. IndInv => TypeOK
  BY DEF IndInv
<1> QED
  BY <1>1, Inductive, PTL

\* The thread and the UDC never own the same buffer head, through start_transfer,
\* the completion handlers, cancellation and the reset of the buffer heads.
THEOREM BuffersOwned == Spec => []BufferOwnership
<1>1. IndInv => BufferOwnership
  BY DEF IndInv
<1> QED
  BY <1>1, Inductive, PTL

\* do_set_interface frees no request the UDC holds, and neither a command nor
\* the abort handler uses a request that is not allocated.
THEOREM RequestsSafe == Spec => []RequestsAllocated
<1>1. IndInv => RequestsAllocated
  BY DEF IndInv, TypeOK, BusyQueued, UpWhileUsed, RequestsAllocated
<1> QED
  BY <1>1, Inductive, PTL

\* sleep_thread loses no wakeup: a thread that sleeps with neither wakeup nor
\* signal pending waits for something the UDC still has.
THEOREM WakeupsKept == Spec => []NoLostWakeup
<1> SUFFICES ASSUME IndInv PROVE NoLostWakeup
  BY Inductive, PTL
<1> SUFFICES ASSUME ~signal_pending, thread_wakeup_needed = 0
             PROVE  /\ pc = "cmd_sleep"  => \/ \E d \in {"in", "out"} : <<wbuf, d>> \in queued
                                            \/ wbuf \in refused
                    /\ pc = "idle_sleep" => cancelled # {} /\ busy \subseteq cancelled
                    /\ pc = "loop_sleep" => running = 0
                    /\ pc \in {"cmd_sleep", "loop_sleep"} => ~exception_in_progress
  BY DEF NoLostWakeup
<1>1. pc = "cmd_sleep" => \/ \E d \in {"in", "out"} : <<wbuf, d>> \in queued
                          \/ wbuf \in refused
  BY DEF IndInv, SleepersWoken, BufferOwnership, BusyQueued, InTransfer
<1>2. pc = "idle_sleep" => cancelled # {} /\ busy \subseteq cancelled
  BY DEF IndInv, SleepersWoken, IdleBelow
<1>3. pc = "loop_sleep" => running = 0
  BY DEF IndInv, UpWhileUsed
<1>4. pc \in {"cmd_sleep", "loop_sleep"} => ~exception_in_progress
  BY DEF IndInv, SleepersWoken, Command, signal_pending
<1> QED
  BY <1>1, <1>2, <1>3, <1>4

\* A forwarded ep0 request is left unanswered only if a more urgent exception
\* was in progress when raise_exception was called for it.
THEOREM RequestsKept == Spec => []LostOnlyWhenOutranked
<1>1. IndInv => LostOnlyWhenOutranked
  BY DEF IndInv, TypeOK, ForwardedKept, LostOnlyWhenOutranked, Quiet, Handler,
         exception_in_progress
<1> QED
  BY <1>1, Inductive, PTL

\* Whenever no exception is in progress, the configuration is the one the host
\* was told is set, through every interleaving of requests, resets and exits.
THEOREM ConfigurationAgreed == Spec => []ConfigAgreed
<1>1. IndInv => ConfigAgreed
  BY DEF IndInv, HostKept, ConfigAgreed, Quiet, Handler, exception_in_progress
<1> QED
  BY <1>1, Inductive, PTL

\* do_set_interface runs only when no buffer head is in use.
THEOREM ReconfigurationSafe == Spec => ReconfiguredWhenIdle
<1> DEFINE Safe == running' # running \/ req' # req =>
                      busy = {} /\ \A b \in Bufs : bstate[b] = "EMPTY"
<1>1. IndInv /\ [Next]_vars => [Safe]_vars
  <2> SUFFICES ASSUME IndInv, [Next]_vars, running' # running \/ req' # req
               PROVE  busy = {} /\ \A b \in Bufs : bstate[b] = "EMPTY"
    OBVIOUS
  <2>1. pc \in {"itf", "cfg_down", "cfg_itf"}
    BY DEF Next, Thread, Environment, DoCommand, HandleException, vars, device, Goto,
           Complete, SetupImmediate, SetConfiguration, SetInterface, BulkReset,
           SetupForwarded, BusReset, Kill, Unbind, MainLoop, LoopSleep, CmdSleep, IdleSleep,
           SleepReturns, SleepEnds, CmdStart, AbortStatus, StartTransfer, CmdQueue,
           AbortQueue, QueueRequest, CmdFill, CmdDrain, CmdWait, CmdPhase, CmdAbort, CmdReturns, CmdEnd,
           DequeueSignals, CancelTransfers, TestIdle, ResetState, AbortDone, SyncFiles,
           ChangeInterface, ConfigInterface, ConfigDown, ConfigUp, Terminate, CompareTags,
           AnswerEp0, ThreadExit
  <2> QED
    BY <2>1 DEF IndInv, IdleBelow
<1> QED
  BY <1>1, Inductive, PTL DEF Spec, ReconfiguredWhenIdle
=============================================================================
