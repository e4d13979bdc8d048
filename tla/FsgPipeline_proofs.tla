------------------------ MODULE FsgPipeline_proofs ------------------------
(***************************************************************************)
(* Proofs about FsgPipeline, for any number of buffer heads, any lengths   *)
(* and any ordinary commands: host and device stay in step, data arrives   *)
(* in order and at its place, a status tells the truth, and the pipeline   *)
(* implements BulkOnly.                                                    *)
(***************************************************************************)
EXTENDS FsgPipeline_inv

(* The rest of the host's steps, and data from the host.                    *)

\* The host takes the status: the command is over.
LEMMA HostTakesCswStep ==
    ASSUME Ranges, NEW pos \in [Heads -> Nat], Safe(pos), HostTakesCsw
    PROVE  Ranges' /\ Safe(pos)'
<1>1. /\ host.phase = "csw" /\ inq # <<>> /\ "in" \notin halted /\ InDone
      /\ host' = [host EXCEPT !.phase = "cbw"]
      /\ UNCHANGED <<pc, fill, drain, ignore, exc, fsg, io, cbw, resets, sent, written>>
  BY DEF HostTakesCsw, THREAD, UNITS
<1>2. /\ Queues' /\ (NoData => NoData') /\ UNCHANGED <<outq, halted>>
      /\ bh' \in [Heads -> BhType] /\ inq' \in Seq(InType)
      /\ Len(inq) \in Nat /\ Len(inq) > 0
      /\ \A i \in 1 .. Len(inq) : inq[i].kind = "csw" => i = Len(inq)
      /\ inq' = <<>> <=> Len(inq) = 1
      /\ \A b \in Heads : Full(b)' => Full(b)
      /\ \A b \in Heads : bh[b].state # "BUSY" => bh'[b] = bh[b]
  BY <1>1, Takes
<1>3. host \in HostType /\ host' \in HostType /\ host'.phase = "cbw" /\ host'.moved = host.moved
  BY <1>1 DEF Ranges, HostType
<1>4. Ranges'
  BY <1>1, <1>2, <1>3 DEF Ranges
<1>5. cbw.form = "ok" /\ exc = "none" /\ ignore = 0 /\ halted = {}
  BY <1>1 DEF Safe, Phases, Exceptions, Ranges
<1>6. Len(inq) = 1 /\ inq' = <<>> /\ CswQueued
  <2>1. DOMAIN inq = 1 .. Len(inq) /\ 1 \in 1 .. Len(inq)
    BY <1>2 DEF Ranges
  <2>2. inq[1].kind = "csw"
    BY <1>1, <2>1 DEF Safe, Phases
  <2>3. Len(inq) = 1
    BY <1>2, <2>1, <2>2
  <2> QED
    BY <1>1, <1>2, <2>2, <2>3 DEF CswQueued
<1>7. pc \in {"get", "cbw"} /\ ~GotCbw /\ NoData /\ NoData'
  BY <1>2, <1>5, <1>6 DEF Safe, Phases, Exceptions, Stages
<1>8. ~GotCbw' /\ ~CswQueued' /\ fill \in Heads
  BY <1>1, <1>2, <1>6, <1>7 DEF GotCbw, CswQueued, Ranges
<1>9. pc = "cbw" => outq' = <<fill>> /\ bh'[fill].want = "cbw"
  <2>1. SUFFICES ASSUME pc = "cbw" PROVE outq' = <<fill>> /\ bh'[fill].want = "cbw"
    OBVIOUS
  <2>2. outq = <<fill>> /\ bh[fill].want = "cbw"
    BY <1>7, <2>1 DEF Safe, Stages, GotCbw
  <2>3. 1 \in DOMAIN outq /\ outq[1] = fill /\ 1 \in DOMAIN inq
    BY <1>6, <2>2 DEF Ranges
  <2>4. inq[1].b # fill
    BY <2>3 DEF Safe, Queues
  <2>5. bh'[fill] = bh[fill]
    BY <1>1, <1>8, <2>4, InFinishes
  <2> QED
    BY <1>2, <2>2, <2>5
<1>10. Stages'
  <2>1. \A b \in Heads : ~Full(b)'
    BY <1>2, <1>7 DEF Safe, Stages, NoData, GotCbw
  <2> QED
    BY <1>1, <1>2, <1>7, <1>8, <1>9, <2>1 DEF Safe, Stages, CmdPcs
<1>11. Exceptions' /\ Phases' /\ InOrder(pos)' /\ Passed'
  BY <1>1, <1>2, <1>3, <1>5, <1>6, <1>7, <1>8 DEF Exceptions, Phases, InOrder, Passed
<1>12. SentSoFar' /\ TakenSoFar' /\ Counted' /\ Tiled(pos)' /\ Served(pos)'
  BY <1>1, <1>5, <1>7, Quiet
<1>13. DataInPlace'
  BY <1>1 DEF Safe, DataInPlace
<1> QED
  BY <1>2, <1>4, <1>10, <1>11, <1>12, <1>13 DEF Safe

\* The host clears the halt behind the last data.
LEMMA HostClearsHaltStep ==
    ASSUME Ranges, NEW pos \in [Heads -> Nat], Safe(pos), HostClearsHalt
    PROVE  Ranges' /\ Safe(pos)'
<1>1. /\ host.phase \in {"data", "csw"} /\ "in" \in halted /\ halted' = halted \ {"in"}
      /\ host' = [host EXCEPT !.phase = "csw"]
      /\ UNCHANGED <<pc, bh, fill, drain, outq, inq, ignore, exc, fsg, io, cbw, resets, sent, written>>
  BY DEF HostClearsHalt, THREAD, UNITS
<1>2. host.phase = "csw"
  BY <1>1 DEF Safe, Phases
<1>3. host' = host
  BY <1>1, <1>2 DEF Ranges, HostType
<1>4. Ranges'
  BY <1>1, <1>3 DEF Ranges
<1>5. Exceptions' /\ Queues' /\ Stages'
  BY <1>1, <1>3 DEF Safe, Exceptions, Queues, Stages, Data, NoData, Full, Empty, GotCbw
<1>6. Phases'
  BY <1>1, <1>2, <1>3 DEF Safe, Phases, CswQueued, GotCbw, Full, Sending
<1>7. InOrder(pos)'
  BY <1>2, <1>3 DEF InOrder
<1>8. Done' = Done /\ Asked' = Asked /\ Sz' = Sz /\ Goal' = Goal /\ Base' = Base
  BY <1>1, SameCommand
<1>9. Tiled(pos)'
  BY <1>1, <1>8 DEF Safe, Tiled, Receiving, Data, NoData
<1>10. Served(pos)'
  BY <1>1, <1>3, <1>8 DEF Safe, Served, Receiving, Data, Full
<1>11. SentSoFar'
  BY <1>1, <1>8 DEF Safe, SentSoFar, PaddedFrom, Full, Empty
<1>12. TakenSoFar'
  BY <1>1, <1>3, <1>8 DEF Safe, TakenSoFar, Prefix, Clean
<1>13. Counted' /\ Passed' /\ DataInPlace'
  BY <1>1, <1>3, <1>8 DEF Safe, Counted, Passed, DataInPlace, Clean, CswQueued
<1> QED
  BY <1>4, <1>5, <1>6, <1>7, <1>9, <1>10, <1>11, <1>12, <1>13 DEF Safe

\* The thread goes on with a command that takes data, or none.
LEMMA TakesMore ==
    ASSUME Ranges, NEW pos \in [Heads -> Nat], Safe(pos),
           pc \in {"write", "finish", "throw"}, cbw.dir # "in",
           UNCHANGED <<cbw, host, exc, ignore, halted, inq, sent>>,
           pc' \in {"write", "finish", "throw", "status"},
           pc' \in {"write", "throw"} => cbw.dir = "out",
           pc' = "status" => outq' = <<>> /\ NoData',
           \A b \in Heads : Full(b)' => Data(b)'
    PROVE  /\ Exceptions' /\ Stages' /\ Phases' /\ SentSoFar' /\ Passed'
           /\ \A q : InOrder(q)'
<1>1. cbw.form = "ok" /\ cbw \in Cbws /\ ~CswQueued /\ exc # "abort" /\ host.phase # "cbw"
  BY DEF Safe, Stages, Phases, Exceptions, CmdPcs
<1>2. ~CswQueued' /\ ~GotCbw' /\ ~GotCbw
  BY <1>1 DEF CswQueued, GotCbw
<1>3. Exceptions'
  BY <1>1 DEF Safe, Exceptions
<1>4. Stages'
  BY <1>1, <1>2 DEF Stages, CmdPcs
<1>5. Phases'
  BY <1>1, <1>2 DEF Safe, Phases
<1>6. SentSoFar' /\ Passed' /\ \A q : InOrder(q)'
  BY <1>2 DEF SentSoFar, Passed, InOrder
<1> QED
  BY <1>3, <1>4, <1>5, <1>6

\* The thread gives up on the data of a command: the host has stopped sending.
LEMMA Aborts ==
    ASSUME Ranges, NEW pos \in [Heads -> Nat], Safe(pos), pc \in {"finish", "throw"}, cbw.dir = "out",
           host.phase # "data", pc' = "exc", AbortBulkOut, Queues',
           UNCHANGED <<cbw, host, fsg, ignore, halted, inq, sent, written>>
    PROVE  Safe(pos)'
<1>1. cbw.form = "ok" /\ cbw \in Cbws /\ ~CswQueued /\ exc # "abort" /\ host.phase # "cbw"
  BY DEF Safe, Stages, Phases, Exceptions, CmdPcs
<1>2. ~CswQueued' /\ ~GotCbw' /\ ~GotCbw
  BY <1>1 DEF CswQueued, GotCbw
<1>3. DataInPlace' /\ Passed'
  BY <1>2 DEF Safe, DataInPlace, Passed
<1>4. CASE exc = "reset"
  <2>1. exc' = exc
    BY <1>4 DEF AbortBulkOut
  <2> QED
    BY <1>3, <1>4, <2>1, Breaks
<1>5. CASE exc = "none"
  <2>1. exc' = "abort" /\ host.phase = "csw"
    BY <1>1, <1>5 DEF AbortBulkOut, Safe, Exceptions, Ranges, HostType
  <2>2. inq = <<>>
    <3>1. SUFFICES ASSUME inq # <<>> PROVE FALSE
      OBVIOUS
    <3>2. Len(inq) \in DOMAIN inq
      BY <3>1 DEF Ranges
    <3>3. inq[Len(inq)].kind = "csw"
      BY <2>1, <3>2 DEF Safe, Phases
    <3> QED
      BY <1>1, <3>1, <3>3 DEF CswQueued
  <2>3. Exceptions'
    BY <1>1, <2>1, <2>2 DEF Exceptions
  <2>4. Stages' /\ InOrder(pos)' /\ Tiled(pos)' /\ Served(pos)' /\ SentSoFar'
    BY <1>2, <2>1 DEF Stages, InOrder, Tiled, Served, SentSoFar, CmdPcs, Receiving
  <2>5. Phases'
    BY <1>1, <1>2, <2>1, <2>2 DEF Safe, Phases
  <2>6. Sz' = Sz /\ Goal' = Goal /\ Base' = Base /\ Done' = Done
    BY SameCommand
  <2>7. TakenSoFar'
    <3>1. sent = <<>> /\ written = Prefix(Done) /\ Done <= host.moved
      BY DEF Safe, TakenSoFar, CmdPcs
    <3>2. Prefix(Done)' = Prefix(Done)
      BY <2>6 DEF Prefix
    <3> QED
      BY <2>6, <3>1, <3>2 DEF TakenSoFar, CmdPcs
  <2>8. Counted'
    BY <2>6 DEF Safe, Counted, CmdPcs, Clean
  <2> QED
    BY <1>3, <2>3, <2>4, <2>5, <2>7, <2>8 DEF Safe
<1> QED
  BY <1>1, <1>4, <1>5 DEF Ranges

\* What the buffer heads of a command that takes data say about the queue.
LEMMA Taking ==
    ASSUME Ranges, NEW pos \in [Heads -> Nat], Safe(pos), Receiving
    PROVE  /\ Asked \in Nat /\ Done \in Nat /\ Asked <= cbw.size /\ Done <= cbw.size
           /\ Done <= host.moved /\ exc # "abort" /\ ~CswQueued /\ cbw.dir # "in"
           /\ cbw.form = "ok" /\ cbw \in Cbws /\ pc \in CmdPcs \ {"scsi"}
           /\ fsg.left <= cbw.size /\ fsg.residue <= cbw.size
           /\ \A b \in Heads : Full(b) => Data(b)
           /\ NoData => outq = <<>>
           /\ Empty(drain) => NoData
<1>1. pc \in {"write", "throw", "finish"} /\ cbw.dir # "in" /\ pc \in CmdPcs \ {"scsi"}
  BY DEF Receiving, Safe, Stages, CmdPcs
<1>2. cbw.form = "ok" /\ cbw \in Cbws /\ exc # "abort" /\ ~CswQueued
      /\ \A b \in Heads : Full(b) => Data(b)
  BY <1>1 DEF Safe, Stages, Phases, Exceptions
<1>3. fsg.left <= cbw.size /\ fsg.residue <= cbw.size /\ Done <= host.moved
  BY <1>1 DEF Safe, Counted, TakenSoFar
<1>4. Asked \in Nat /\ Done \in Nat /\ Asked <= cbw.size /\ Done <= cbw.size
  <2>1. cbw.size \in Nat /\ fsg.left \in Nat /\ fsg.residue \in Nat
    BY Numbers
  <2> QED
    BY <1>3, <2>1 DEF Asked, Done
<1>5. NoData => outq = <<>>
  <2>1. SUFFICES ASSUME NoData, outq # <<>> PROVE FALSE
    OBVIOUS
  <2>2. 1 \in DOMAIN outq /\ outq[1] \in Heads
    BY <2>1 DEF Ranges
  <2> QED
    BY <2>1, <2>2 DEF Safe, Served, NoData
<1>6. Empty(drain) => NoData
  BY DEF Safe, Tiled, Queues, Ranges
<1> QED
  BY <1>1, <1>2, <1>3, <1>4, <1>5, <1>6

\* do_write is over.
LEMMA WriteEndsStep ==
    ASSUME Ranges, NEW pos \in [Heads -> Nat], Safe(pos), WriteEnds
    PROVE  Ranges' /\ Safe(pos)'
<1>1. /\ pc = "write" /\ pc' = "finish"
      /\ io.left = 0 \/ (Empty(drain) /\ io.more = 0)
      /\ UNCHANGED <<bh, fill, drain, outq, inq, halted, ignore, exc, fsg, io, cbw, host, resets, sent, written>>
  BY DEF WriteEnds, Goto, QUEUES, ASIDE, HOST, UNITS
<1>2. Receiving
  BY <1>1 DEF Receiving
<1>3. /\ Asked \in Nat /\ Done \in Nat /\ cbw.dir # "in"
      /\ \A b \in Heads : Full(b) => Data(b)
      /\ Empty(drain) => NoData
  BY <1>2, Taking
<1>4. Ranges'
  BY <1>1 DEF Ranges
<1>5. Exceptions' /\ Stages' /\ Phases' /\ SentSoFar' /\ Passed' /\ InOrder(pos)'
  <2>1. \A b \in Heads : Full(b)' => Data(b)'
    BY <1>1, <1>3 DEF Full, Data
  <2> QED
    BY <1>1, <1>3, <2>1, TakesMore
<1>6. Queues' /\ DataInPlace'
  BY <1>1 DEF Safe, Queues, DataInPlace, Data, Empty
<1>7. Sz' = Sz /\ Base' = Base /\ Done' = Done /\ Asked' = Asked
  BY <1>1, SameCommand
<1>8. Tiled(pos)' /\ Served(pos)'
  <2>1. Receiving' /\ (NoData' <=> NoData)
    BY <1>1, <1>3 DEF Receiving, NoData, Data
  <2>2. ~NoData => pos[drain] >= Done
    <3>1. ~NoData => pos[drain] = Done
      BY <1>1, <1>2 DEF Safe, Tiled
    <3> QED
      BY <1>3, <3>1
  <2>3. Tiled(pos)'
    BY <1>1, <1>2, <1>7, <2>1, <2>2 DEF Safe, Tiled, Data
  <2>4. Served(pos)'
    BY <1>1, <1>2, <1>7 DEF Safe, Served, Data, Full
  <2> QED
    BY <2>3, <2>4
<1>9. Clean => Done = Sz
  <2>1. SUFFICES ASSUME Clean PROVE Done = Sz
    OBVIOUS
  <2>2. /\ io.left = Goal - Done /\ io.uleft = Goal - Asked
        /\ io.more = 0 => io.uleft = 0
    BY <1>1, <1>3, <2>1 DEF Safe, TakenSoFar, CmdPcs
  <2>3. Sz <= cbw.size
    BY <1>1, <2>1 DEF Safe, Counted, CmdPcs, Clean
  <2>4. Goal = Sz /\ Goal \in Nat
    BY <2>3, Numbers
  <2>5. NoData => Done = Asked
    BY <1>1, <1>2 DEF Safe, Tiled
  <2>6. io.left = 0 \/ (Done = Asked /\ io.uleft = 0)
    BY <1>1, <1>3, <2>2, <2>5
  <2> QED
    BY <1>3, <2>2, <2>4, <2>6
<1>10. TakenSoFar'
  <2>1. sent = <<>> /\ written = Prefix(Done) /\ Done <= host.moved /\ fsg.short = 0
    BY <1>1, <1>3 DEF Safe, TakenSoFar, CmdPcs
  <2>2. Prefix(Done)' = Prefix(Done) /\ Clean' = Clean
    BY <1>1, <1>7 DEF Prefix, Clean
  <2> QED
    BY <1>1, <1>7, <1>9, <2>1, <2>2 DEF TakenSoFar, CmdPcs
<1>11. Counted'
  <2>1. /\ fsg.residue <= cbw.size /\ fsg.left <= cbw.size
        /\ fsg.phase_error = 0 => ~Conflict(cbw) /\ Sz <= cbw.size
    BY <1>1 DEF Safe, Counted, CmdPcs
  <2>2. cbw.op = "write"
    BY <1>1, <1>3 DEF Safe, TakenSoFar, CmdPcs
  <2>3. Clean' = Clean /\ (Done = Sz => Done <= Sz)
    BY <1>1, <1>3 DEF Clean
  <2> QED
    BY <1>1, <1>7, <1>9, <2>1, <2>2, <2>3 DEF Counted
<1> QED
  BY <1>4, <1>5, <1>6, <1>8, <1>10, <1>11 DEF Safe

\* finish_reply of a command that takes data, or none.
LEMMA FinishFromHostStep ==
    ASSUME Ranges, NEW pos \in [Heads -> Nat], Safe(pos), FinishFromHost
    PROVE  Ranges' /\ Safe(pos)'
<1>1. /\ pc = "finish" /\ cbw.dir # "in"
      /\ UNCHANGED <<bh, fill, drain, outq, inq, halted, ignore, fsg, io, cbw, host, resets, sent, written>>
  BY DEF FinishFromHost, QUEUES, ASIDE, HOST, UNITS
<1>2. Receiving
  BY <1>1 DEF Receiving
<1>3. /\ Asked \in Nat /\ Done \in Nat /\ Asked <= cbw.size /\ Done <= host.moved /\ Done <= cbw.size
      /\ cbw \in Cbws /\ pc \in CmdPcs \ {"scsi"} /\ fsg.residue <= cbw.size /\ exc # "abort"
      /\ \A b \in Heads : Full(b) => Data(b)
      /\ NoData => outq = <<>>
  BY <1>2, Taking
<1>4. fsg.residue \in Nat /\ cbw.size \in Nat /\ Done = cbw.size - fsg.residue
  BY Numbers DEF Done
<1>5. fsg.residue > 0 => cbw.dir = "out"
  <2>1. cbw.size = 0 <=> cbw.dir = "none"
    BY <1>3, CbwsAssumption
  <2>2. cbw.dir \in {"in", "out", "none"}
    BY <1>3, CbwsAssumption DEF CbwType
  <2> QED
    BY <1>1, <1>3, <1>4, <2>1, <2>2
<1>6. Queues' /\ DataInPlace'
  BY <1>1 DEF Safe, Queues, DataInPlace, Data, Empty
<1>7. Sz' = Sz /\ Base' = Base /\ Done' = Done /\ Asked' = Asked
  BY <1>1, SameCommand
<1>8. CASE fsg.residue > 0 /\ fsg.short = 1
  <2>1. pc' = "exc" /\ AbortBulkOut
    BY <1>8 DEF FinishFromHost
  <2>2. host.phase # "data"
    BY <1>1, <1>3, <1>8 DEF Safe, TakenSoFar
  <2>3. Ranges'
    BY <1>1, <2>1 DEF Ranges, AbortBulkOut
  <2>4. Safe(pos)'
    BY <1>1, <1>5, <1>6, <1>8, <2>1, <2>2, Aborts
  <2> QED
    BY <2>3, <2>4
<1>9. CASE ~(fsg.residue > 0 /\ fsg.short = 1)
  <2>1. pc' = (IF fsg.residue = 0 THEN "status" ELSE "throw") /\ exc' = exc
    BY <1>9 DEF FinishFromHost
  <2>2. Ranges'
    BY <1>1, <2>1 DEF Ranges
  <2>3. fsg.residue = 0 => NoData /\ host.phase # "data"
    <3>1. SUFFICES ASSUME fsg.residue = 0 PROVE NoData /\ host.phase # "data"
      OBVIOUS
    <3>2. Done = cbw.size
      BY <1>4, <3>1
    <3>3. NoData
      <4>1. SUFFICES ASSUME ~NoData PROVE FALSE
        OBVIOUS
      <4>2. drain \in Heads /\ bh[drain] \in BhType /\ pos[drain] \in Nat
        BY DEF Ranges
      <4>3. bh[drain].outlen \in Int
        BY <4>2, Lengths DEF BhType
      <4>4. Data(drain) /\ pos[drain] >= Done
        BY <1>1, <1>2, <4>1 DEF Safe, Tiled
      <4>5. bh[drain].outlen > 0 /\ pos[drain] + bh[drain].outlen <= Asked
        BY <1>2, <4>2, <4>4 DEF Safe, Tiled
      <4> QED
        BY <1>3, <1>4, <3>2, <4>2, <4>3, <4>4, <4>5
    <3>4. host.phase # "data"
      <4>1. host.phase = "data" => cbw.dir = "out" /\ host.moved < cbw.size
        BY <1>1, <1>3, CbwsAssumption DEF Safe, Phases, CbwType
      <4>2. host.moved \in Nat
        BY Numbers
      <4> QED
        BY <1>3, <1>4, <3>2, <4>1, <4>2
    <3> QED
      BY <3>3, <3>4
  <2>4. fsg.residue # 0 => fsg.residue > 0 /\ fsg.short = 0
    BY <1>4, <1>9 DEF Ranges, FsgType
  <2>5. (NoData' <=> NoData) /\ Clean' = Clean
    BY <1>1 DEF NoData, Data, Clean
  <2>6. Exceptions' /\ Stages' /\ Phases' /\ SentSoFar' /\ Passed' /\ InOrder(pos)'
    <3>1. \A b \in Heads : Full(b)' => Data(b)'
      BY <1>1, <1>3 DEF Full, Data
    <3>2. pc' \in {"status", "throw"} /\ (pc' = "throw" => cbw.dir = "out")
          /\ (pc' = "status" => outq' = <<>> /\ NoData')
      BY <1>1, <1>3, <1>5, <2>1, <2>3, <2>4, <2>5
    <3> QED
      BY <1>1, <2>1, <3>1, <3>2, TakesMore
  <2>7. Tiled(pos)' /\ Served(pos)'
    <3>1. Tiled(pos)'
      BY <1>1, <1>2, <1>7, <2>1, <2>5 DEF Safe, Tiled, Data
    <3>2. Served(pos)'
      BY <1>1, <1>2, <1>7 DEF Safe, Served, Data, Full
    <3> QED
      BY <3>1, <3>2
  <2>8. TakenSoFar'
    <3>1. /\ sent = <<>> /\ written = Prefix(Done) /\ Done <= host.moved
          /\ fsg.short = 0 => (Clean /\ cbw.op = "write" => Done = Sz)
      BY <1>1, <1>3 DEF Safe, TakenSoFar
    <3>2. Prefix(Done)' = Prefix(Done)
      BY <1>1, <1>7 DEF Prefix
    <3> QED
      BY <1>1, <1>3, <1>7, <2>1, <2>3, <2>4, <2>5, <3>1, <3>2 DEF TakenSoFar, CmdPcs
  <2>9. Counted'
    BY <1>1, <1>3, <1>7, <2>1, <2>5 DEF Safe, Counted, CmdPcs
  <2> QED
    BY <1>6, <2>2, <2>6, <2>7, <2>8, <2>9 DEF Safe
<1> QED
  BY <1>8, <1>9

\* throw_away_data is over: the host has sent everything.
LEMMA DiscardEndsStep ==
    ASSUME Ranges, NEW pos \in [Heads -> Nat], Safe(pos), DiscardEnds
    PROVE  Ranges' /\ Safe(pos)'
<1>1. /\ pc = "throw" /\ pc' = "status" /\ Empty(drain) /\ fsg.left = 0
      /\ UNCHANGED <<bh, fill, drain, outq, inq, halted, ignore, exc, fsg, io, cbw, host, resets, sent, written>>
  BY DEF DiscardEnds, Goto, QUEUES, ASIDE, HOST, UNITS
<1>2. Receiving
  BY <1>1 DEF Receiving
<1>3. /\ Asked \in Nat /\ cbw.dir # "in" /\ pc \in CmdPcs \ {"scsi"}
      /\ \A b \in Heads : Full(b) => Data(b)
      /\ NoData /\ outq = <<>>
  BY <1>1, <1>2, Taking
<1>4. cbw.dir = "out"
  BY <1>1 DEF Safe, Stages
<1>5. host.phase # "data"
  <2>1. host.phase = "data" => host.moved = Asked /\ host.moved < cbw.size
    BY <1>2, <1>3, <1>4 DEF Safe, Served, Phases
  <2>2. Asked = cbw.size /\ cbw.size \in Nat
    BY <1>1, Numbers DEF Asked
  <2> QED
    BY <2>1, <2>2
<1>6. Ranges'
  BY <1>1 DEF Ranges
<1>7. Queues' /\ DataInPlace' /\ NoData'
  BY <1>1, <1>3 DEF Safe, Queues, DataInPlace, Data, NoData, Empty
<1>8. Exceptions' /\ Stages' /\ Phases' /\ SentSoFar' /\ Passed' /\ InOrder(pos)'
  <2>1. \A b \in Heads : Full(b)' => Data(b)'
    BY <1>1, <1>3 DEF Full, Data
  <2> QED
    BY <1>1, <1>3, <1>7, <2>1, TakesMore
<1>9. Sz' = Sz /\ Base' = Base /\ Done' = Done /\ Asked' = Asked
  BY <1>1, SameCommand
<1>10. Tiled(pos)' /\ Served(pos)'
  BY <1>1 DEF Tiled, Served, Receiving
<1>11. TakenSoFar'
  <2>1. sent = <<>> /\ written = Prefix(Done) /\ Done <= host.moved
    BY <1>1, <1>3 DEF Safe, TakenSoFar
  <2>2. Prefix(Done)' = Prefix(Done)
    BY <1>1, <1>9 DEF Prefix
  <2> QED
    BY <1>1, <1>5, <1>9, <2>1, <2>2 DEF TakenSoFar, CmdPcs
<1>12. Counted'
  BY <1>1, <1>3, <1>9 DEF Safe, Counted, CmdPcs, Clean
<1> QED
  BY <1>6, <1>7, <1>8, <1>10, <1>11, <1>12 DEF Safe

\* A request for amount units follows the ones before it.
LEMMA Extends ==
    ASSUME Ranges, NEW pos \in [Heads -> Nat], Safe(pos), pc \in {"write", "throw"}, pc' = pc,
           Empty(fill), NEW amount \in 0 .. BufLen, amount > 0, amount <= fsg.left,
           QueueOut(amount, "data"), fill' = NextBh(fill),
           fsg' = [fsg EXCEPT !.left = fsg.left - amount],
           UNCHANGED <<drain, cbw, host>>
    PROVE  /\ Queues' /\ (\A b \in Heads : Full(b)' => Data(b)')
           /\ Done' = Done /\ Asked' = Asked + amount
           /\ \E q \in [Heads -> Nat] : Tiled(q)' /\ Served(q)'
<1>1. PICK f \in Heads : f = fill
  BY DEF Ranges
<1>2. /\ bh' \in [Heads -> BhType] /\ outq' \in Seq(Heads) /\ UNCHANGED <<inq, halted>>
      /\ \A b \in Heads : b # f => bh'[b] = bh[b]
      /\ bh'[f].state = "BUSY" /\ bh'[f].want = "data" /\ bh'[f].outlen = amount
      /\ Len(outq') = Len(outq) + 1
      /\ \A i \in 1 .. Len(outq) : outq'[i] = outq[i]
      /\ outq'[Len(outq) + 1] = f
  BY <1>1, QueuesOut
<1>3. Receiving /\ Receiving'
  BY DEF Receiving
<1>4. /\ Asked \in Nat /\ Done \in Nat /\ (\A b \in Heads : Full(b) => Data(b))
      /\ NoData => outq = <<>>
  BY <1>3, Taking
<1>5. drain \in Heads /\ ~Data(f) /\ bh[f].state = "EMPTY"
  BY <1>1 DEF Ranges, Safe, Queues, Empty
<1>6. /\ Data(f)' /\ ~NoData' /\ ~Full(f)'
      /\ \A b \in Heads : b # f => (Data(b)' <=> Data(b)) /\ (Full(b)' <=> Full(b))
  BY <1>2 DEF Data, Full, NoData
<1>7. Done' = Done /\ Asked' = Asked + amount /\ amount \in Nat
  <2>1. fsg'.left = fsg.left - amount /\ fsg'.residue = fsg.residue
    BY DEF Ranges, FsgType
  <2>2. cbw.size \in Nat /\ fsg.left \in Nat /\ amount \in Nat
    BY Numbers, Lengths
  <2>3. Asked' = cbw.size - fsg'.left /\ Done' = cbw.size - fsg'.residue
    BY DEF Asked, Done
  <2> QED
    BY <2>1, <2>2, <2>3 DEF Asked, Done
<1>8. DOMAIN outq = 1 .. Len(outq) /\ DOMAIN outq' = 1 .. Len(outq) + 1 /\ Len(outq) \in Nat
      /\ \A i \in 1 .. Len(outq) : outq[i] \in Heads /\ outq[i] # f
  <2>1. DOMAIN outq = 1 .. Len(outq) /\ DOMAIN outq' = 1 .. Len(outq) + 1 /\ Len(outq) \in Nat
    BY <1>2 DEF Ranges
  <2>2. \A i \in DOMAIN outq : outq[i] \in Heads /\ outq[i] # f
    BY <1>5, InFlight DEF Safe
  <2> QED
    BY <2>1, <2>2
<1>9. Queues'
  <2>1. \A i \in DOMAIN inq : inq[i].b \in Heads /\ inq[i].b # f
    BY <1>5, InFlight DEF Safe
  <2>2. /\ \A i \in DOMAIN inq' : bh'[inq'[i].b].state = "BUSY" /\ ~Data(inq[i].b)'
        /\ \A i, j \in DOMAIN inq' : inq'[i].b = inq'[j].b => i = j
        /\ \A i \in DOMAIN inq' : inq'[i].kind = "csw" => i = Len(inq')
    BY <1>2, <2>1 DEF Safe, Queues, Data
  <2>3. \A i \in 1 .. Len(outq) + 1 : i \in 1 .. Len(outq) \/ i = Len(outq) + 1
    BY <1>8
  <2>4. \A i \in DOMAIN outq' : bh'[outq'[i]].state = "BUSY" /\ bh'[outq'[i]].want # "none"
    BY <1>2, <1>8, <2>3 DEF Safe, Queues
  <2>5. \A i, j \in DOMAIN outq' : outq'[i] = outq'[j] => i = j
    BY <1>2, <1>8, <2>3 DEF Safe, Queues
  <2>6. \A i \in DOMAIN inq', j \in DOMAIN outq' : inq'[i].b # outq'[j]
    BY <1>2, <1>8, <2>1, <2>3 DEF Safe, Queues
  <2>7. \A b \in Heads : Data(b)' => ~Empty(b)'
    BY <1>2, <1>6 DEF Safe, Queues, Empty
  <2> QED
    BY <1>2, <2>2, <2>4, <2>5, <2>6, <2>7 DEF Queues, Data
<1>10. PICK q \in [Heads -> Nat] : q = [pos EXCEPT ![f] = Asked]
  BY <1>4
<1>11. q[f] = Asked /\ \A b \in Heads : pos[b] \in Nat /\ (b # f => q[b] = pos[b])
  BY <1>10
<1>12. \A b \in Heads : Data(b) =>
          /\ bh[b].outlen \in Nat /\ bh[b].outlen > 0 /\ pos[b] + bh[b].outlen <= Asked
          /\ \/ NextBh(b) = f /\ pos[b] + bh[b].outlen = Asked
             \/ Data(NextBh(b)) /\ pos[NextBh(b)] = pos[b] + bh[b].outlen
  <2>1. \A b \in Heads : bh[b].outlen \in Nat
    BY Lengths DEF Ranges, BhType
  <2> QED
    BY <1>1, <1>3, <2>1 DEF Safe, Tiled
<1>13. ASSUME NEW b \in Heads, Data(b) PROVE pos[b] < Asked /\ pos[b] <= Asked /\ b # f /\ q[b] = pos[b]
  <2>1. pos[b] \in Nat /\ bh[b].outlen \in Nat /\ bh[b].outlen > 0 /\ pos[b] + bh[b].outlen <= Asked
    BY <1>11, <1>12, <1>13
  <2>2. pos[b] < Asked /\ pos[b] <= Asked
    BY <1>4, <2>1
  <2> QED
    BY <1>5, <1>11, <1>13, <2>2
<1>14. Tiled(q)'
  <2>1. ASSUME NEW b \in Heads, Data(b)'
        PROVE  /\ bh'[b].outlen > 0 /\ q[b] + bh'[b].outlen <= Asked'
               /\ \/ NextBh(b) = fill' /\ q[b] + bh'[b].outlen = Asked'
                  \/ Data(NextBh(b))' /\ q[NextBh(b)] = q[b] + bh'[b].outlen
    <3>1. CASE b = f
      BY <1>1, <1>2, <1>7, <1>11, <3>1
    <3>2. CASE b # f
      <4>1. Data(b) /\ bh'[b] = bh[b] /\ q[b] = pos[b] /\ NextBh(b) \in Heads
        BY <1>2, <1>6, <1>11, <2>1, <3>2, Ring
      <4>2. bh[b].outlen > 0 /\ q[b] + bh'[b].outlen <= Asked'
        BY <1>4, <1>7, <1>11, <1>12, <4>1
      <4>3. CASE NextBh(b) = f /\ pos[b] + bh[b].outlen = Asked
        BY <1>6, <1>11, <4>1, <4>2, <4>3
      <4>4. CASE Data(NextBh(b)) /\ pos[NextBh(b)] = pos[b] + bh[b].outlen
        BY <1>5, <1>6, <1>11, <4>1, <4>2, <4>4
      <4> QED
        BY <1>12, <4>1, <4>3, <4>4
    <3> QED
      BY <3>1, <3>2
  <2>2. ASSUME NEW b \in Heads, NEW c \in Heads, Data(b)', Data(c)', b # c
        PROVE  q[b] + bh'[b].outlen <= q[c] \/ q[c] + bh'[c].outlen <= q[b]
    <3>1. CASE b # f /\ c # f
      <4>1. Data(b) /\ Data(c) /\ bh'[b] = bh[b] /\ bh'[c] = bh[c] /\ q[b] = pos[b] /\ q[c] = pos[c]
        BY <1>2, <1>6, <1>11, <2>2, <3>1
      <4> QED
        BY <1>3, <2>2, <4>1 DEF Safe, Tiled
    <3>2. CASE b = f
      BY <1>2, <1>6, <1>11, <1>12, <2>2, <3>2
    <3>3. CASE c = f
      BY <1>2, <1>6, <1>11, <1>12, <2>2, <3>3
    <3> QED
      BY <3>1, <3>2, <3>3
  <2>3. IF NoData THEN drain = f /\ (pc = "write" => Done = Asked)
        ELSE /\ Data(drain) /\ (pc = "write" => pos[drain] = Done)
             /\ \A b \in Heads : Data(b) => pos[drain] <= pos[b]
    BY <1>1, <1>3 DEF Safe, Tiled
  <2>4. Data(drain)' /\ (pc = "write" => q[drain] = Done)
        /\ \A b \in Heads : Data(b)' => q[drain] <= q[b]
    <3>1. CASE NoData
      BY <1>4, <1>5, <1>6, <1>11, <2>3, <3>1 DEF NoData
    <3>2. CASE ~NoData
      <4>1. drain # f /\ q[drain] = pos[drain] /\ pos[drain] <= Asked
        BY <1>5, <1>13, <2>3, <3>2
      <4> QED
        BY <1>5, <1>6, <1>11, <2>3, <3>2, <4>1
    <3> QED
      BY <3>1, <3>2
  <2> QED
    BY <1>3, <1>6, <1>7, <2>1, <2>2, <2>4 DEF Tiled, Data
<1>15. Served(q)'
  <2>1. \A b \in Heads : Data(b)' /\ bh'[b].state = "BUSY" => \E i \in DOMAIN outq' : outq'[i] = b
    <3>1. Len(outq) + 1 \in DOMAIN outq' /\ \A i \in DOMAIN outq : i \in DOMAIN outq' /\ outq'[i] = outq[i]
      BY <1>2, <1>8
    <3>2. \A b \in Heads : Data(b) /\ bh[b].state = "BUSY" => \E i \in DOMAIN outq : outq[i] = b
      BY <1>3 DEF Safe, Served
    <3> QED
      BY <1>2, <1>6, <3>1, <3>2
  <2>2. /\ \A i \in 1 .. Len(outq) : Data(outq[i])
        /\ \A i, j \in 1 .. Len(outq) : i < j => pos[outq[i]] < pos[outq[j]]
    BY <1>3, <1>8 DEF Safe, Served
  <2>3. \A i \in 1 .. Len(outq) + 1 : i \in 1 .. Len(outq) \/ i = Len(outq) + 1
    BY <1>8
  <2>4. \A i \in DOMAIN outq' : bh'[outq'[i]].want = "data"
    <3>1. \A i \in 1 .. Len(outq) : bh'[outq[i]].want = "data"
      BY <1>2, <1>8, <2>2 DEF Data
    <3> QED
      BY <1>2, <1>8, <2>3, <3>1
  <2>5. \A i \in 1 .. Len(outq) : q[outq[i]] = pos[outq[i]] /\ pos[outq[i]] < Asked
    BY <1>8, <1>13, <2>2
  <2>6. ASSUME NEW i \in DOMAIN outq', NEW j \in DOMAIN outq', i < j
        PROVE  q[outq'[i]] < q[outq'[j]]
    <3>1. i \in 1 .. Len(outq) /\ outq'[i] = outq[i]
      BY <1>2, <1>8, <2>6
    <3>2. CASE j = Len(outq) + 1
      BY <1>2, <1>11, <2>5, <3>1, <3>2
    <3>3. CASE j \in 1 .. Len(outq)
      BY <1>2, <2>2, <2>5, <2>6, <3>1, <3>3
    <3> QED
      BY <1>8, <2>3, <3>2, <3>3
  <2>7. ASSUME NEW b \in Heads, NEW c \in Heads, Data(b)', Data(c)', Full(b)', bh'[c].state = "BUSY"
        PROVE  q[b] < q[c]
    <3>1. b # f /\ Data(b) /\ Full(b) /\ q[b] = pos[b] /\ pos[b] < Asked
      BY <1>6, <1>13, <2>7
    <3>2. CASE c = f
      BY <1>11, <3>1, <3>2
    <3>3. CASE c # f
      <4>1. Data(c) /\ bh[c].state = "BUSY" /\ q[c] = pos[c]
        BY <1>2, <1>6, <1>11, <2>7, <3>3
      <4> QED
        BY <1>3, <3>1, <4>1 DEF Safe, Served
    <3> QED
      BY <3>2, <3>3
  <2>8. ASSUME NEW b \in Heads, Data(b)', Full(b)'
        PROVE  /\ bh'[b].act = Len(bh'[b].buf) /\ bh'[b].act <= bh'[b].outlen
               /\ \A k \in 1 .. bh'[b].act : bh'[b].buf[k] = q[b] + k - 1
               /\ q[b] + bh'[b].act <= host'.moved
               /\ bh'[b].act # bh'[b].outlen \/ bh'[b].err = 1 => host'.phase # "data"
               /\ bh'[b].act # bh'[b].outlen /\ bh'[b].err = 0 => host'.moved = q[b] + bh'[b].act
    <3>1. b # f /\ Data(b) /\ Full(b) /\ q[b] = pos[b] /\ bh'[b] = bh[b]
      BY <1>2, <1>6, <1>11, <2>8
    <3> QED
      BY <1>3, <3>1 DEF Safe, Served
  <2>9. host.phase = "data" => host.moved = q[outq'[1]] /\ outq' # <<>>
    <3>1. outq' # <<>>
      BY <1>2, <1>8
    <3>2. CASE outq = <<>>
      <4>1. outq'[1] = f
        BY <1>2, <3>2
      <4> QED
        BY <1>3, <1>11, <3>1, <3>2, <4>1 DEF Safe, Served
    <3>3. CASE outq # <<>>
      <4>1. 1 \in 1 .. Len(outq)
        BY <1>8, <3>3 DEF Ranges
      <4>2. outq'[1] = outq[1] /\ q[outq[1]] = pos[outq[1]]
        BY <1>2, <2>5, <4>1
      <4> QED
        BY <1>3, <3>1, <3>3, <4>2 DEF Safe, Served
    <3> QED
      BY <3>2, <3>3
  <2> QED
    BY <2>1, <2>4, <2>6, <2>7, <2>8, <2>9 DEF Served, Data
<1> QED
  BY <1>6, <1>7, <1>9, <1>14, <1>15, <1>4

\* do_write asks for more.
LEMMA WriteRequestStep ==
    ASSUME Ranges, NEW pos \in [Heads -> Nat], Safe(pos), WriteRequest
    PROVE  Ranges' /\ \E q \in [Heads -> Nat] : Safe(q)'
<1>1. /\ pc = "write" /\ pc' = "write" /\ io.left > 0 /\ Empty(fill) /\ io.more = 1
      /\ UNCHANGED <<drain, ignore, exc, cbw, host, resets, sent, written>>
      /\ io' \in IoType /\ fsg' \in FsgType
      /\ AsksNoMore \/ \E a \in 0 .. BufLen : Asks(a)
  <2>1. Stages /\ TakenSoFar /\ Counted
    BY DEF Safe
  <2> QED
    BY <2>1, WriteAsks DEF ASIDE, HOST, UNITS
<1>2. Receiving /\ Receiving'
  BY <1>1 DEF Receiving
<1>3. /\ Asked \in Nat /\ Done \in Nat /\ cbw.dir = "out" /\ fsg.left <= cbw.size
      /\ \A b \in Heads : Full(b) => Data(b)
  BY <1>1, <1>2, Taking DEF Safe, Stages
<1>4. Sz' = Sz /\ Goal' = Goal /\ Base' = Base
  BY <1>1, SameCommand
<1>5. DataInPlace'
  BY <1>1 DEF Safe, DataInPlace
<1>6. /\ sent = <<>> /\ written = Prefix(Done) /\ Done <= host.moved
      /\ cbw.op = "write" /\ fsg.short = 0
      /\ io.off = Base + Done /\ io.left = Goal - Done
      /\ io.uoff = Base + Asked /\ io.uleft = Goal - Asked /\ Asked % Block = 0
  BY <1>1, <1>3 DEF Safe, TakenSoFar, CmdPcs
<1>7. /\ fsg.residue <= cbw.size
      /\ fsg.phase_error = 0 => ~Conflict(cbw) /\ Sz <= cbw.size
  BY <1>1 DEF Safe, Counted, CmdPcs
<1>8. CASE AsksNoMore
  <2>1. /\ UNCHANGED <<bh, fill, outq, inq, halted>>
        /\ fsg'.residue = fsg.residue /\ fsg'.left = fsg.left
        /\ fsg'.phase_error = fsg.phase_error /\ fsg'.short = fsg.short
        /\ fsg'.phase_error = 1 \/ fsg'.sense = 1
    BY <1>8 DEF AsksNoMore, QUEUES
  <2>2. io'.off = io.off /\ io'.left = io.left /\ io'.uoff = io.uoff /\ io'.uleft = io.uleft
    BY <1>8 DEF AsksNoMore, Ranges, IoType
  <2>3. Done' = Done /\ Asked' = Asked /\ ~Clean'
    BY <1>1, <2>1 DEF Done, Asked, Clean
  <2>4. Ranges'
    BY <1>1, <2>1 DEF Ranges
  <2>5. Queues' /\ Tiled(pos)'
    BY <1>1, <1>2, <2>1, <2>3 DEF Safe, Queues, Tiled, Data, NoData, Empty
  <2>6. Served(pos)'
    BY <1>1, <1>2, <2>1, <2>3 DEF Safe, Served, Data, Full
  <2>7. Exceptions' /\ Stages' /\ Phases' /\ SentSoFar' /\ Passed' /\ InOrder(pos)'
    <3>1. \A b \in Heads : Full(b)' => Data(b)'
      BY <1>3, <2>1 DEF Full, Data
    <3> QED
      BY <1>1, <1>3, <2>1, <3>1, TakesMore
  <2>8. TakenSoFar'
    <3>1. Prefix(Done)' = Prefix(Done)
      BY <1>4, <2>3 DEF Prefix
    <3> QED
      BY <1>1, <1>4, <1>6, <2>1, <2>2, <2>3, <3>1 DEF TakenSoFar
  <2>9. Counted'
    BY <1>1, <1>3, <1>4, <1>7, <2>1 DEF Counted
  <2> QED
    BY <1>5, <2>4, <2>5, <2>6, <2>7, <2>8, <2>9 DEF Safe
<1>9. ASSUME NEW a \in 0 .. BufLen, Asks(a) PROVE Ranges' /\ \E q \in [Heads -> Nat] : Safe(q)'
  <2>1. /\ a > 0 /\ a % Block = 0 /\ a <= fsg.left
        /\ io'.off = io.off /\ io'.left = io.left
        /\ io'.uoff = io.uoff + a /\ io'.uleft = io.uleft - a
        /\ io'.more = 0 => io'.uleft = 0
        /\ fsg' = [fsg EXCEPT !.left = fsg.left - a]
        /\ QueueOut(a, "data") /\ fill' = NextBh(fill)
    BY <1>9 DEF Asks
  <2>2. /\ Queues' /\ (\A b \in Heads : Full(b)' => Data(b)')
        /\ Done' = Done /\ Asked' = Asked + a
        /\ \E q \in [Heads -> Nat] : Tiled(q)' /\ Served(q)'
    BY <1>1, <2>1, Extends
  <2>3. PICK q \in [Heads -> Nat] : Tiled(q)' /\ Served(q)'
    BY <2>2
  <2>4. bh' \in [Heads -> BhType] /\ outq' \in Seq(Heads) /\ UNCHANGED <<inq, halted>> /\ fill' \in Heads
    BY <2>1, QueuesOut, Ring DEF Ranges
  <2>5. Ranges'
    BY <1>1, <2>4 DEF Ranges
  <2>6. Exceptions' /\ Stages' /\ Phases' /\ SentSoFar' /\ Passed' /\ InOrder(q)'
    BY <1>1, <1>3, <2>2, <2>4, TakesMore
  <2>7. /\ fsg'.residue = fsg.residue /\ fsg'.left = fsg.left - a
        /\ fsg'.phase_error = fsg.phase_error /\ fsg'.short = fsg.short
    BY <2>1 DEF Ranges, FsgType
  <2>8. /\ io'.uoff = Base + (Asked + a) /\ io'.uleft = Goal - (Asked + a)
        /\ (Asked + a) % Block = 0
    <3>1. a \in Nat /\ Base \in Nat /\ Goal \in Nat
      BY Numbers, Lengths
    <3>2. (Asked + a) % Block = 0
      BY <1>3, <1>6, <2>1, <3>1, ModSum, Lengths
    <3>3. io'.uoff = (Base + Asked) + a /\ io'.uleft = (Goal - Asked) - a
      BY <1>6, <2>1
    <3> QED
      BY <1>3, <3>1, <3>2, <3>3
  <2>9. TakenSoFar'
    <3>1. Prefix(Done)' = Prefix(Done)
      BY <1>4, <2>2 DEF Prefix
    <3> QED
      BY <1>1, <1>4, <1>6, <2>1, <2>2, <2>7, <2>8, <3>1 DEF TakenSoFar
  <2>10. Counted'
    <3>1. fsg.left - a <= cbw.size
      BY <1>3, <2>1, Numbers
    <3> QED
      BY <1>1, <1>4, <1>7, <2>7, <3>1 DEF Counted
  <2> QED
    BY <1>5, <2>2, <2>3, <2>5, <2>6, <2>9, <2>10 DEF Safe
<1> QED
  BY <1>1, <1>8, <1>9

\* throw_away_data asks for more.
LEMMA DiscardRequestStep ==
    ASSUME Ranges, NEW pos \in [Heads -> Nat], Safe(pos), DiscardRequest
    PROVE  Ranges' /\ \E q \in [Heads -> Nat] : Safe(q)'
<1>1. PICK a : a = Least({fsg.left, BufLen})
  OBVIOUS
<1>2. /\ pc = "throw" /\ pc' = "throw" /\ Empty(fill) /\ fsg.left > 0
      /\ QueueOut(a, "data") /\ fsg' = [fsg EXCEPT !.left = fsg.left - a] /\ fill' = NextBh(fill)
      /\ UNCHANGED <<drain, ignore, exc, io, cbw, host, resets, sent, written>>
  BY <1>1 DEF DiscardRequest, CanDiscard, ASIDE, HOST, UNITS
<1>3. a \in 0 .. BufLen /\ a > 0 /\ a <= fsg.left
  <2>1. fsg.left \in Nat /\ BufLen \in Nat /\ BufLen > 0
    BY Numbers, SizesAssumption
  <2>2. a = IF fsg.left <= BufLen THEN fsg.left ELSE BufLen
    BY <1>1, <2>1, LeastOfTwo
  <2> QED
    BY <1>2, <2>1, <2>2
<1>4. Receiving /\ Receiving'
  BY <1>2 DEF Receiving
<1>5. /\ Asked \in Nat /\ Done \in Nat /\ cbw.dir = "out" /\ fsg.left <= cbw.size
      /\ fsg.residue <= cbw.size /\ pc \in CmdPcs \ {"scsi"}
  BY <1>2, <1>4, Taking DEF Safe, Stages
<1>6. /\ Queues' /\ (\A b \in Heads : Full(b)' => Data(b)')
      /\ Done' = Done /\ Asked' = Asked + a
      /\ \E q \in [Heads -> Nat] : Tiled(q)' /\ Served(q)'
  BY <1>2, <1>3, Extends
<1>7. PICK q \in [Heads -> Nat] : Tiled(q)' /\ Served(q)'
  BY <1>6
<1>8. bh' \in [Heads -> BhType] /\ outq' \in Seq(Heads) /\ UNCHANGED <<inq, halted>> /\ fill' \in Heads
  BY <1>2, <1>3, QueuesOut, Ring DEF Ranges
<1>9. fsg.left - a \in Nat /\ fsg.left - a <= cbw.size
  BY <1>3, <1>5, Numbers, Lengths
<1>10. /\ fsg' \in FsgType /\ fsg'.residue = fsg.residue /\ fsg'.left = fsg.left - a
       /\ fsg'.phase_error = fsg.phase_error /\ fsg'.short = fsg.short /\ fsg'.sense = fsg.sense
  BY <1>2, <1>9 DEF Ranges, FsgType
<1>11. Ranges'
  BY <1>2, <1>8, <1>10 DEF Ranges
<1>12. Exceptions' /\ Stages' /\ Phases' /\ SentSoFar' /\ Passed' /\ InOrder(q)'
  BY <1>2, <1>5, <1>6, <1>8, TakesMore
<1>13. Sz' = Sz /\ Base' = Base /\ (Clean' <=> Clean)
  BY <1>2, <1>10, SameCommand DEF Clean
<1>14. TakenSoFar'
  <2>1. Prefix(Done)' = Prefix(Done)
    BY <1>6, <1>13 DEF Prefix
  <2>2. /\ sent = <<>> /\ written = Prefix(Done) /\ Done <= host.moved
        /\ Clean /\ cbw.op = "write" => Done = Sz
    BY <1>2, <1>5 DEF Safe, TakenSoFar
  <2> QED
    BY <1>2, <1>6, <1>13, <2>1, <2>2 DEF TakenSoFar
<1>15. Counted'
  BY <1>2, <1>5, <1>6, <1>9, <1>10, <1>13 DEF Safe, Counted
<1>16. DataInPlace'
  BY <1>2 DEF Safe, DataInPlace
<1> QED
  BY <1>6, <1>7, <1>11, <1>12, <1>14, <1>15, <1>16 DEF Safe

\* The buffer to drain holds data that has arrived; without it, what is queued is as
\* before.
LEMMA Drops ==
    ASSUME Ranges, NEW pos \in [Heads -> Nat], Safe(pos), Receiving, Full(drain),
           bh' = Drained, drain' = NextBh(drain), UNCHANGED <<outq, inq>>
    PROVE  /\ bh' \in [Heads -> BhType] /\ drain' \in Heads /\ Queues' /\ Data(drain)
           /\ \A b \in Heads : Full(b)' => Data(b)'
           /\ bh[drain].outlen \in Nat /\ bh[drain].act \in Nat /\ bh[drain].err \in {0, 1}
           /\ bh[drain].act <= bh[drain].outlen /\ pos[drain] + bh[drain].outlen <= Asked
           /\ bh[drain].outlen > 0
<1>1. PICK d \in Heads : d = drain
  BY DEF Ranges
<1>2. /\ bh' \in [Heads -> BhType] /\ drain' \in Heads
      /\ \A b \in Heads : b # d => bh'[b] = bh[b]
      /\ bh'[d].state = "EMPTY" /\ bh'[d].want = "none"
  BY <1>1, Drains
<1>3. Data(d) /\ \A b \in Heads : Full(b) => Data(b)
  BY <1>1, Taking
<1>4. bh[d].outlen \in Nat /\ bh[d].act \in Nat /\ bh[d].err \in {0, 1}
  <2>1. bh[d] \in BhType
    BY DEF Ranges
  <2> QED
    BY <2>1, Lengths DEF BhType
<1>5. bh[d].act <= bh[d].outlen /\ pos[d] + bh[d].outlen <= Asked /\ bh[d].outlen > 0
  BY <1>1, <1>3 DEF Safe, Served, Tiled
<1>6. Queues'
  <2>1. bh[d].state # "BUSY"
    BY <1>1 DEF Full
  <2>2. /\ \A i \in DOMAIN inq : inq[i] \in InType /\ inq[i].b \in Heads /\ inq[i].b # d
        /\ \A i \in DOMAIN outq : outq[i] \in Heads /\ outq[i] # d
    BY <2>1, InFlight DEF Safe
  <2>3. /\ \A i \in DOMAIN inq : bh'[inq[i].b].state = "BUSY" /\ bh'[inq[i].b].want # "data"
        /\ \A i \in DOMAIN outq : bh'[outq[i]].state = "BUSY" /\ bh'[outq[i]].want # "none"
    BY <1>2, <2>2 DEF Safe, Queues, Data
  <2>4. \A b \in Heads : bh'[b].want = "data" => bh'[b].state # "EMPTY"
    BY <1>2 DEF Safe, Queues, Data, Empty
  <2> QED
    BY <2>3, <2>4 DEF Safe, Queues, Data, Empty
<1>7. \A b \in Heads : Full(b)' => Data(b)'
  BY <1>2, <1>3 DEF Full, Data
<1> QED
  BY <1>1, <1>2, <1>3, <1>4, <1>5, <1>6, <1>7

\* The next buffer to drain is the one that holds what comes next.
LEMMA DropsOn ==
    ASSUME Ranges, NEW pos \in [Heads -> Nat], Safe(pos), Receiving, Full(drain),
           bh' = Drained, drain' = NextBh(drain), UNCHANGED <<fill, outq, host, cbw>>,
           fsg'.left = fsg.left, Done' \in Int,
           pc' = "write" => Done' = pos[drain] + bh[drain].outlen,
           pc' = "finish" => Done' <= pos[drain] + bh[drain].outlen
    PROVE  Tiled(pos)' /\ Served(pos)'
<1>1. PICK d \in Heads : d = drain
  BY DEF Ranges
<1>2. /\ bh' \in [Heads -> BhType] /\ drain' \in Heads
      /\ \A b \in Heads : b # d => bh'[b] = bh[b]
      /\ bh'[d].state = "EMPTY" /\ bh'[d].want = "none"
  BY <1>1, Drains
<1>3. Data(d) /\ Asked \in Nat /\ Asked' = Asked
  BY <1>1, Taking DEF Asked
<1>4. ~Data(d)' /\ ~Full(d)' /\ \A b \in Heads : b # d => (Data(b)' <=> Data(b)) /\ (Full(b)' <=> Full(b))
  BY <1>2 DEF Data, Full
<1>5. \A b \in Heads : pos[b] \in Nat /\ bh[b].outlen \in Nat
  BY Lengths DEF Ranges, BhType
<1>6. \A b \in Heads : Data(b) =>
         /\ bh[b].outlen > 0 /\ pos[b] + bh[b].outlen <= Asked /\ pos[d] <= pos[b]
         /\ \/ NextBh(b) = fill /\ pos[b] + bh[b].outlen = Asked
            \/ Data(NextBh(b)) /\ pos[NextBh(b)] = pos[b] + bh[b].outlen
  BY <1>1, <1>3 DEF Safe, Tiled, NoData
<1>7. \A b \in Heads, c \in Heads : Data(b) /\ Data(c) /\ b # c =>
         pos[b] + bh[b].outlen <= pos[c] \/ pos[c] + bh[c].outlen <= pos[b]
  BY DEF Safe, Tiled
<1>8. ASSUME NEW b \in Heads, b # d, Data(b) PROVE pos[d] + bh[d].outlen <= pos[b]
  <2>1. pos[b] \in Nat /\ pos[d] \in Nat /\ bh[b].outlen \in Nat /\ bh[d].outlen \in Nat
        /\ bh[b].outlen > 0 /\ pos[d] <= pos[b]
    BY <1>5, <1>6, <1>8
  <2>2. pos[d] + bh[d].outlen <= pos[b] \/ pos[b] + bh[b].outlen <= pos[d]
    BY <1>3, <1>7, <1>8
  <2> QED
    BY <2>1, <2>2
<1>9. PICK e \in Heads : e = NextBh(d)
  BY Ring
<1>10. drain' = e
  BY <1>1, <1>9
<1>11. IF NoData' THEN e = fill /\ pos[d] + bh[d].outlen = Asked
       ELSE e # d /\ Data(e) /\ pos[e] = pos[d] + bh[d].outlen
  <2>1. CASE e = fill /\ pos[d] + bh[d].outlen = Asked
    <3>1. ASSUME NEW b \in Heads, Data(b)' PROVE FALSE
      <4>1. b # d /\ Data(b)
        BY <1>4, <3>1
      <4>2. pos[b] \in Nat /\ bh[b].outlen \in Nat /\ bh[b].outlen > 0 /\ pos[b] + bh[b].outlen <= Asked
        BY <1>5, <1>6, <4>1
      <4>3. Asked <= pos[b]
        BY <1>8, <2>1, <4>1
      <4> QED
        BY <1>3, <4>2, <4>3
    <3> QED
      BY <2>1, <3>1 DEF NoData
  <2>2. CASE Data(e) /\ pos[e] = pos[d] + bh[d].outlen
    <3>1. e # d
      <4>1. pos[d] \in Nat /\ bh[d].outlen \in Nat /\ bh[d].outlen > 0
        BY <1>3, <1>5, <1>6
      <4> QED
        BY <2>2, <4>1
    <3>2. ~NoData'
      BY <1>4, <2>2, <3>1 DEF NoData
    <3> QED
      BY <2>2, <3>1, <3>2
  <2> QED
    BY <1>3, <1>6, <1>9, <2>1, <2>2
<1>12. Tiled(pos)'
  <2>1. ASSUME NEW b \in Heads, Data(b)'
        PROVE  /\ bh'[b].outlen > 0 /\ pos[b] + bh'[b].outlen <= Asked'
               /\ \/ NextBh(b) = fill' /\ pos[b] + bh'[b].outlen = Asked'
                  \/ Data(NextBh(b))' /\ pos[NextBh(b)] = pos[b] + bh'[b].outlen
    <3>1. b # d /\ Data(b) /\ bh'[b] = bh[b] /\ NextBh(b) \in Heads
      BY <1>2, <1>4, <2>1, Ring
    <3>2. pos[b] + bh[b].outlen # pos[d]
      <4>1. pos[b] \in Nat /\ bh[b].outlen \in Nat /\ bh[b].outlen > 0 /\ pos[d] \in Nat /\ pos[d] <= pos[b]
        BY <1>5, <1>6, <3>1
      <4> QED
        BY <4>1
    <3>3. CASE NextBh(b) = fill /\ pos[b] + bh[b].outlen = Asked
      BY <1>3, <1>6, <3>1, <3>3
    <3>4. CASE Data(NextBh(b)) /\ pos[NextBh(b)] = pos[b] + bh[b].outlen
      <4>1. NextBh(b) # d
        BY <3>2, <3>4
      <4>2. Data(NextBh(b))'
        BY <1>4, <3>1, <3>4, <4>1
      <4> QED
        BY <1>3, <1>6, <3>1, <3>4, <4>2
    <3> QED
      BY <1>6, <3>1, <3>3, <3>4
  <2>2. ASSUME NEW b \in Heads, NEW c \in Heads, Data(b)', Data(c)', b # c
        PROVE  pos[b] + bh'[b].outlen <= pos[c] \/ pos[c] + bh'[c].outlen <= pos[b]
    BY <1>2, <1>4, <1>7, <2>2
  <2>3. IF NoData' THEN drain' = fill'
        ELSE Data(e)' /\ \A b \in Heads : Data(b)' => pos[e] <= pos[b]
    <3>1. CASE NoData'
      BY <1>10, <1>11, <3>1
    <3>2. CASE ~NoData'
      <4>1. e # d /\ Data(e) /\ pos[e] = pos[d] + bh[d].outlen
        BY <1>11, <3>2
      <4>2. \A b \in Heads : Data(b)' => pos[e] <= pos[b]
        BY <1>4, <1>8, <4>1
      <4> QED
        BY <1>4, <3>2, <4>1, <4>2
    <3> QED
      BY <3>1, <3>2
  <2>4. pc' = "write" => IF NoData' THEN Done' = Asked' ELSE pos[e] = Done'
    BY <1>1, <1>3, <1>11
  <2>5. pc' = "finish" /\ ~NoData' => pos[e] >= Done'
    <3>1. SUFFICES ASSUME pc' = "finish", ~NoData' PROVE pos[e] >= Done'
      OBVIOUS
    <3>2. pos[e] = pos[d] + bh[d].outlen /\ Done' <= pos[d] + bh[d].outlen /\ Done' \in Int
      BY <1>1, <1>11, <3>1
    <3>3. pos[d] + bh[d].outlen \in Int
      BY <1>5
    <3> QED
      BY <3>2, <3>3
  <2>6. Data(e)' => Data(drain)'
    BY <1>10 DEF Data
  <2> QED
    BY <1>10, <2>1, <2>2, <2>3, <2>4, <2>5, <2>6 DEF Tiled
<1>13. Served(pos)'
  <2>1. \A i \in DOMAIN outq : outq[i] \in Heads /\ outq[i] # d
    <3>1. bh[d].state # "BUSY"
      BY <1>1 DEF Full
    <3> QED
      BY <3>1, InFlight DEF Safe
  <2>2. \A i \in DOMAIN outq : bh'[outq[i]].want = "data"
    BY <1>2, <2>1 DEF Safe, Served, Data
  <2>3. /\ \A b \in Heads : Data(b)' /\ bh'[b].state = "BUSY" => \E i \in DOMAIN outq : outq[i] = b
        /\ \A b, c \in Heads : Data(b)' /\ Data(c)' /\ Full(b)' /\ bh'[c].state = "BUSY" => pos[b] < pos[c]
    BY <1>2, <1>4 DEF Safe, Served
  <2>4. ASSUME NEW b \in Heads, Data(b)', Full(b)'
        PROVE  /\ bh'[b].act = Len(bh'[b].buf) /\ bh'[b].act <= bh'[b].outlen
               /\ \A k \in 1 .. bh'[b].act : bh'[b].buf[k] = pos[b] + k - 1
               /\ pos[b] + bh'[b].act <= host'.moved
               /\ bh'[b].act # bh'[b].outlen \/ bh'[b].err = 1 => host'.phase # "data"
               /\ bh'[b].act # bh'[b].outlen /\ bh'[b].err = 0 => host'.moved = pos[b] + bh'[b].act
    <3>1. Data(b) /\ Full(b) /\ bh'[b] = bh[b]
      BY <1>2, <1>4, <2>4
    <3> QED
      BY <3>1 DEF Safe, Served
  <2>5. /\ \A i, j \in DOMAIN outq : i < j => pos[outq[i]] < pos[outq[j]]
        /\ host.phase = "data" /\ outq # <<>> => host.moved = pos[outq[1]]
        /\ host.phase = "data" /\ outq = <<>> => host.moved = Asked
    BY DEF Safe, Served
  <2> QED
    BY <1>3, <2>2, <2>3, <2>4, <2>5 DEF Served, Data
<1> QED
  BY <1>12, <1>13

\* throw_away_data drops a buffer.
LEMMA DiscardChunkStep ==
    ASSUME Ranges, NEW pos \in [Heads -> Nat], Safe(pos), DiscardChunk
    PROVE  Ranges' /\ Safe(pos)'
<1>1. /\ pc = "throw" /\ Full(drain) /\ bh' = Drained /\ drain' = NextBh(drain)
      /\ IF StoppedEarly \/ bh[drain].err = 1 THEN pc' = "exc" /\ AbortBulkOut
         ELSE UNCHANGED <<pc, exc>>
      /\ UNCHANGED <<fill, outq, inq, halted, ignore, fsg, io, cbw, host, resets, sent, written>>
  BY DEF DiscardChunk, QUEUES, ASIDE, HOST, UNITS
<1>2. Receiving
  BY <1>1 DEF Receiving
<1>3. /\ bh' \in [Heads -> BhType] /\ drain' \in Heads /\ Queues' /\ Data(drain)
      /\ \A b \in Heads : Full(b)' => Data(b)'
  BY <1>1, <1>2, Drops
<1>4. cbw.dir = "out" /\ pc \in CmdPcs \ {"scsi"} /\ drain \in Heads
  BY <1>1 DEF Safe, Stages, CmdPcs, Ranges
<1>5. Ranges'
  BY <1>1, <1>3 DEF Ranges, AbortBulkOut
<1>6. CASE StoppedEarly \/ bh[drain].err = 1
  <2>1. host.phase # "data"
    BY <1>1, <1>2, <1>3, <1>4, <1>6 DEF Safe, Served, StoppedEarly
  <2>2. Safe(pos)'
    BY <1>1, <1>3, <1>4, <1>6, <2>1, Aborts
  <2> QED
    BY <1>5, <2>2
<1>7. CASE ~(StoppedEarly \/ bh[drain].err = 1)
  <2>1. pc' = pc /\ exc' = exc
    BY <1>1, <1>7
  <2>2. Exceptions' /\ Stages' /\ Phases' /\ SentSoFar' /\ Passed' /\ InOrder(pos)'
    BY <1>1, <1>3, <1>4, <2>1, TakesMore
  <2>3. Sz' = Sz /\ Base' = Base /\ Done' = Done /\ Done \in Int
    BY <1>1, SameCommand, Numbers
  <2>4. Tiled(pos)' /\ Served(pos)'
    BY <1>1, <1>2, <2>1, <2>3, DropsOn
  <2>5. TakenSoFar'
    <3>1. Prefix(Done)' = Prefix(Done)
      BY <2>3 DEF Prefix
    <3>2. /\ sent = <<>> /\ written = Prefix(Done) /\ Done <= host.moved
          /\ Clean /\ cbw.op = "write" => Done = Sz
      BY <1>1, <1>4 DEF Safe, TakenSoFar
    <3> QED
      BY <1>1, <2>1, <2>3, <3>1, <3>2 DEF TakenSoFar, Clean
  <2>6. Counted'
    BY <1>1, <1>4, <2>1, <2>3 DEF Safe, Counted, Clean
  <2>7. DataInPlace'
    BY <1>1 DEF Safe, DataInPlace
  <2> QED
    BY <1>3, <1>5, <2>2, <2>4, <2>5, <2>6, <2>7 DEF Safe
<1> QED
  BY <1>6, <1>7

\* do_write writes a buffer, or the part of it that the file takes.
LEMMA WriteChunkStep ==
    ASSUME Ranges, NEW pos \in [Heads -> Nat], Safe(pos), WriteChunk
    PROVE  Ranges' /\ Safe(pos)'
<1>1. /\ pc = "write" /\ io.left > 0 /\ Full(drain) /\ bh' = Drained /\ drain' = NextBh(drain)
      /\ UNCHANGED <<fill, outq, inq, halted, ignore, exc, cbw, host, resets, sent>>
  BY DEF WriteChunk, QUEUES, ASIDE, HOST
<1>2. Receiving
  BY <1>1 DEF Receiving
<1>3. /\ Asked \in Nat /\ Done \in Nat /\ exc # "abort" /\ ~CswQueued
      /\ pc \in CmdPcs \ {"scsi"} /\ fsg.left <= cbw.size /\ Asked <= cbw.size
  BY <1>2, Taking
<1>4. /\ bh' \in [Heads -> BhType] /\ drain' \in Heads /\ Queues' /\ Data(drain)
      /\ \A b \in Heads : Full(b)' => Data(b)'
      /\ bh[drain].outlen \in Nat /\ bh[drain].act \in Nat /\ bh[drain].err \in {0, 1}
      /\ bh[drain].act <= bh[drain].outlen /\ pos[drain] + bh[drain].outlen <= Asked
  BY <1>1, <1>2, Drops
<1>5. cbw.dir = "out" /\ drain \in Heads
  BY <1>1 DEF Safe, Stages, Ranges
<1>6. /\ sent = <<>> /\ written = Prefix(Done) /\ Done <= host.moved
      /\ cbw.op = "write" /\ fsg.short = 0
      /\ io.off = Base + Done /\ io.left = Goal - Done
      /\ io.uoff = Base + Asked /\ io.uleft = Goal - Asked /\ Asked % Block = 0
      /\ io.more = 0 => io.uleft = 0 \/ ~Clean
  BY <1>1, <1>3, <1>5 DEF Safe, TakenSoFar
<1>7. /\ fsg.residue <= cbw.size
      /\ fsg.phase_error = 0 => ~Conflict(cbw) /\ Sz <= cbw.size
  BY <1>1, <1>3 DEF Safe, Counted
<1>8. pos[drain] = Done
  BY <1>1, <1>2, <1>4, <1>5 DEF Safe, Tiled, NoData
<1>9. Sz' = Sz /\ Goal' = Goal /\ Base' = Base
  BY <1>1, SameCommand
<1>10. ~CswQueued' /\ Passed'
  BY <1>1, <1>3 DEF CswQueued, Passed
<1>11. CASE bh[drain].err = 1
  <2>1. pc' = "finish" /\ fsg' = [fsg EXCEPT !.sense = 1] /\ UNCHANGED <<io, written>>
    BY <1>11 DEF WriteChunk
  <2>2. /\ fsg' \in FsgType /\ fsg'.residue = fsg.residue /\ fsg'.left = fsg.left
        /\ fsg'.phase_error = fsg.phase_error /\ fsg'.short = fsg.short /\ fsg'.sense = 1
    BY <2>1 DEF Ranges, FsgType
  <2>3. Done' = Done /\ Asked' = Asked /\ ~Clean'
    BY <1>1, <2>2 DEF Done, Asked, Clean
  <2>4. Ranges'
    BY <1>1, <1>4, <2>1, <2>2 DEF Ranges
  <2>5. Exceptions' /\ Stages' /\ Phases' /\ SentSoFar' /\ InOrder(pos)'
    BY <1>1, <1>4, <1>5, <2>1, TakesMore
  <2>6. Tiled(pos)' /\ Served(pos)'
    <3>1. Done <= pos[drain] + bh[drain].outlen
      BY <1>3, <1>4, <1>8
    <3> QED
      BY <1>1, <1>2, <1>3, <2>1, <2>2, <2>3, <3>1, DropsOn
  <2>7. TakenSoFar'
    <3>1. Prefix(Done)' = Prefix(Done)
      BY <1>9, <2>3 DEF Prefix
    <3> QED
      BY <1>1, <1>6, <1>9, <2>1, <2>2, <2>3, <3>1 DEF TakenSoFar
  <2>8. Counted'
    BY <1>1, <1>3, <1>7, <1>9, <2>1, <2>2, <2>3 DEF Counted
  <2>9. DataInPlace'
    BY <1>1, <2>1 DEF Safe, DataInPlace
  <2> QED
    BY <1>4, <1>10, <2>4, <2>5, <2>6, <2>7, <2>8, <2>9 DEF Safe
<1>12. CASE bh[drain].err # 1
  <2>1. /\ bh[drain].act = Len(bh[drain].buf)
        /\ \A k \in 1 .. bh[drain].act : bh[drain].buf[k] = Done + k - 1
        /\ Done + bh[drain].act <= host.moved
        /\ bh[drain].act # bh[drain].outlen => host.phase # "data" /\ host.moved = Done + bh[drain].act
    BY <1>1, <1>2, <1>4, <1>5, <1>8, <1>12 DEF Safe, Served
  <2>2. PICK a \in Nat : a = bh[drain].act
    BY <1>4
  <2>3. PICK o \in Nat : o = bh[drain].outlen
    BY <1>4
  <2>4. Base \in Nat /\ Goal \in Nat /\ FileLen \in Nat /\ io.off \in Nat /\ io.uoff <= FileLen
        /\ io.uleft \in Nat /\ host.moved \in Nat /\ fsg.residue \in Nat /\ cbw.size \in Nat
        /\ Done = cbw.size - fsg.residue
    BY Numbers, Lengths DEF Done
  <2>5. a <= o /\ Done + o <= Asked /\ Asked <= Goal
    <3>1. Asked <= Goal
      BY <1>3, <1>6, <2>4
    <3> QED
      BY <1>4, <1>8, <2>2, <2>3, <3>1
  <2>6. Least({a, FileLen - io.off}) = a
    <3>1. io.off = Base + Done /\ io.uoff = Base + Asked
      BY <1>6
    <3>2. a <= FileLen - io.off /\ FileLen - io.off \in Int
      BY <1>3, <2>4, <2>5, <3>1
    <3> QED
      BY <3>2, LeastOfTwo
  <2>7. PICK n \in FileIO(a) :
           /\ written' = written \cup {<<io.off + k - 1, bh[drain].buf[k]>> : k \in 1 .. n}
           /\ IF exc # "none"
              THEN pc' = "exc" /\ UNCHANGED <<fsg, io>>
              ELSE /\ io' = [io EXCEPT !.off = io.off + n, !.left = io.left - n]
                   /\ fsg' = [fsg EXCEPT !.residue = fsg.residue - n,
                               !.sense = IF n < a THEN 1 ELSE fsg.sense,
                               !.short = IF n = a /\ a # o THEN 1 ELSE fsg.short]
                   /\ pc' = IF n < a \/ a # o THEN "finish" ELSE "write"
    <3>1. PICK n \in FileIO(Least({bh[drain].act, FileLen - io.off})) :
             /\ written' = written \cup {<<WriteOffset + k - 1, bh[drain].buf[k]>> : k \in 1 .. n}
             /\ IF exc # "none"
                THEN pc' = "exc" /\ UNCHANGED <<fsg, io>>
                ELSE /\ io' = [io EXCEPT !.off = @ + n, !.left = @ - n]
                     /\ fsg' = [fsg EXCEPT
                           !.residue = @ - n,
                           !.sense = IF n < Least({bh[drain].act, FileLen - io.off}) THEN 1 ELSE @,
                           !.short = IF n = Least({bh[drain].act, FileLen - io.off}) /\ StoppedEarly
                                     THEN 1 ELSE @]
                     /\ pc' = IF n < Least({bh[drain].act, FileLen - io.off}) \/ StoppedEarly
                              THEN "finish" ELSE pc
      BY <1>12 DEF WriteChunk
    <3>2. StoppedEarly <=> a # o
      BY <2>2, <2>3 DEF StoppedEarly
    <3>3. Least({bh[drain].act, FileLen - io.off}) = a
      BY <2>2, <2>6
    <3>4. n \in FileIO(a)
          /\ written' = written \cup {<<io.off + k - 1, bh[drain].buf[k]>> : k \in 1 .. n}
      BY <3>1, <3>3 DEF WriteOffset
    <3>5. CASE exc # "none"
      BY <3>1, <3>4, <3>5
    <3>6. CASE exc = "none"
      <4>1. /\ io' = [io EXCEPT !.off = @ + n, !.left = @ - n]
            /\ fsg' = [fsg EXCEPT !.residue = @ - n, !.sense = IF n < a THEN 1 ELSE @,
                                  !.short = IF n = a /\ a # o THEN 1 ELSE @]
            /\ pc' = IF n < a \/ a # o THEN "finish" ELSE "write"
        BY <1>1, <3>1, <3>2, <3>3, <3>6
      <4> QED
        BY <3>4, <3>6, <4>1
    <3> QED
      BY <3>5, <3>6
  <2>8. n \in 0 .. a /\ n \in Nat
    BY <2>7, FileIORange
  <2>9. written' = Prefix(Done + n)
    <3>1. Prefix(Done + n) = Prefix(Done) \cup {<<Base + Done + k - 1, Done + k - 1>> : k \in 1 .. n}
      BY <1>3, <2>8, PrefixGrows
    <3>2. \A k \in 1 .. n : <<io.off + k - 1, bh[drain].buf[k]>> = <<Base + Done + k - 1, Done + k - 1>>
      <4>1. SUFFICES ASSUME NEW k \in 1 .. n
                     PROVE  io.off + k - 1 = Base + Done + k - 1 /\ bh[drain].buf[k] = Done + k - 1
        OBVIOUS
      <4>2. k \in 1 .. a
        BY <2>8, <4>1
      <4> QED
        BY <1>6, <2>1, <2>2, <4>2
    <3>3. {<<io.off + k - 1, bh[drain].buf[k]>> : k \in 1 .. n} =
          {<<Base + Done + k - 1, Done + k - 1>> : k \in 1 .. n}
      BY <3>2, Zenon
    <3> QED
      BY <1>6, <2>7, <3>1, <3>3
  <2>10. written' \subseteq Nat \X Nat /\ DataInPlace'
    <3>1. \A w \in Prefix(Done + n) : \E k \in Nat : w = <<Base + k, k>>
      BY <1>3, <2>8 DEF Prefix
    <3>2. \A w \in written' : w \in Nat \X Nat /\ w[1] = Base + w[2]
      BY <2>4, <2>9, <3>1
    <3> QED
      BY <1>1, <1>6, <3>2 DEF DataInPlace, Base
  <2>11. CASE exc # "none"
    <3>1. pc' = "exc" /\ UNCHANGED <<fsg, io>> /\ exc = "reset"
      BY <1>3, <2>7, <2>11 DEF Ranges
    <3>2. Ranges'
      BY <1>1, <1>4, <2>10, <3>1 DEF Ranges
    <3>3. Safe(pos)'
      BY <1>1, <1>4, <1>10, <2>10, <3>1, Breaks
    <3> QED
      BY <3>2, <3>3
  <2>12. CASE exc = "none"
    <3>1. /\ io' = [io EXCEPT !.off = io.off + n, !.left = io.left - n]
          /\ fsg' = [fsg EXCEPT !.residue = fsg.residue - n,
                      !.sense = IF n < a THEN 1 ELSE fsg.sense,
                      !.short = IF n = a /\ a # o THEN 1 ELSE fsg.short]
          /\ pc' = IF n < a \/ a # o THEN "finish" ELSE "write"
      BY <2>7, <2>12
    <3>2. /\ io.off + n \in 0 .. FileLen /\ io.left - n \in Nat /\ fsg.residue - n \in Nat
          /\ Done + n \in Nat /\ Done + n <= Goal /\ Done + n <= host.moved
      <4>1. io.off = Base + Done /\ io.uoff = Base + Asked /\ io.left = Goal - Done
            /\ Done + a <= host.moved
        BY <1>6, <2>1, <2>2
      <4>2. n <= a /\ n <= o /\ Done + n <= Asked
        BY <1>3, <2>5, <2>8
      <4>3. io.off + n \in 0 .. FileLen /\ io.left - n \in Nat /\ Done + n <= Goal
        BY <1>3, <2>4, <2>5, <2>8, <4>1, <4>2
      <4>4. fsg.residue - n \in Nat /\ Done + n \in Nat /\ Done + n <= host.moved
        BY <1>3, <2>4, <2>8, <4>1, <4>2
      <4> QED
        BY <4>3, <4>4
    <3>3. /\ fsg' \in FsgType /\ fsg'.residue = fsg.residue - n /\ fsg'.left = fsg.left
          /\ fsg'.phase_error = fsg.phase_error
          /\ fsg'.sense = (IF n < a THEN 1 ELSE fsg.sense)
          /\ fsg'.short = (IF n = a /\ a # o THEN 1 ELSE 0)
      BY <1>6, <3>1, <3>2 DEF Ranges, FsgType
    <3>4. /\ io' \in IoType /\ io'.off = io.off + n /\ io'.left = io.left - n
          /\ io'.uoff = io.uoff /\ io'.uleft = io.uleft /\ io'.more = io.more
      BY <3>1, <3>2 DEF Ranges, IoType
    <3>5. Ranges'
      BY <1>1, <1>4, <2>10, <3>1, <3>3, <3>4 DEF Ranges
    <3>6. Done' = Done + n /\ Asked' = Asked
      <4>1. Done' = cbw.size - (fsg.residue - n) /\ Asked' = cbw.size - fsg.left
        BY <1>1, <3>3 DEF Done, Asked
      <4> QED
        BY <2>4, <2>8, <4>1 DEF Asked
    <3>7. Exceptions' /\ Stages' /\ Phases' /\ SentSoFar' /\ InOrder(pos)'
      BY <1>1, <1>4, <1>5, <3>1, TakesMore
    <3>8. Tiled(pos)' /\ Served(pos)'
      <4>1. Done' \in Int /\ Done' <= pos[drain] + bh[drain].outlen
        BY <1>3, <1>8, <2>3, <2>5, <2>8, <3>2, <3>6
      <4>2. pc' = "write" => Done' = pos[drain] + bh[drain].outlen
        BY <1>8, <2>3, <2>8, <3>1, <3>6
      <4> QED
        BY <1>1, <1>2, <3>3, <4>1, <4>2, DropsOn
    <3>9. n = a \/ n < a
      BY <2>8
    <3>10. TakenSoFar'
      <4>1. Prefix(Done)' = Prefix(Done + n)
        BY <1>9, <3>6 DEF Prefix
      <4>2. io'.off = Base + (Done + n) /\ io'.left = Goal - (Done + n)
        <5>1. io.off = Base + Done /\ io.left = Goal - Done
          BY <1>6
        <5> QED
          BY <1>3, <2>4, <2>8, <3>4, <5>1
      <4>3. pc' = "finish" /\ fsg'.short = 1 => Done + n = host.moved /\ host.phase # "data"
        BY <2>1, <2>2, <2>3, <3>3
      <4>4. pc' = "finish" /\ fsg'.short = 0 => fsg'.sense = 1
        BY <3>1, <3>3, <3>9
      <4>5. pc' = "write" => fsg'.short = 0 /\ fsg'.sense = fsg.sense
        BY <3>1, <3>3
      <4> QED
        BY <1>1, <1>6, <1>9, <2>9, <3>1, <3>2, <3>3, <3>4, <3>6, <4>1, <4>2, <4>3, <4>4, <4>5
           DEF TakenSoFar, Clean
    <3>11. Counted'
      <4>1. pc' = "finish" /\ fsg'.sense = 0 => Done + n = host.moved
        BY <2>1, <2>2, <2>3, <3>1, <3>3, <3>9
      <4>2. Done + n <= Sz
        BY <2>4, <3>2, Numbers
      <4>3. fsg.residue - n <= cbw.size
        BY <1>7, <2>4, <2>8
      <4> QED
        BY <1>1, <1>3, <1>6, <1>7, <1>9, <3>1, <3>3, <3>6, <4>1, <4>2, <4>3 DEF Counted, Clean
    <3> QED
      BY <1>4, <1>10, <2>10, <3>5, <3>7, <3>8, <3>10, <3>11 DEF Safe
  <2> QED
    BY <2>11, <2>12
<1> QED
  BY <1>11, <1>12

\* When the host sends data, the thread is taking it.
LEMMA HostAsked ==
    ASSUME Ranges, NEW pos \in [Heads -> Nat], Safe(pos), host.phase = "data", cbw.dir = "out",
           outq # <<>>
    PROVE  Receiving /\ exc = "none" /\ inq = <<>> /\ host.moved < cbw.size
<1>1. inq = <<>> /\ host.moved < cbw.size /\ cbw.form = "ok"
  BY DEF Safe, Phases
<1>2. exc = "none" /\ pc # "exc"
  BY DEF Safe, Exceptions, Ranges
<1>3. pc # "cbw"
  <2>1. SUFFICES ASSUME pc = "cbw" PROVE FALSE
    OBVIOUS
  <2>2. outq = <<fill>>
    BY <2>1 DEF Safe, Stages
  <2>3. 1 \in DOMAIN outq /\ outq[1] = fill
    BY <2>2
  <2>4. bh[fill].state = "BUSY"
    BY <2>3 DEF Safe, Queues
  <2>5. ~GotCbw
    BY <2>4 DEF GotCbw, Full
  <2> QED
    BY <1>1, <2>1, <2>5 DEF Safe, Phases, CswQueued
<1>4. Receiving
  BY <1>2, <1>3 DEF Safe, Stages, Ranges, Receiving
<1> QED
  BY <1>1, <1>2, <1>4

\* The host serves the first request with the units d, and goes on if that was all of it.
LEMMA Delivers ==
    ASSUME Ranges, NEW pos \in [Heads -> Nat], Safe(pos), host.phase = "data", cbw.dir = "out",
           outq # <<>>, NEW d \in Seq(Int), NEW err \in {0, 1}, OutDone(d, err),
           UNCHANGED <<pc, fill, drain, ignore, exc, fsg, io, cbw, resets, sent, written>>,
           Len(d) <= bh[outq[1]].outlen, \A k \in 1 .. Len(d) : d[k] = host.moved + k - 1,
           host' \in HostType, host'.moved = host.moved + Len(d), host'.phase \in {"data", "csw"},
           host'.phase = "data" =>
              Len(d) = bh[outq[1]].outlen /\ err = 0 /\ host'.moved < cbw.size
    PROVE  Ranges' /\ Safe(pos)'
<1>1. Receiving /\ exc = "none" /\ inq = <<>> /\ host.moved < cbw.size
  BY HostAsked
<1>2. /\ Asked \in Nat /\ Done \in Nat /\ Done <= host.moved /\ cbw.form = "ok" /\ cbw \in Cbws
      /\ pc \in CmdPcs \ {"scsi"} /\ (\A b \in Heads : Full(b) => Data(b))
  BY <1>1, Taking
<1>3. DOMAIN outq = 1 .. Len(outq) /\ Len(outq) \in Nat /\ Len(outq) > 0 /\ 1 \in 1 .. Len(outq)
      /\ \A i \in 1 .. Len(outq) : outq[i] \in Heads
  BY DEF Ranges
<1>4. PICK h \in Heads : h = outq[1]
  BY <1>3
<1>5. bh[h].outlen \in Nat /\ bh[h].outlen <= BufLen /\ Len(d) \in Nat /\ Len(d) <= BufLen
      /\ host.moved \in Nat
  <2>1. bh[h] \in BhType
    BY DEF Ranges
  <2>2. bh[h].outlen \in 0 .. BufLen
    BY <2>1 DEF BhType
  <2>3. Len(d) \in Nat /\ Len(d) <= bh[h].outlen
    BY <1>4
  <2>4. BufLen \in Nat /\ host.moved \in Nat
    BY Lengths, Numbers
  <2> QED
    BY <2>2, <2>3, <2>4
<1>6. /\ bh' \in [Heads -> BhType] /\ outq' \in Seq(Heads) /\ UNCHANGED <<inq, halted>>
      /\ \A b \in Heads : b # h => bh'[b] = bh[b]
      /\ bh'[h].state = "FULL" /\ bh'[h].want = bh[h].want
      /\ bh'[h].buf = d /\ bh'[h].act = Len(d) /\ bh'[h].err = err
      /\ bh'[h].outlen = bh[h].outlen
      /\ Len(outq') = Len(outq) - 1
      /\ \A i \in 1 .. Len(outq) - 1 : outq'[i] = outq[i + 1]
  BY <1>4, <1>5, OutFinishes
<1>7. Ranges'
  BY <1>6 DEF Ranges
<1>8. /\ bh[h].state = "BUSY" /\ Data(h) /\ pos[h] = host.moved
      /\ \A i \in 1 .. Len(outq) : outq[i] = h => i = 1
  BY <1>1, <1>3, <1>4 DEF Safe, Queues, Served
<1>9. \A b \in Heads : /\ Data(b)' <=> Data(b)
                       /\ bh'[b].outlen = bh[b].outlen
                       /\ bh'[b].state = "BUSY" <=> bh[b].state = "BUSY" /\ b # h
                       /\ Full(b)' <=> Full(b) \/ b = h
  BY <1>6 DEF Data, Full
<1>10. Full(h)' /\ ~Full(h)
  BY <1>6, <1>8 DEF Full
<1>11. DOMAIN outq' = 1 .. Len(outq) - 1
       /\ \A i \in 1 .. Len(outq) - 1 : i + 1 \in 1 .. Len(outq) /\ outq'[i] = outq[i + 1] /\ outq'[i] # h
  <2>1. DOMAIN outq' = 1 .. Len(outq) - 1
    BY <1>3, <1>6
  <2>2. \A i \in 1 .. Len(outq) - 1 : i + 1 \in 1 .. Len(outq) /\ i + 1 # 1
    BY <1>3
  <2> QED
    BY <1>6, <1>8, <2>1, <2>2
<1>12. Queues'
  <2>1. \A i \in DOMAIN outq' : bh'[outq'[i]].state = "BUSY" /\ bh'[outq'[i]].want # "none"
    <3>1. \A i \in 1 .. Len(outq) : bh[outq[i]].state = "BUSY" /\ bh[outq[i]].want # "none"
      BY <1>3 DEF Safe, Queues
    <3>2. ASSUME NEW i \in 1 .. Len(outq) - 1
          PROVE  bh'[outq'[i]].state = "BUSY" /\ bh'[outq'[i]].want # "none"
      <4>1. i + 1 \in 1 .. Len(outq) /\ outq'[i] = outq[i + 1] /\ outq'[i] # h
        BY <1>11
      <4>2. outq'[i] \in Heads
        BY <1>3, <4>1
      <4>3. bh'[outq'[i]] = bh[outq'[i]]
        BY <1>6, <4>1, <4>2
      <4> QED
        BY <3>1, <4>1, <4>3
    <3> QED
      BY <1>11, <3>2
  <2>2. \A i, j \in DOMAIN outq' : outq'[i] = outq'[j] => i = j
    <3>1. \A i, j \in 1 .. Len(outq) : outq[i] = outq[j] => i = j
      BY <1>3 DEF Safe, Queues
    <3>2. ASSUME NEW i \in 1 .. Len(outq) - 1, NEW j \in 1 .. Len(outq) - 1, outq'[i] = outq'[j] PROVE i = j
      <4>1. i + 1 = j + 1
        BY <1>11, <3>1, <3>2
      <4> QED
        BY <1>3, <4>1
    <3> QED
      BY <1>11, <3>2
  <2>3. \A b \in Heads : Data(b)' => ~Empty(b)'
    BY <1>6, <1>9 DEF Safe, Queues, Empty
  <2>4. \A i \in DOMAIN inq' : FALSE
    BY <1>1, <1>6
  <2> QED
    BY <2>1, <2>2, <2>3, <2>4 DEF Queues
<1>13. Receiving'
  BY <1>1 DEF Receiving
<1>14. Sz' = Sz /\ Goal' = Goal /\ Base' = Base /\ Done' = Done /\ Asked' = Asked
  BY SameCommand
<1>15. Tiled(pos)'
  <2>1. NoData' <=> NoData
    BY <1>9 DEF NoData
  <2>2. Data(drain)' <=> Data(drain)
    BY <1>6, <1>9 DEF Data, Ranges
  <2>3. \A b \in Heads : Data(NextBh(b))' <=> Data(NextBh(b))
    BY <1>9, Ring
  <2> QED
    BY <1>1, <1>9, <1>14, <2>1, <2>2, <2>3 DEF Safe, Tiled
<1>16. /\ \A b \in Heads : Data(b) =>
             /\ bh[b].outlen > 0 /\ pos[b] + bh[b].outlen <= Asked
             /\ \/ NextBh(b) = fill /\ pos[b] + bh[b].outlen = Asked
                \/ Data(NextBh(b)) /\ pos[NextBh(b)] = pos[b] + bh[b].outlen
       /\ \A b \in Heads, c \in Heads : Data(b) /\ Data(c) /\ b # c =>
             pos[b] + bh[b].outlen <= pos[c] \/ pos[c] + bh[c].outlen <= pos[b]
       /\ \A b \in Heads : pos[b] \in Nat /\ bh[b].outlen \in Nat
  <2>1. \A b \in Heads : pos[b] \in Nat /\ bh[b].outlen \in Nat
    BY Lengths DEF Ranges, BhType
  <2> QED
    BY <1>1, <2>1 DEF Safe, Tiled
<1>17. /\ \A i \in 1 .. Len(outq) : Data(outq[i])
       /\ \A i, j \in 1 .. Len(outq) : i < j => pos[outq[i]] < pos[outq[j]]
       /\ \A b \in Heads : Data(b) /\ bh[b].state = "BUSY" => \E i \in 1 .. Len(outq) : outq[i] = b
       /\ \A b, c \in Heads : Data(b) /\ Data(c) /\ Full(b) /\ bh[c].state = "BUSY" => pos[b] < pos[c]
  BY <1>1, <1>3 DEF Safe, Served
<1>18. ASSUME NEW b \in Heads, Data(b), Data(h), b # h, pos[b] > pos[h]
       PROVE  pos[h] + bh[h].outlen <= pos[b]
  <2>1. pos[b] \in Nat /\ pos[h] \in Nat /\ bh[b].outlen \in Nat
    BY <1>16
  <2>2. pos[h] + bh[h].outlen <= pos[b] \/ pos[b] + bh[b].outlen <= pos[h]
    BY <1>16, <1>18
  <2> QED
    BY <1>18, <2>1, <2>2
<1>19. IF Len(outq) = 1 THEN pos[h] + bh[h].outlen = Asked
       ELSE pos[outq[2]] = pos[h] + bh[h].outlen
  <2>1. CASE NextBh(h) = fill /\ pos[h] + bh[h].outlen = Asked
    <3>1. CASE Len(outq) = 1
      BY <2>1, <3>1
    <3>2. CASE Len(outq) # 1
      <4>1. 2 \in 1 .. Len(outq) /\ 1 < 2
        BY <1>3, <3>2
      <4>2. PICK c \in Heads : c = outq[2]
        BY <1>3, <4>1
      <4>3. Data(c) /\ pos[h] < pos[c] /\ c # h
        BY <1>3, <1>4, <1>8, <1>17, <4>1, <4>2
      <4>4. pos[c] \in Nat /\ pos[h] \in Nat
        BY <1>16
      <4>5. Asked <= pos[c]
        BY <1>8, <1>18, <2>1, <4>3, <4>4
      <4>6. bh[c].outlen \in Nat /\ bh[c].outlen > 0 /\ pos[c] + bh[c].outlen <= Asked
        BY <1>16, <4>3
      <4> QED
        BY <1>2, <4>4, <4>5, <4>6
    <3> QED
      BY <3>1, <3>2
  <2>2. CASE Data(NextBh(h)) /\ pos[NextBh(h)] = pos[h] + bh[h].outlen
    <3>1. PICK e \in Heads : e = NextBh(h)
      BY Ring
    <3>2. pos[e] \in Nat /\ pos[h] \in Nat /\ bh[h].outlen \in Nat /\ bh[h].outlen > 0
          /\ pos[e] = pos[h] + bh[h].outlen /\ Data(e)
      BY <1>8, <1>16, <2>2, <3>1
    <3>3. pos[h] < pos[e] /\ ~(pos[e] < pos[h])
      BY <3>2
    <3>4. bh[e].state = "BUSY"
      <4>1. ~Full(e)
        BY <1>8, <1>17, <3>2, <3>3
      <4>2. ~Empty(e)
        BY <3>2 DEF Safe, Queues
      <4>3. bh[e] \in BhType
        BY DEF Ranges
      <4> QED
        BY <4>1, <4>2, <4>3 DEF Full, Empty, BhType
    <3>5. PICK j \in 1 .. Len(outq) : outq[j] = e
      BY <1>17, <3>2, <3>4
    <3>6. j # 1 /\ e # h
      BY <1>4, <3>3, <3>5
    <3>7. 2 \in 1 .. Len(outq) /\ Len(outq) # 1 /\ (j = 2 \/ 2 < j) /\ 1 < 2
      BY <1>3, <3>6
    <3>8. CASE j = 2
      BY <3>2, <3>5, <3>7, <3>8
    <3>9. CASE 2 < j
      <4>1. PICK c \in Heads : c = outq[2]
        BY <1>3, <3>7
      <4>2. Data(c) /\ pos[h] < pos[c] /\ pos[c] < pos[e] /\ c # h
        BY <1>3, <1>4, <1>8, <1>17, <3>5, <3>7, <3>9, <4>1
      <4>3. pos[h] + bh[h].outlen <= pos[c] /\ pos[c] \in Nat
        BY <1>8, <1>16, <1>18, <4>2
      <4> QED
        BY <3>2, <4>2, <4>3
    <3> QED
      BY <3>7, <3>8, <3>9
  <2> QED
    BY <1>8, <1>16, <2>1, <2>2
<1>20. Served(pos)'
  <2>1. ASSUME NEW b \in Heads, Data(b)', bh'[b].state = "BUSY"
        PROVE  \E i \in DOMAIN outq' : outq'[i] = b
    <3>1. PICK i \in 1 .. Len(outq) : outq[i] = b
      BY <1>9, <1>17, <2>1
    <3>2. i # 1
      BY <1>4, <1>9, <2>1, <3>1
    <3>3. i - 1 \in 1 .. Len(outq) - 1 /\ (i - 1) + 1 = i
      BY <1>3, <3>1, <3>2
    <3>4. outq'[i - 1] = outq[(i - 1) + 1]
      BY <1>11, <3>3
    <3> QED
      BY <1>11, <3>1, <3>3, <3>4
  <2>2. \A i \in DOMAIN outq' : bh'[outq'[i]].want = "data"
    <3>1. ASSUME NEW i \in 1 .. Len(outq) - 1 PROVE bh'[outq'[i]].want = "data"
      <4>1. i + 1 \in 1 .. Len(outq) /\ outq'[i] = outq[i + 1]
        BY <1>11
      <4>2. outq'[i] \in Heads /\ Data(outq[i + 1])
        BY <1>3, <1>17, <4>1
      <4> QED
        BY <1>6, <4>1, <4>2 DEF Data
    <3> QED
      BY <1>11, <3>1
  <2>3. ASSUME NEW i \in DOMAIN outq', NEW j \in DOMAIN outq', i < j
        PROVE  pos[outq'[i]] < pos[outq'[j]]
    <3>1. i + 1 \in 1 .. Len(outq) /\ j + 1 \in 1 .. Len(outq) /\ i + 1 < j + 1
      BY <1>3, <1>11, <2>3
    <3> QED
      BY <1>11, <1>17, <3>1
  <2>4. ASSUME NEW b \in Heads, NEW c \in Heads, Data(b)', Data(c)', Full(b)', bh'[c].state = "BUSY"
        PROVE  pos[b] < pos[c]
    <3>1. Data(c) /\ bh[c].state = "BUSY" /\ c # h
      BY <1>9, <2>4
    <3>2. CASE b = h
      <4>1. PICK i \in 1 .. Len(outq) : outq[i] = c
        BY <1>17, <3>1
      <4>2. 1 < i
        BY <1>3, <1>4, <3>1, <4>1
      <4> QED
        BY <1>3, <1>4, <1>17, <3>2, <4>1, <4>2
    <3>3. CASE b # h
      BY <1>9, <1>17, <2>4, <3>1, <3>3
    <3> QED
      BY <3>2, <3>3
  <2>5. ASSUME NEW b \in Heads, Data(b)', Full(b)'
        PROVE  /\ bh'[b].act = Len(bh'[b].buf) /\ bh'[b].act <= bh'[b].outlen
               /\ \A k \in 1 .. bh'[b].act : bh'[b].buf[k] = pos[b] + k - 1
               /\ pos[b] + bh'[b].act <= host'.moved
               /\ bh'[b].act # bh'[b].outlen \/ bh'[b].err = 1 => host'.phase # "data"
               /\ bh'[b].act # bh'[b].outlen /\ bh'[b].err = 0 => host'.moved = pos[b] + bh'[b].act
    <3>1. CASE b = h
      <4>1. /\ bh'[b].act = Len(d) /\ bh'[b].buf = d /\ bh'[b].err = err
            /\ bh'[b].outlen = bh[outq[1]].outlen /\ pos[b] = host.moved
        BY <1>4, <1>6, <1>8, <3>1
      <4>2. pos[b] + bh'[b].act = host'.moved /\ host'.moved \in Nat
        BY <1>5, <4>1
      <4> QED
        BY <1>5, <4>1, <4>2
    <3>2. CASE b # h
      <4>1. Data(b) /\ Full(b) /\ bh'[b] = bh[b]
        BY <1>6, <1>9, <2>5, <3>2
      <4>2. /\ bh[b].act = Len(bh[b].buf) /\ bh[b].act <= bh[b].outlen
            /\ \A k \in 1 .. bh[b].act : bh[b].buf[k] = pos[b] + k - 1
            /\ pos[b] + bh[b].act <= host.moved
            /\ bh[b].act = bh[b].outlen /\ bh[b].err # 1
        BY <1>1, <4>1 DEF Safe, Served
      <4>3. pos[b] + bh[b].act <= host'.moved
        <5>1. bh[b].act \in Nat /\ pos[b] \in Nat
          BY <1>16, <4>2
        <5> QED
          BY <1>5, <4>2, <5>1
      <4> QED
        BY <4>1, <4>2, <4>3
    <3> QED
      BY <3>1, <3>2
  <2>6. host'.phase = "data" => IF outq' = <<>> THEN host'.moved = Asked ELSE host'.moved = pos[outq'[1]]
    <3>1. SUFFICES ASSUME host'.phase = "data"
                   PROVE  IF outq' = <<>> THEN host'.moved = Asked ELSE host'.moved = pos[outq'[1]]
      OBVIOUS
    <3>2. host'.moved = pos[h] + bh[h].outlen
      BY <1>4, <1>8, <3>1
    <3>3. outq' = <<>> <=> Len(outq) = 1
      BY <1>3, <1>6
    <3>4. Len(outq) # 1 => outq'[1] = outq[2]
      <4>1. Len(outq) # 1 => 1 \in 1 .. Len(outq) - 1
        BY <1>3
      <4>2. 1 \in 1 .. Len(outq) - 1 => outq'[1] = outq[1 + 1]
        BY <1>6
      <4> QED
        BY <4>1, <4>2
    <3> QED
      BY <1>19, <3>2, <3>3, <3>4
  <2> QED
    BY <1>14, <2>1, <2>2, <2>3, <2>4, <2>5, <2>6 DEF Served, Data
<1>21. ~GotCbw' /\ ~CswQueued' /\ pc \notin {"get", "cbw", "scsi"}
  BY <1>1, <1>6 DEF GotCbw, CswQueued, Receiving
<1>22. Exceptions' /\ InOrder(pos)' /\ SentSoFar' /\ Passed' /\ DataInPlace'
  <2>1. Exceptions'
    BY <1>1, <1>2 DEF Exceptions, CmdPcs
  <2> QED
    BY <1>21, <2>1 DEF Safe, InOrder, SentSoFar, Passed, DataInPlace
<1>23. Stages'
  <2>1. \A b \in Heads : Full(b)' => Data(b)'
    BY <1>2, <1>8, <1>9
  <2>2. pc \in {"write", "throw", "finish"}
    BY <1>1 DEF Receiving
  <2> QED
    BY <1>2, <1>21, <2>1, <2>2 DEF Stages
<1>24. Phases'
  <2>1. \A i \in DOMAIN inq' : FALSE
    BY <1>1, <1>6
  <2>2. "out" \notin halted /\ ignore = 0 /\ "in" \notin halted
    BY <1>2 DEF Safe, Phases
  <2> QED
    BY <1>1, <1>2, <1>6, <1>21, <2>1, <2>2 DEF Phases
<1>25. pc # "write" => fsg.short = 0 \/ pc = "throw"
  BY <1>1, <1>2 DEF Safe, TakenSoFar, Ranges, FsgType, Receiving
<1>26. TakenSoFar'
  <2>1. Prefix(Done)' = Prefix(Done)
    BY <1>14 DEF Prefix
  <2>2. Done <= host'.moved
    BY <1>2, <1>5
  <2>3. pc # "status"
    BY <1>1 DEF Receiving
  <2> QED
    BY <1>2, <1>14, <1>25, <2>1, <2>2, <2>3 DEF Safe, TakenSoFar, Clean
<1>27. Counted'
  <2>1. pc # "write" /\ Clean /\ cbw.op = "write" => Done = Sz
    BY <1>1, <1>2, <1>25 DEF Safe, TakenSoFar, Receiving
  <2>2. pc \in {"write", "throw", "finish"}
    BY <1>1 DEF Receiving
  <2>3. Clean' <=> Clean
    BY DEF Clean
  <2> QED
    BY <1>2, <1>14, <2>1, <2>2, <2>3 DEF Safe, Counted
<1> QED
  BY <1>7, <1>12, <1>15, <1>20, <1>22, <1>23, <1>24, <1>26, <1>27 DEF Safe

\* The host sends data, all of it or less.
LEMMA HostSendsDataStep ==
    ASSUME Ranges, NEW pos \in [Heads -> Nat], Safe(pos), HostSendsData
    PROVE  Ranges' /\ Safe(pos)'
<1>1. /\ host.phase = "data" /\ cbw.dir = "out" /\ outq # <<>>
      /\ UNCHANGED <<pc, fill, drain, ignore, exc, fsg, io, cbw, resets, sent, written>>
  BY DEF HostSendsData, THREAD, UNITS
<1>2. Receiving /\ host.moved < cbw.size
  BY <1>1, HostAsked
<1>3. outq[1] \in Heads /\ Head(outq) = outq[1] /\ 1 \in DOMAIN outq
  BY <1>1 DEF Ranges
<1>4. PICK o \in Nat : o = bh[outq[1]].outlen
  <2>1. bh[outq[1]] \in BhType
    BY <1>3 DEF Ranges
  <2> QED
    BY <2>1, Lengths DEF BhType
<1>5. host.moved \in Nat /\ cbw.size \in Nat /\ host.moved + o <= cbw.size
  <2>1. Data(outq[1]) /\ host.moved = pos[outq[1]]
    BY <1>1, <1>2, <1>3 DEF Safe, Served
  <2>2. pos[outq[1]] + o <= Asked
    BY <1>2, <1>3, <1>4, <2>1 DEF Safe, Tiled
  <2>3. Asked <= cbw.size /\ Asked \in Nat
    BY <1>2, Taking
  <2>4. host.moved \in Nat /\ cbw.size \in Nat
    BY Numbers
  <2> QED
    BY <2>1, <2>2, <2>3, <2>4
<1>6. Least({o, cbw.size - host.moved}) = o
  <2>1. o <= cbw.size - host.moved /\ cbw.size - host.moved \in Int
    BY <1>5
  <2> QED
    BY <2>1, LeastOfTwo
<1>7. PICK k \in {o} \cup (IF "short" \in Faults THEN 0 .. o - 1 ELSE {}) :
         /\ OutDone([i \in 1 .. k |-> host.moved + i - 1], 0)
         /\ host' = [host EXCEPT !.moved = @ + k,
                                 !.phase = IF k < o \/ host.moved + k = cbw.size THEN "csw" ELSE "data"]
  <2> DEFINE n == Least({bh[Head(outq)].outlen, cbw.size - host.moved})
  <2>1. PICK k \in {n} \cup (IF "short" \in Faults THEN 0 .. n - 1 ELSE {}) :
           /\ OutDone([i \in 1 .. k |-> host.moved + i - 1], 0)
           /\ host' = [host EXCEPT !.moved = @ + k,
                                   !.phase = IF k < n \/ host.moved + k = cbw.size THEN "csw" ELSE "data"]
    BY DEF HostSendsData
  <2>2. n = o
    BY <1>3, <1>4, <1>6
  <2> HIDE DEF n
  <2> QED
    BY <2>1, <2>2
<1>8. k \in Nat /\ k <= o
  BY <1>4, <1>7
<1>9. PICK d : d = [i \in 1 .. k |-> host.moved + i - 1]
  OBVIOUS
<1>10. d \in Seq(Int) /\ Len(d) = k /\ \A i \in 1 .. Len(d) : d[i] = host.moved + i - 1
  <2>1. \A i \in 1 .. k : host.moved + i - 1 \in Int
    BY <1>5, <1>8
  <2> QED
    BY <1>8, <1>9, <2>1
<1>11. /\ host' \in HostType /\ host'.moved = host.moved + k
       /\ host'.phase = IF k < o \/ host.moved + k = cbw.size THEN "csw" ELSE "data"
  <2>1. host \in HostType /\ host.moved + k \in Nat
    BY <1>5, <1>8 DEF Ranges
  <2> QED
    BY <1>7, <2>1 DEF HostType
<1>12. /\ host'.phase \in {"data", "csw"} /\ Len(d) <= o
       /\ host'.phase = "data" => Len(d) = o /\ host'.moved < cbw.size
  <2>1. Len(d) = k
    BY <1>10
  <2>2. host'.phase = "data" => k = o /\ host'.moved < cbw.size
    <3>1. host'.phase = "data" => ~(k < o) /\ host.moved + k # cbw.size /\ host'.moved = host.moved + k
      BY <1>11
    <3> QED
      BY <1>5, <1>8, <3>1
  <2> QED
    BY <1>8, <1>11, <2>1, <2>2
<1> QED
  BY <1>1, <1>4, <1>7, <1>9, <1>10, <1>11, <1>12, Delivers

\* A transfer from the host fails.
LEMMA DataLostStep ==
    ASSUME Ranges, NEW pos \in [Heads -> Nat], Safe(pos), DataLost
    PROVE  Ranges' /\ Safe(pos)'
<1>1. /\ host.phase = "data" /\ cbw.dir = "out" /\ outq # <<>> /\ OutDone(<<>>, 1)
      /\ host' = [host EXCEPT !.phase = "csw"]
      /\ UNCHANGED <<pc, fill, drain, ignore, exc, fsg, io, cbw, resets, sent, written>>
  BY DEF DataLost, THREAD, UNITS
<1>2. PICK d \in Seq(Int) : d = <<>>
  <2>1. <<>> \in Seq(Int)
    OBVIOUS
  <2> QED
    BY <2>1
<1>3. host \in HostType /\ host' \in HostType /\ host'.phase = "csw" /\ host'.moved = host.moved
      /\ host.moved \in Nat
  BY <1>1 DEF Ranges, HostType
<1>4. Len(d) = 0 /\ host'.moved = host.moved + Len(d) /\ \A i \in 1 .. Len(d) : d[i] = host.moved + i - 1
  BY <1>2, <1>3
<1>5. Len(d) <= bh[outq[1]].outlen
  <2>1. outq[1] \in Heads
    BY <1>1 DEF Ranges
  <2>2. bh[outq[1]] \in BhType
    BY <2>1 DEF Ranges
  <2>3. bh[outq[1]].outlen \in Nat
    BY <2>2, Lengths DEF BhType
  <2> QED
    BY <1>4, <2>3
<1>6. OutDone(d, 1)
  BY <1>1, <1>2
<1> QED
  BY <1>1, <1>3, <1>4, <1>5, <1>6, Delivers

-----------------------------------------------------------------------------
(* The theorems.                                                           *)

\* The inductive invariant holds initially,
LEMMA InitInv == Init => IInv
<1> SUFFICES ASSUME Init PROVE IInv
  OBVIOUS
<1>1. Ranges
  <2>1. EmptyBh \in BhType
    <3>1. 0 \in 0 .. BufLen /\ <<>> \in Seq(Int)
      BY Lengths
    <3> QED
      BY <3>1 DEF EmptyBh, BhType
  <2>2. bh \in [Heads -> BhType]
    BY <2>1 DEF Init
  <2>3. fsg \in FsgType
    BY DEF Init, FsgType
  <2>4. io \in IoType
    <3>1. 0 \in 0 .. FileLen /\ 0 \in 0 .. BufLen
      BY Lengths
    <3> QED
      BY <3>1 DEF Init, IoType
  <2>5. host \in HostType /\ resets \in 0 .. MaxReset
    <3>1. 0 \in 0 .. MaxCmd /\ 0 \in 0 .. MaxReset
      BY SizesAssumption
    <3> QED
      BY <3>1 DEF Init, HostType
  <2>6. outq \in Seq(Heads) /\ inq \in Seq(InType) /\ sent \in Seq(Int)
    BY DEF Init
  <2> QED
    BY <2>2, <2>3, <2>4, <2>5, <2>6, Ring DEF Init, Ranges
<1>2. PICK pos \in [Heads -> Nat] : pos = [b \in Heads |-> 0]
  OBVIOUS
<1>3. /\ pc = "get" /\ exc = "none" /\ inq = <<>> /\ outq = <<>> /\ sent = <<>> /\ written = {}
      /\ host.phase = "cbw" /\ halted = {} /\ ignore = 0
      /\ \A b \in Heads : bh[b].state = "EMPTY" /\ bh[b].want = "none"
  BY DEF Init, EmptyBh
<1>4. Exceptions /\ Queues /\ ~GotCbw /\ ~CswQueued
  BY <1>3 DEF Exceptions, Queues, GotCbw, CswQueued, Data
<1>5. Stages /\ Phases /\ InOrder(pos) /\ Passed
  BY <1>3, <1>4 DEF Stages, Phases, InOrder, Passed, CmdPcs, NoData, Data, Full
<1>6. Tiled(pos) /\ Served(pos) /\ SentSoFar /\ TakenSoFar /\ Counted
  BY <1>3 DEF Tiled, Served, SentSoFar, TakenSoFar, Counted, Receiving, CmdPcs
<1>7. DataInPlace
  BY <1>3 DEF DataInPlace
<1>8. Tagged
  BY <1>3, SizesAssumption DEF Init, Tagged, CmdPcs
<1> QED
  BY <1>1, <1>4, <1>5, <1>6, <1>7, <1>8 DEF IInv, Safe

\* Nothing happens.
LEMMA Stutters ==
    ASSUME Ranges, NEW pos \in [Heads -> Nat], Safe(pos), UNCHANGED vars
    PROVE  Ranges' /\ Safe(pos)'
<1>1. UNCHANGED <<pc, bh, fill, drain, outq, inq, halted, ignore, exc, fsg, io, cbw, host, sent, written, resets>>
  BY DEF vars
<1>2. Ranges'
  BY <1>1 DEF Ranges
<1>3. Exceptions' /\ Queues' /\ Stages'
  BY <1>1 DEF Safe, Exceptions, Queues, Stages, Data, NoData, Full, Empty, GotCbw
<1>4. Phases'
  BY <1>1 DEF Safe, Phases, CswQueued, GotCbw, Full, Sending
<1>5. InOrder(pos)'
  BY <1>1 DEF Safe, InOrder, Sending, GotCbw, Full, Ending
<1>6. Done' = Done /\ Asked' = Asked /\ Sz' = Sz /\ Goal' = Goal /\ Base' = Base
  BY <1>1, SameCommand
<1>7. Tiled(pos)'
  BY <1>1, <1>6 DEF Safe, Tiled, Receiving, Data, NoData
<1>8. Served(pos)'
  BY <1>1, <1>6 DEF Safe, Served, Receiving, Data, Full
<1>9. SentSoFar'
  BY <1>1, <1>6 DEF Safe, SentSoFar, PaddedFrom, Full, Empty
<1>10. TakenSoFar'
  BY <1>1, <1>6 DEF Safe, TakenSoFar, Prefix, Clean
<1>11. Counted' /\ Passed' /\ DataInPlace'
  BY <1>1, <1>6 DEF Safe, Counted, Passed, DataInPlace, Clean, CswQueued
<1> QED
  BY <1>2, <1>3, <1>4, <1>5, <1>7, <1>8, <1>9, <1>10, <1>11 DEF Safe

\* The saved tag: the host has no other command while the device works on one.
LEMMA TaggedStep ==
    ASSUME Ranges, Exceptions, Phases, Tagged, [Next]_vars
    PROVE  Tagged'
<1>1. tag \in 0 .. MaxCmd /\ host.tag \in 0 .. MaxCmd
  BY DEF Tagged, Ranges, HostType
<1>2. CASE ReceivedCbw
  <2>1. /\ tag' = host.tag \/ (tag' = tag /\ pc' = "get")
        /\ pc = "cbw" /\ pc' \in {"scsi", "get"} /\ UNCHANGED <<exc, host>>
    BY <1>2 DEF ReceivedCbw, HOST
  <2>2. exc # "abort"
    BY <2>1 DEF Exceptions
  <2> QED
    BY <1>1, <2>1, <2>2 DEF Tagged, CmdPcs
<1>3. ASSUME NEW c \in Cbws, HostSendsCbw(c) PROVE Tagged'
  <2>1. pc \in {"get", "cbw"} /\ UNCHANGED <<pc, exc, tag>>
    BY <1>3 DEF HostSendsCbw, THREAD, Phases
  <2>2. exc # "abort"
    BY <2>1 DEF Exceptions
  <2> QED
    BY <1>1, <2>1, <2>2 DEF Tagged, CmdPcs
<1>4. ASSUME UNCHANGED tag, host'.tag = host.tag,
             pc' \in CmdPcs \/ exc' = "abort" => pc \in CmdPcs \/ exc = "abort"
      PROVE  Tagged'
  BY <1>1, <1>4 DEF Tagged
<1>5. CASE UNCHANGED vars \/ Interrupted \/ RequestCbw \/ DoScsiCommand
  <2>1. UNCHANGED <<tag, host, exc>> /\ (pc' \in CmdPcs => pc \in CmdPcs)
    BY <1>5 DEF vars, Interrupted, RequestCbw, DoScsiCommand, Goto, ASIDE, HOST, CmdPcs
  <2> QED
    BY <1>4, <2>1
<1>6. CASE HandleException
  <2>1. UNCHANGED tag /\ host'.tag = host.tag /\ exc' = "none" /\ (pc' \in CmdPcs => exc = "abort")
    BY <1>6 DEF HandleException, Goto, CmdPcs, Ranges, HostType
  <2> QED
    BY <1>4, <2>1
<1>7. CASE \/ ReadChunk \/ WriteRequest \/ WriteChunk \/ WriteEnds
           \/ FinishToHost \/ FinishFromHost \/ HaltBulkIn \/ PadWithZeros \/ PadEnds
           \/ DiscardChunk \/ DiscardRequest \/ DiscardEnds \/ SendStatus
  <2>1. UNCHANGED <<tag, host>>
    BY <1>7 DEF ReadChunk, WriteRequest, WriteChunk, WriteEnds, FinishToHost, FinishFromHost, HaltBulkIn,
       PadWithZeros, PadEnds, DiscardChunk, DiscardRequest, DiscardEnds, SendStatus, ASIDE, HOST
  <2>2. pc \in CmdPcs
    BY <1>7 DEF ReadChunk, WriteRequest, WriteChunk, WriteEnds, FinishToHost, FinishFromHost, HaltBulkIn,
       PadWithZeros, PadEnds, DiscardChunk, DiscardRequest, DiscardEnds, SendStatus, Goto, CmdPcs
  <2> QED
    BY <1>4, <2>1, <2>2
<1>8. CASE HostGoesOn \/ CbwLost \/ DataLost
  <2>1. UNCHANGED <<tag, pc, exc>>
    BY <1>8 DEF HostGoesOn, HostSendsData, HostTakesData, HostTakesCsw, HostClearsHalt, CbwLost, DataLost,
       THREAD
  <2>2. host'.tag = host.tag
    BY <1>8 DEF HostGoesOn, HostSendsData, HostTakesData, HostTakesCsw, HostClearsHalt, CbwLost, DataLost,
       HOST, Ranges, HostType
  <2> QED
    BY <1>4, <2>1, <2>2
<1>9. CASE HostResets
  <2>1. UNCHANGED <<tag, pc>> /\ exc' = "reset" /\ host'.tag = host.tag
    BY <1>9 DEF HostResets, Ranges, HostType
  <2> QED
    BY <1>4, <2>1
<1> QED
  BY <1>2, <1>3, <1>5, <1>6, <1>7, <1>8, <1>9 DEF Next, Thread

\* and every step preserves it.
LEMMA NextInv == IInv /\ [Next]_vars => IInv'
<1> SUFFICES ASSUME IInv, [Next]_vars PROVE IInv'
  OBVIOUS
<1>1. PICK pos \in [Heads -> Nat] : Safe(pos)
  BY DEF IInv
<1>2. Ranges /\ tag \in Nat
  BY SizesAssumption DEF IInv, Tagged
<1>3. Tagged'
  BY <1>1, <1>2, TaggedStep DEF IInv, Safe
<1> SUFFICES Ranges' /\ \E q \in [Heads -> Nat] : Safe(q)'
  BY <1>3 DEF IInv
<1>4. CASE UNCHANGED vars
  BY <1>1, <1>2, <1>4, Stutters
<1>5. CASE Interrupted \/ HandleException \/ RequestCbw \/ ReceivedCbw \/ DoScsiCommand
  BY <1>1, <1>2, <1>5, InterruptedStep, HandleExceptionStep, RequestCbwStep, ReceivedCbwStep,
     DoScsiCommandStep
<1>6. CASE ReadChunk \/ FinishToHost \/ HaltBulkIn \/ PadWithZeros \/ PadEnds \/ SendStatus
  BY <1>1, <1>2, <1>6, ReadChunkStep, FinishToHostStep, HaltBulkInStep, PadWithZerosStep, PadEndsStep,
     SendStatusStep
<1>7. CASE WriteRequest \/ WriteChunk \/ WriteEnds \/ FinishFromHost
  BY <1>1, <1>2, <1>7, WriteRequestStep, WriteChunkStep, WriteEndsStep, FinishFromHostStep
<1>8. CASE DiscardChunk \/ DiscardRequest \/ DiscardEnds
  BY <1>1, <1>2, <1>8, DiscardChunkStep, DiscardRequestStep, DiscardEndsStep
<1>9. CASE HostGoesOn
  BY <1>1, <1>2, <1>9, HostSendsDataStep, HostTakesDataStep, HostTakesCswStep, HostClearsHaltStep
     DEF HostGoesOn
<1>10. ASSUME NEW c \in Cbws, HostSendsCbw(c) PROVE Ranges' /\ \E q \in [Heads -> Nat] : Safe(q)'
  BY <1>1, <1>2, <1>10, HostSendsCbwStep
<1>11. CASE CbwLost \/ DataLost \/ HostResets
  BY <1>1, <1>2, <1>11, CbwLostStep, DataLostStep, HostResetsStep
<1> QED
  BY <1>4, <1>5, <1>6, <1>7, <1>8, <1>9, <1>10, <1>11 DEF Next, Thread

\* The inductive invariant holds: every queued transfer belongs to one buffer head, the
\* requests tile what was asked of the host, and the counters agree with what was moved.
THEOREM Inductive == Spec => []IInv
  BY InitInv, NextInv, PTL DEF Spec

\* No offset leaves the file, no length exceeds a buffer, no counter becomes negative.
THEOREM TypeCorrect == Spec => []TypeOK
<1>1. IInv => TypeOK
  BY DEF IInv, Tagged, TypeOK
<1> QED
  BY <1>1, Inductive, PTL

\* A status is the last transfer in the queue.
LEMMA StatusIs ==
    IInv => /\ Status = IF CswQueued THEN {inq[Len(inq)].csw} ELSE {}
            /\ CswQueued => inq[Len(inq)].csw \in CswType
<1> SUFFICES ASSUME IInv
             PROVE  /\ Status = IF CswQueued THEN {inq[Len(inq)].csw} ELSE {}
                    /\ CswQueued => inq[Len(inq)].csw \in CswType
  OBVIOUS
<1>1. Ranges /\ Queues
  BY DEF IInv, Safe
<1>2. \A j \in DOMAIN inq : inq[j].kind = "csw" => j = Len(inq)
  BY <1>1 DEF Queues
<1>3. CASE CswQueued
  <2>1. Len(inq) \in DOMAIN inq /\ inq[Len(inq)].kind = "csw"
    BY <1>1, <1>3 DEF CswQueued, Ranges
  <2>2. {j \in DOMAIN inq : inq[j].kind = "csw"} = {Len(inq)}
    BY <1>2, <2>1
  <2>3. inq[Len(inq)] \in InType
    BY <1>1, <2>1 DEF Ranges
  <2>4. inq[Len(inq)].csw \in CswType
    BY <2>3 DEF InType
  <2> QED
    BY <1>3, <2>2, <2>4 DEF Status
<1>4. CASE ~CswQueued
  <2>1. {j \in DOMAIN inq : inq[j].kind = "csw"} = {}
    <3>1. ASSUME NEW j \in DOMAIN inq, inq[j].kind = "csw" PROVE FALSE
      <4>1. j = Len(inq) /\ inq # <<>>
        BY <1>2, <3>1
      <4> QED
        BY <1>4, <3>1, <4>1 DEF CswQueued
    <3> QED
      BY <3>1
  <2> QED
    BY <1>4, <2>1 DEF Status
<1> QED
  BY <1>3, <1>4

\* Host and device never disagree about what the next transfer is.
THEOREM HostInSync == Spec => []InSync
<1>1. IInv => InSync
  <2> SUFFICES ASSUME IInv PROVE InSync
    OBVIOUS
  <2>1. Ranges
    BY DEF IInv
  <2>2. PICK pos \in [Heads -> Nat] : Safe(pos)
    BY DEF IInv
  <2>3. outq # <<>> => Head(outq) = outq[1] /\ 1 \in DOMAIN outq /\ outq[1] \in Heads
    BY <2>1 DEF Ranges
  <2>4. inq # <<>> => Head(inq) = inq[1] /\ 1 \in DOMAIN inq
    BY <2>1 DEF Ranges
  <2>5. outq # <<>> /\ host.phase = "cbw" => bh[Head(outq)].want = "cbw"
    <3>1. SUFFICES ASSUME outq # <<>>, host.phase = "cbw" PROVE bh[outq[1]].want = "cbw"
      BY <2>3
    <3>2. outq = <<fill>> /\ bh[fill].want = "cbw"
      BY <2>2, <3>1 DEF Safe, Phases, Stages
    <3>3. outq[1] = fill
      BY <3>2
    <3> QED
      BY <3>2, <3>3
  <2>6. outq # <<>> /\ host.phase = "data" /\ cbw.dir = "out" => bh[Head(outq)].want = "data"
    <3>1. SUFFICES ASSUME outq # <<>>, host.phase = "data", cbw.dir = "out" PROVE Data(outq[1])
      BY <2>3 DEF Data
    <3>2. Receiving
      BY <2>1, <2>2, <3>1, HostAsked
    <3> QED
      BY <2>2, <2>3, <3>1, <3>2 DEF Safe, Served
  <2>7. inq # <<>> /\ host.phase = "cbw" => FALSE
    BY <2>2 DEF Safe, Phases
  <2>8. inq # <<>> /\ host.phase = "data" => cbw.dir = "in"
    <3>1. cbw.dir \in {"in", "out", "none"}
      BY <2>1, Numbers DEF CbwType
    <3> QED
      BY <2>2, <3>1 DEF Safe, Phases
  <2>9. inq # <<>> /\ host.phase = "data" => Head(inq).kind = "data"
    BY <2>2, <2>4, <2>8 DEF Safe, InOrder
  <2>10. inq # <<>> /\ host.phase = "csw" => Head(inq).kind = "csw"
    BY <2>2, <2>4 DEF Safe, Phases
  <2> QED
    BY <2>5, <2>6, <2>7, <2>8, <2>9, <2>10 DEF InSync
<1> QED
  BY <1>1, Inductive, PTL

\* A command that passes has done all that was asked for.
THEOREM PassTold == Spec => []PassMeansDone
<1>1. IInv => PassMeansDone
  <2> SUFFICES ASSUME IInv, NEW s \in Status, s.status = "pass"
               PROVE  /\ cbw.op = "read" => Len(sent) >= SizeFromCmnd(cbw)
                      /\ cbw.op = "write" =>
                            Cardinality(written) = Least({SizeFromCmnd(cbw), host.moved})
    BY DEF PassMeansDone
  <2>1. CswQueued /\ s = inq[Len(inq)].csw
    BY StatusIs
  <2>2. Passed
    BY DEF IInv, Safe
  <2> QED
    BY <2>1, <2>2 DEF Passed, Sz
<1> QED
  BY <1>1, Inductive, PTL

\* Data arrives in order and at its place.
THEOREM DataPlaced == Spec => []DataInPlace
<1>1. IInv => DataInPlace
  BY DEF IInv, Safe
<1> QED
  BY <1>1, Inductive, PTL

-----------------------------------------------------------------------------
(* The pipeline implements BulkOnly.                                       *)

\* The units of a transfer before its padding.
LEMMA UnitsBeforePadding ==
    ASSUME NEW s \in Seq(Int), NEW m \in 0 .. Len(s), \A k \in DOMAIN s : s[k] = Zero <=> k > m
    PROVE  Cardinality({k \in DOMAIN s : s[k] # Zero}) = m
<1>1. Len(s) \in Nat /\ DOMAIN s = 1 .. Len(s) /\ m \in Nat
  OBVIOUS
<1>2. {k \in DOMAIN s : s[k] # Zero} = 1 .. m
  <2>1. \A k \in 1 .. Len(s) : s[k] # Zero <=> k <= m
    BY <1>1
  <2>2. \A k \in 1 .. m : k \in 1 .. Len(s) /\ k <= m
    BY <1>1
  <2>3. \A k \in 1 .. Len(s) : k <= m => k \in 1 .. m
    BY <1>1
  <2> QED
    BY <1>1, <2>1, <2>2, <2>3
<1>3. Cardinality(1 .. m) = IF 1 > m THEN 0 ELSE m - 1 + 1
  BY <1>1, FS_Interval
<1>4. Cardinality(1 .. m) = m
  BY <1>1, <1>3
<1> QED
  BY <1>2, <1>4

\* What has been moved in the current command.
LEMMA MovedIs ==
    IInv /\ pc \in CmdPcs \ {"scsi"} =>
       /\ Done \in Nat /\ Len(sent) \in Nat /\ Done <= cbw.size
       /\ Moved = IF cbw.dir = "in" /\ Len(sent) < Done THEN Len(sent) ELSE Done
<1> SUFFICES ASSUME IInv, pc \in CmdPcs \ {"scsi"}
             PROVE  /\ Done \in Nat /\ Len(sent) \in Nat /\ Done <= cbw.size
                    /\ Moved = IF cbw.dir = "in" /\ Len(sent) < Done THEN Len(sent) ELSE Done
  OBVIOUS
<1>1. Ranges
  BY DEF IInv
<1>2. PICK pos \in [Heads -> Nat] : Safe(pos)
  BY DEF IInv
<1>3. Done \in Nat /\ Done <= cbw.size
  <2>1. fsg.residue \in Nat /\ cbw.size \in Nat
    BY <1>1, Numbers
  <2>2. fsg.residue <= cbw.size
    BY <1>2 DEF Safe, Counted
  <2> QED
    BY <2>1, <2>2 DEF Done
<1>4. sent \in Seq(Int) /\ Len(sent) \in Nat
  BY <1>1 DEF Ranges
<1>5. CASE cbw.dir = "in"
  <2>1. PICK m : m = IF Len(sent) < Done THEN Len(sent) ELSE Done
    OBVIOUS
  <2>2. PaddedFrom(m)
    BY <1>2, <1>5, <2>1 DEF Safe, SentSoFar
  <2>3. Cardinality({k \in DOMAIN sent : sent[k] # Zero}) = m
    BY <1>4, <2>2, UnitsBeforePadding DEF PaddedFrom
  <2> QED
    BY <1>3, <1>4, <1>5, <2>1, <2>3 DEF Moved
<1>6. CASE cbw.dir # "in"
  <2>1. written = Prefix(Done)
    BY <1>2, <1>6 DEF Safe, TakenSoFar
  <2> QED
    BY <1>1, <1>3, <1>4, <1>6, <2>1, PrefixSize DEF Moved
<1> QED
  BY <1>5, <1>6

\* The same after a step.
LEMMA MovedNext ==
    (IInv /\ pc \in CmdPcs \ {"scsi"} =>
       /\ Done \in Nat /\ Len(sent) \in Nat /\ Done <= cbw.size
       /\ Moved = IF cbw.dir = "in" /\ Len(sent) < Done THEN Len(sent) ELSE Done)'
  BY MovedIs, PTL

\* The status after a step.
LEMMA StatusNext ==
    (IInv => /\ Status = IF CswQueued THEN {inq[Len(inq)].csw} ELSE {}
             /\ CswQueued => inq[Len(inq)].csw \in CswType)'
  BY StatusIs, PTL

\* What the host does not see.
LEMMA Unseen ==
    ASSUME UNCHANGED <<cbw, sent, written>>, host'.tag = host.tag, Phase' = Phase, Status' = Status
    PROVE  UNCHANGED BO!vars
<1>1. Active' <=> Active
  BY DEF Active
<1>2. Moved' = Moved
  BY DEF Moved
<1> QED
  BY <1>1, <1>2 DEF BO!vars

\* In particular, what changes neither the command, nor the host, nor what is sent.
LEMMA Hidden ==
    ASSUME UNCHANGED <<cbw, host, inq, sent, written>>
    PROVE  UNCHANGED BO!vars
<1>1. Status' = Status
  BY DEF Status
<1>2. Phase' = Phase
  BY <1>1 DEF Phase
<1> QED
  BY <1>1, <1>2, Unseen

\* Data moves, or nothing does.
LEMMA DataMoves ==
    ASSUME UNCHANGED <<cbw, host>>, Status = {}, Status' = {},
           Moved \in Nat, Moved' \in Nat, cbw.size \in Nat, Moved <= Moved', Moved' <= cbw.size
    PROVE  BO!Move \/ UNCHANGED BO!vars
<1>1. Phase' = Phase /\ Phase # "status" /\ (Active' <=> Active) /\ (Active <=> Phase = "busy")
  BY DEF Phase, Active
<1>2. CASE Moved' = Moved \/ ~Active
  BY <1>1, <1>2 DEF BO!vars
<1>3. CASE Moved' # Moved /\ Active
  <2>1. Moved' \in Moved + 1 .. cbw.size
    BY <1>3
  <2> QED
    BY <1>1, <1>3, <2>1 DEF BO!Move
<1> QED
  BY <1>2, <1>3

\* The initial states correspond.
LEMMA AbstractInit == Init => BO!Init
<1> SUFFICES ASSUME Init PROVE BO!Init
  OBVIOUS
<1>1. host.phase = "cbw" /\ host.tag = 0
  BY DEF Init
<1>2. Phase = "ready" /\ ~Active
  BY <1>1 DEF Phase, Active
<1> QED
  BY <1>1, <1>2 DEF BO!Init, BO!None, NoCsw

\* The thread moves data.
LEMMA AbstractMove ==
    ASSUME IInv, IInv', pc \in CmdPcs \ {"scsi"}, pc' \in CmdPcs \ {"scsi"},
           UNCHANGED <<cbw, host>>, Len(sent) <= Len(sent'), Done <= Done'
    PROVE  BO!Move \/ UNCHANGED BO!vars
<1>1. ~CswQueued /\ ~CswQueued'
  BY DEF IInv, Safe, Phases, CmdPcs
<1>2. Status = {} /\ Status' = {}
  BY <1>1, StatusIs, StatusNext
<1>3. /\ Done \in Nat /\ Len(sent) \in Nat
      /\ Moved = IF cbw.dir = "in" /\ Len(sent) < Done THEN Len(sent) ELSE Done
  BY MovedIs
<1>4. /\ Done' \in Nat /\ Len(sent') \in Nat /\ Done' <= cbw.size
      /\ Moved' = IF cbw.dir = "in" /\ Len(sent') < Done' THEN Len(sent') ELSE Done'
  BY MovedNext
<1>5. cbw.size \in Nat
  BY Numbers DEF IInv
<1>6. Moved \in Nat /\ Moved' \in Nat /\ Moved <= Moved' /\ Moved' <= cbw.size
  BY <1>3, <1>4, <1>5
<1> QED
  BY <1>2, <1>5, <1>6, DataMoves

\* do_read sends a buffer, or none.
LEMMA AbstractRead ==
    ASSUME IInv, IInv', ReadChunk
    PROVE  BO!Move \/ UNCHANGED BO!vars
<1>1. Ranges /\ Stages /\ SentSoFar /\ Counted
  BY DEF IInv, Safe
<1>2. pc = "read" /\ UNCHANGED <<cbw, host>>
  BY <1>1, Reads DEF ASIDE, HOST
<1>3. cbw.dir = "in" /\ Len(sent) = Done
  BY <1>1, <1>2 DEF Stages, SentSoFar, CmdPcs
<1>4. CASE UNCHANGED <<inq, sent, written>>
  BY <1>2, <1>4, Hidden
<1>5. CASE ~UNCHANGED <<inq, sent, written>>
  <2>1. PICK n \in 0 .. BufLen : pc' = "read" /\ fsg'.residue = fsg.residue - n
    BY <1>1, <1>5, Reads DEF ReadsLast, ReadsMore, QUEUES, UNITS
  <2>2. Len(sent') = Done'
    BY <1>2, <1>3, <2>1 DEF IInv, Safe, SentSoFar, CmdPcs
  <2>3. Done <= Done'
    <3>1. fsg.residue \in Nat /\ cbw.size \in Nat /\ n \in Nat
      BY <1>1, Numbers, Lengths
    <3>2. Done' = cbw.size - (fsg.residue - n)
      BY <1>2, <2>1 DEF Done
    <3> QED
      BY <3>1, <3>2 DEF Done
  <2> QED
    BY <1>2, <1>3, <2>1, <2>2, <2>3, AbstractMove DEF CmdPcs
<1> QED
  BY <1>4, <1>5

\* finish_reply sends the last buffer, or keeps it for the padding.
LEMMA AbstractFinish ==
    ASSUME IInv, IInv', FinishToHost
    PROVE  BO!Move \/ UNCHANGED BO!vars
<1>1. pc = "finish" /\ cbw.dir = "in" /\ UNCHANGED <<cbw, host>>
  BY DEF FinishToHost, ASIDE, HOST
<1>2. CASE fsg.residue = 0 \/ can_stall = 1
  <2>1. pc' \in {"status", "halt"} /\ UNCHANGED fsg
    BY <1>2 DEF FinishToHost
  <2>2. Done' = Done /\ Done \in Nat /\ Done' \in Nat /\ Len(sent) \in Nat /\ Len(sent') \in Nat
    BY <1>1, <2>1, SameCommand, MovedIs, MovedNext DEF CmdPcs
  <2>3. Len(sent) + bh[fill].inlen = Done /\ bh[fill].inlen \in Nat
    <3>1. bh[fill] \in BhType
      BY DEF IInv, Ranges
    <3>2. bh[fill].inlen \in Nat
      BY <3>1, Lengths DEF BhType
    <3> QED
      BY <1>1, <3>2 DEF IInv, Safe, SentSoFar, CmdPcs
  <2>4. Len(sent') = Done' \/ Len(sent') >= Done'
    BY <1>1, <2>1 DEF IInv, Safe, SentSoFar, CmdPcs
  <2>5. Len(sent) <= Len(sent') /\ Done <= Done'
    BY <2>2, <2>3, <2>4
  <2> QED
    BY <1>1, <2>1, <2>5, AbstractMove DEF CmdPcs
<1>3. CASE ~(fsg.residue = 0 \/ can_stall = 1)
  <2>1. UNCHANGED <<inq, sent, written>>
    BY <1>3 DEF FinishToHost, QUEUES, UNITS
  <2> QED
    BY <1>1, <2>1, Hidden
<1> QED
  BY <1>2, <1>3

\* pad_with_zeros sends what do_read left in the first buffer; padding does not count.
LEMMA AbstractPad ==
    ASSUME IInv, IInv', PadWithZeros
    PROVE  BO!Move \/ UNCHANGED BO!vars
<1>1. pc = "pad" /\ pc' = "pad" /\ UNCHANGED <<cbw, host>>
      /\ fsg' = [fsg EXCEPT !.left = @ - Least({fsg.left, BufLen})]
  BY DEF PadWithZeros, ASIDE, HOST
<1>2. cbw.dir = "in" /\ fsg \in FsgType /\ fsg.left \in Nat /\ BufLen \in Nat /\ cbw.size \in Nat
  BY <1>1, Numbers, Lengths DEF IInv, Safe, Stages, Ranges
<1>3. fsg'.residue = fsg.residue /\ fsg'.left = fsg.left - Least({fsg.left, BufLen})
  BY <1>1, <1>2 DEF FsgType
<1>4. PICK n \in Nat : n = Least({fsg.left, BufLen})
  BY <1>2, LeastOfTwo
<1>5. Len(sent) + fsg.left = cbw.size /\ Len(sent') + fsg'.left = cbw.size
  BY <1>1, <1>2 DEF IInv, Safe, SentSoFar, CmdPcs
<1>6. Len(sent) \in Nat /\ Len(sent') \in Nat /\ Done' = Done /\ Done \in Nat
  BY <1>1, <1>3, MovedIs, MovedNext DEF CmdPcs, Done
<1>7. Len(sent) <= Len(sent') /\ Done <= Done'
  BY <1>2, <1>3, <1>4, <1>5, <1>6
<1> QED
  BY <1>1, <1>7, AbstractMove DEF CmdPcs

\* do_write writes a buffer; nobody counts it after a reset.
LEMMA AbstractWrite ==
    ASSUME IInv, IInv', WriteChunk
    PROVE  BO!Move \/ UNCHANGED BO!vars
<1>1. pc = "write" /\ UNCHANGED <<cbw, host, inq, exc, sent>>
  BY DEF WriteChunk, ASIDE, HOST, QUEUES
<1>2. Ranges /\ Exceptions
  BY DEF IInv, Safe
<1>3. CASE pc' = "exc"
  <2>1. host.phase = "reset"
    BY <1>1, <1>2, <1>3 DEF Exceptions, WriteChunk, Ranges
  <2>2. Phase = "reset" /\ Phase' = "reset" /\ ~Active /\ ~Active'
    BY <1>1, <2>1 DEF Phase, Active
  <2> QED
    BY <1>1, <2>2 DEF BO!vars
<1>4. CASE pc' # "exc"
  <2>1. pc' \in {"finish", "write"} /\ \E n \in Nat : fsg'.residue = fsg.residue - n
    <3>1. CASE bh[drain].err = 1
      <4>1. pc' = "finish" /\ fsg' = [fsg EXCEPT !.sense = 1]
        BY <3>1 DEF WriteChunk
      <4>2. fsg'.residue = fsg.residue - 0
        BY <1>2, <4>1 DEF Ranges, FsgType
      <4> QED
        BY <4>1, <4>2
    <3>2. CASE bh[drain].err # 1
      <4>1. PICK n \in FileIO(Least({bh[drain].act, FileLen - io.off})) :
               /\ fsg' = [fsg EXCEPT
                           !.residue = @ - n,
                           !.sense = IF n < Least({bh[drain].act, FileLen - io.off}) THEN 1 ELSE @,
                           !.short = IF n = Least({bh[drain].act, FileLen - io.off}) /\ StoppedEarly
                                     THEN 1 ELSE @]
               /\ pc' = IF n < Least({bh[drain].act, FileLen - io.off}) \/ StoppedEarly
                        THEN "finish" ELSE pc
        BY <1>4, <3>2 DEF WriteChunk
      <4>2. Least({bh[drain].act, FileLen - io.off}) \in Nat
        <5>1. bh[drain] \in BhType
          BY <1>2 DEF Ranges
        <5>2. bh[drain].act \in Nat /\ FileLen - io.off \in Nat
          <6>1. BufLen \in Nat /\ FileLen \in Nat
            BY Lengths
          <6>2. bh[drain].act \in Nat
            BY <5>1, <6>1 DEF BhType
          <6>3. io.off \in 0 .. FileLen
            BY <1>2, Numbers
          <6> QED
            BY <6>1, <6>2, <6>3
        <5> QED
          BY <5>2, LeastOfTwo
      <4>3. n \in Nat
        BY <4>2, FileIORange
      <4>4. fsg'.residue = fsg.residue - n
        BY <1>2, <4>1 DEF Ranges, FsgType
      <4> QED
        BY <1>1, <4>1, <4>3, <4>4
    <3> QED
      BY <3>1, <3>2
  <2>2. Done <= Done'
    <3>1. PICK n \in Nat : fsg'.residue = fsg.residue - n
      BY <2>1
    <3>2. fsg.residue \in Nat /\ cbw.size \in Nat
      BY <1>2, Numbers
    <3>3. Done' = cbw.size - (fsg.residue - n)
      BY <1>1, <3>1 DEF Done
    <3> QED
      BY <3>2, <3>3 DEF Done
  <2>3. Len(sent) <= Len(sent')
    BY <1>1, <1>2 DEF Ranges
  <2> QED
    BY <1>1, <2>1, <2>2, <2>3, AbstractMove DEF CmdPcs
<1> QED
  BY <1>3, <1>4

\* The device answers; after a reset, the host does not listen.
LEMMA AbstractStatus ==
    ASSUME IInv, IInv', SendStatus
    PROVE  BO!Answer \/ UNCHANGED BO!vars
<1> DEFINE answer == [tag |-> tag, residue |-> fsg.residue, status |-> StatusOf]
           t      == [b |-> fill, kind |-> "csw", data |-> <<>>, zero |-> 0, csw |-> answer]
<1>1. /\ pc = "status" /\ inq' = Append(inq, t)
      /\ UNCHANGED <<cbw, host, sent, written>>
  BY DEF SendStatus, Goto, ASIDE, HOST, UNITS, ResidueOf
<1>2. Ranges /\ Stages /\ Phases /\ SentSoFar
  BY DEF IInv, Safe
<1>3. inq \in Seq(InType) /\ Len(inq) \in Nat
  BY <1>2 DEF Ranges
<1>4. /\ inq' # <<>> /\ Len(inq') = Len(inq) + 1 /\ inq'[Len(inq')] = t
  <2>1. Len(inq') = Len(inq) + 1 /\ inq'[Len(inq) + 1] = t
    BY <1>1, <1>3
  <2>2. inq' # <<>>
    BY <1>3, <2>1
  <2> QED
    BY <2>1, <2>2
<1>5. CswQueued' /\ inq'[Len(inq')].csw = answer
  BY <1>4 DEF CswQueued
<1>6. Status = {} /\ Status' = {answer}
  <2>1. ~CswQueued
    BY <1>1, <1>2 DEF Phases
  <2> QED
    BY <1>5, <2>1, StatusIs, StatusNext
<1>7. CASE host.phase = "reset"
  <2>1. Phase = "reset" /\ Phase' = "reset" /\ ~Active /\ ~Active'
    BY <1>1, <1>7 DEF Phase, Active
  <2> QED
    BY <1>1, <2>1 DEF BO!vars
<1>8. CASE host.phase # "reset"
  <2>1. host.phase # "cbw" /\ cbw.form = "ok"
    BY <1>1, <1>2, <1>8 DEF Phases, Stages, CmdPcs
  <2>2. Phase = "busy" /\ Phase' = "status"
    BY <1>1, <1>6, <1>8, <2>1 DEF Phase
  <2>3. Active /\ Active'
    BY <2>2 DEF Active
  <2>4. Moved' = Moved
    BY <1>1 DEF Moved
  <2>5. fsg.residue = cbw.size - Moved
    <3>1. /\ Done \in Nat /\ Len(sent) \in Nat
          /\ Moved = IF cbw.dir = "in" /\ Len(sent) < Done THEN Len(sent) ELSE Done
      BY <1>1, MovedIs DEF CmdPcs
    <3>2. cbw.dir = "in" => Len(sent) >= Done
      BY <1>1, <1>2 DEF SentSoFar, CmdPcs
    <3>3. Moved = Done
      BY <3>1, <3>2
    <3>4. fsg.residue \in Nat /\ cbw.size \in Nat
      BY <1>2, Numbers
    <3> QED
      BY <3>3, <3>4 DEF Done
  <2>6. (CHOOSE s \in Status' : TRUE) = answer
    BY <1>6
  <2>7. StatusOf \in {"pass", "fail", "phase"}
    BY DEF StatusOf
  <2>8. tag = host.tag
    BY <1>1 DEF IInv, Tagged, CmdPcs
  <2>9. (CHOOSE s \in Status' : TRUE) = [tag |-> host.tag, residue |-> cbw.size - Moved, status |-> StatusOf]
    BY <2>5, <2>6, <2>8
  <2> QED
    BY <1>1, <2>2, <2>3, <2>4, <2>7, <2>9 DEF BO!Answer
<1> QED
  BY <1>7, <1>8

\* The host sends a command, or something else.
LEMMA AbstractCommand ==
    ASSUME IInv, NEW c \in Cbws, HostSendsCbw(c)
    PROVE  BO!Next
<1>1. /\ host.phase = "cbw" /\ cbw' = c /\ sent' = <<>> /\ written' = {} /\ UNCHANGED inq
      /\ host'.phase \in {"data", "csw"} /\ host'.tag = host.tag + 1
  BY DEF HostSendsCbw, OutDone
<1>2. inq = <<>>
  BY <1>1 DEF IInv, Safe, Phases
<1>3. Status' = {}
  BY <1>1, <1>2 DEF Status
<1>4. Phase = "ready" /\ ~Active
  BY <1>1 DEF Phase, Active
<1>5. Moved' = 0
  <2>1. {k \in DOMAIN sent' : sent'[k] # Zero} = {}
    BY <1>1
  <2> QED
    BY <1>1, <2>1, FS_EmptySet DEF Moved
<1>6. CASE c.form = "ok"
  <2>1. Phase' = "busy" /\ Active'
    BY <1>1, <1>3, <1>6 DEF Phase, Active
  <2>2. BO!Command(c.size)
    BY <1>1, <1>4, <1>5, <2>1 DEF BO!Command
  <2> QED
    BY <2>2 DEF BO!Next
<1>7. CASE c.form # "ok"
  <2>1. Phase' = "stuck" /\ ~Active'
    BY <1>1, <1>3, <1>7 DEF Phase, Active
  <2>2. BO!Malformed
    BY <1>1, <1>4, <2>1 DEF BO!Malformed
  <2> QED
    BY <2>2 DEF BO!Next
<1> QED
  BY <1>6, <1>7

\* The host takes data, and leaves the status in the queue.
LEMMA AbstractTakesData ==
    ASSUME IInv, IInv', HostTakesData
    PROVE  UNCHANGED BO!vars
<1>1. PICK pos \in [Heads -> Nat] : Safe(pos)
  BY DEF IInv
<1>2. Ranges
  BY DEF IInv
<1>3. /\ host.phase = "data" /\ cbw.dir = "in" /\ inq # <<>> /\ InDone
      /\ UNCHANGED <<cbw, sent, written>>
  BY DEF HostTakesData, UNITS
<1>4. host'.phase \in {"data", "csw"} /\ host'.tag = host.tag
  <2>1. host \in HostType
    BY <1>2 DEF Ranges
  <2>2. \E m : \E p \in {"data", "csw"} : host' = [host EXCEPT !.moved = m, !.phase = p]
    BY DEF HostTakesData
  <2> QED
    BY <2>1, <2>2 DEF HostType
<1>5. /\ Len(inq) \in Nat /\ Len(inq) > 0
      /\ inq' = <<>> <=> Len(inq) = 1
      /\ CswQueued' => CswQueued
      /\ CswQueued /\ Len(inq) > 1 => CswQueued'
      /\ inq'# <<>> => inq'[Len(inq')] = inq[Len(inq)]
  BY <1>1, <1>2, <1>3, Takes
<1>6. inq[1].kind = "data"
  BY <1>1, <1>3 DEF Safe, InOrder
<1>7. CswQueued => Len(inq) > 1
  <2>1. CswQueued => Len(inq) # 1
    BY <1>6 DEF CswQueued
  <2>2. PICK n \in Nat : n = Len(inq) /\ n > 0
    BY <1>5
  <2>3. Len(inq) # 1 => Len(inq) > 1
    BY <2>2
  <2> QED
    BY <2>1, <2>3
<1>8. Status' = Status
  <2>1. CASE CswQueued
    <3>1. CswQueued' /\ inq'[Len(inq')] = inq[Len(inq)]
      BY <1>5, <1>7, <2>1 DEF CswQueued
    <3> QED
      BY <2>1, <3>1, StatusIs, StatusNext
  <2>2. CASE ~CswQueued
    BY <1>5, <2>2, StatusIs, StatusNext
  <2> QED
    BY <2>1, <2>2
<1>9. Phase' = Phase
  BY <1>3, <1>4, <1>8 DEF Phase
<1> QED
  BY <1>3, <1>4, <1>8, <1>9, Unseen

\* The host sends data, or fails to, or clears a halt.
LEMMA AbstractHostGoesOn ==
    ASSUME IInv, HostSendsData \/ DataLost \/ HostClearsHalt
    PROVE  UNCHANGED BO!vars
<1>1. /\ host.phase \in {"data", "csw"} /\ UNCHANGED <<cbw, inq, sent, written>>
      /\ \E m : \E p \in {"data", "csw"} : host' = [host EXCEPT !.moved = m, !.phase = p]
  <2>1. host \in HostType
    BY DEF IInv, Ranges
  <2>2. host = [host EXCEPT !.moved = host.moved]
    BY <2>1 DEF HostType
  <2>3. CASE HostSendsData
    BY <2>3 DEF HostSendsData, OutDone, UNITS
  <2>4. CASE DataLost
    <3>1. host' = [host EXCEPT !.moved = host.moved, !.phase = "csw"]
      BY <2>1, <2>4 DEF DataLost, HostType
    <3> QED
      BY <2>4, <3>1 DEF DataLost, OutDone, UNITS
  <2>5. CASE HostClearsHalt
    <3>1. host' = [host EXCEPT !.moved = host.moved, !.phase = "csw"]
      BY <2>1, <2>5 DEF HostClearsHalt, HostType
    <3> QED
      BY <2>5, <3>1 DEF HostClearsHalt, UNITS
  <2> QED
    BY <2>3, <2>4, <2>5
<1>2. host'.phase \in {"data", "csw"} /\ host'.tag = host.tag
  <2>1. host \in HostType
    BY DEF IInv, Ranges
  <2> QED
    BY <1>1, <2>1 DEF HostType
<1>3. Status' = Status
  BY <1>1 DEF Status
<1>4. Phase' = Phase
  BY <1>1, <1>2, <1>3 DEF Phase
<1> QED
  BY <1>1, <1>2, <1>3, <1>4, Unseen

\* The host takes the status.
LEMMA AbstractTake ==
    ASSUME IInv, HostTakesCsw
    PROVE  BO!Take
<1>1. host.phase = "csw" /\ inq # <<>> /\ host'.phase = "cbw" /\ host'.tag = host.tag
  BY DEF HostTakesCsw, IInv, Ranges, HostType
<1>2. Ranges /\ Phases
  BY DEF IInv, Safe
<1>3. cbw.form = "ok"
  BY <1>1, <1>2 DEF Phases
<1>4. CswQueued
  <2>1. Len(inq) \in DOMAIN inq
    BY <1>1, <1>2 DEF Ranges
  <2> QED
    BY <1>1, <1>2, <2>1 DEF Phases, CswQueued
<1>5. Status # {}
  BY <1>4, StatusIs
<1>6. Phase = "status" /\ Phase' = "ready" /\ ~Active'
  BY <1>1, <1>3, <1>5 DEF Phase, Active
<1> QED
  BY <1>1, <1>6 DEF BO!Take, BO!Forget, BO!None, NoCsw

\* The host resets the device.
LEMMA AbstractReset ==
    ASSUME IInv, HostResets
    PROVE  BO!Reset
<1>1. host.phase # "reset" /\ host'.phase = "reset" /\ host'.tag = host.tag
  BY DEF HostResets, IInv, Ranges, HostType
<1>2. Phase # "reset" /\ Phase' = "reset" /\ ~Active'
  BY <1>1 DEF Phase, Active
<1> QED
  BY <1>1, <1>2 DEF BO!Reset, BO!Forget, BO!None, NoCsw

\* The device recovers from a reset; an aborted transfer is not over yet.
LEMMA AbstractRecover ==
    ASSUME IInv, HandleException
    PROVE  BO!Recover \/ UNCHANGED BO!vars
<1>1. pc = "exc" /\ inq' = <<>> /\ UNCHANGED <<cbw, sent, written>>
  BY DEF HandleException, Goto, UNITS
<1>2. Ranges /\ Exceptions
  BY DEF IInv, Safe
<1>3. CASE exc = "abort"
  <2>1. inq = <<>> /\ UNCHANGED host
    BY <1>2, <1>3 DEF Exceptions, HandleException
  <2> QED
    BY <1>1, <2>1, Hidden
<1>4. CASE exc # "abort"
  <2>1. host.phase = "reset"
    BY <1>1, <1>2, <1>4 DEF Exceptions, Ranges
  <2>2. host'.phase = "cbw" /\ host'.tag = host.tag
    BY <1>2, <1>4 DEF HandleException, Ranges, HostType
  <2>3. Phase = "reset" /\ Phase' = "ready" /\ ~Active'
    BY <2>1, <2>2 DEF Phase, Active
  <2> QED
    BY <2>2, <2>3 DEF BO!Recover, BO!Forget, BO!None, NoCsw
<1> QED
  BY <1>3, <1>4

\* What only the device sees.
LEMMA AbstractHidden ==
    ASSUME \/ UNCHANGED vars
           \/ Interrupted \/ RequestCbw \/ ReceivedCbw \/ DoScsiCommand
           \/ WriteRequest \/ WriteEnds \/ FinishFromHost \/ HaltBulkIn \/ PadEnds
           \/ DiscardChunk \/ DiscardRequest \/ DiscardEnds \/ CbwLost
    PROVE  UNCHANGED BO!vars
<1>1. UNCHANGED <<cbw, host, inq, sent, written>>
  <2>1. CASE UNCHANGED vars \/ Interrupted \/ DoScsiCommand \/ ReceivedCbw \/ WriteEnds
    BY <2>1 DEF vars, Interrupted, DoScsiCommand, ReceivedCbw, WriteEnds, ASIDE, HOST, QUEUES, UNITS
  <2>2. CASE RequestCbw \/ WriteRequest \/ DiscardRequest
    BY <2>2 DEF RequestCbw, WriteRequest, DiscardRequest, QueueOut, ASIDE, HOST, QUEUES, UNITS
  <2>3. CASE FinishFromHost \/ HaltBulkIn \/ PadEnds
    BY <2>3 DEF FinishFromHost, HaltBulkIn, PadEnds, ASIDE, HOST, QUEUES, UNITS
  <2>4. CASE DiscardChunk \/ DiscardEnds \/ CbwLost
    BY <2>4 DEF DiscardChunk, DiscardEnds, CbwLost, OutDone, ASIDE, HOST, QUEUES, UNITS
  <2> QED
    BY <2>1, <2>2, <2>3, <2>4
<1> QED
  BY <1>1, Hidden

\* Every step of the pipeline is a step of BulkOnly, or none.
LEMMA AbstractStep == IInv /\ IInv' /\ [Next]_vars => [BO!Next]_(BO!vars)
<1> SUFFICES ASSUME IInv, IInv', [Next]_vars PROVE BO!Next \/ UNCHANGED BO!vars
  OBVIOUS
<1>1. CASE \/ UNCHANGED vars
           \/ Interrupted \/ RequestCbw \/ ReceivedCbw \/ DoScsiCommand
           \/ WriteRequest \/ WriteEnds \/ FinishFromHost \/ HaltBulkIn \/ PadEnds
           \/ DiscardChunk \/ DiscardRequest \/ DiscardEnds \/ CbwLost
  BY <1>1, AbstractHidden
<1>2. CASE ReadChunk \/ FinishToHost \/ PadWithZeros \/ WriteChunk
  <2>1. BO!Move \/ UNCHANGED BO!vars
    BY <1>2, AbstractRead, AbstractFinish, AbstractPad, AbstractWrite
  <2> QED
    BY <2>1 DEF BO!Next
<1>3. CASE SendStatus
  <2>1. BO!Answer \/ UNCHANGED BO!vars
    BY <1>3, AbstractStatus
  <2> QED
    BY <2>1 DEF BO!Next
<1>4. CASE HandleException \/ HostResets
  <2>1. BO!Recover \/ BO!Reset \/ UNCHANGED BO!vars
    BY <1>4, AbstractRecover, AbstractReset
  <2> QED
    BY <2>1 DEF BO!Next
<1>5. CASE HostTakesCsw
  <2>1. BO!Take
    BY <1>5, AbstractTake
  <2> QED
    BY <2>1 DEF BO!Next
<1>6. CASE HostTakesData \/ HostSendsData \/ DataLost \/ HostClearsHalt
  BY <1>6, AbstractTakesData, AbstractHostGoesOn
<1>7. ASSUME NEW c \in Cbws, HostSendsCbw(c) PROVE BO!Next
  BY <1>7, AbstractCommand
<1> QED
  BY <1>1, <1>2, <1>3, <1>4, <1>5, <1>6, <1>7 DEF Next, Thread, HostGoesOn

\* The pipeline implements a Bulk-only device: one status per command, with its tag and
\* an exact residue, after its data, and never more data than announced.
THEOREM Refinement == Spec => ImplementsBulkOnly
  BY AbstractInit, AbstractStep, Inductive, PTL DEF Spec, ImplementsBulkOnly, BO!Spec

=============================================================================
