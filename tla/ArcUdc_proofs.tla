--------------------------- MODULE ArcUdc_proofs ---------------------------
(***************************************************************************)
(* Proofs about ArcUdc, for any set of requests: the chain of transfer     *)
(* descriptors and the place of the controller in it, and the refinement   *)
(* of EndpointQueue.                                                       *)
(***************************************************************************)
EXTENDS ArcUdc, SequenceTheorems, TLAPS

Members(q) == {q[k] : k \in DOMAIN q}
Open(r)    == process_ep_req(r) = "uncomplete"
Fresh(r)   == \A j \in {1, 2} : j <= count[r] => td[<<r, j>>].st = "active"

\* Where the driver is: the request it links is not on the list yet, the one it
\* takes off is, and the one it will look at next is the first.
Driving ==
    /\ Linking => cpu.req \in Reqs /\ cpu.req \notin Queued /\ queue # <<>>
    /\ cpu.pc = "dequeue" => cpu.req \in Queued
    /\ cpu.pc = "irq" \/ (Linking /\ cpu.ret = "irq")
       => cpu.next = NoReq \/ (queue # <<>> /\ cpu.next = queue[1])
    /\ stranded => queue # <<>>

\* The dTDs in memory are those of the pending requests ...
Sized ==
    /\ \A r \in Reqs : count[r] # 0 <=> r \in Members(Pending)
    /\ \A t \in Tds : td[t].st = "free" <=> t[2] > count[t[1]]

\* ... and form one chain, in the order of the list.
NextTd(k, j) ==
    IF j < count[Pending[k]] THEN <<Pending[k], 2>>
    ELSE IF k < Len(Pending) THEN <<Pending[k + 1], 1>> ELSE T

Chained ==
    \A k \in DOMAIN Pending : \A j \in {1, 2} :
        j <= count[Pending[k]] => td[<<Pending[k], j>>].next = NextTd(k, j)

\* What the registers say.  The trip wire is up only while the controller has
\* not moved since ENDPTSTAT was or will be read.
Registers ==
    /\ prime => hw.phase # "active" /\ (hw.phase = "advance" => hw.next = T) /\ qhnext # T
    /\ hw.phase = "active" => hw.cur # T
    /\ cpu.pc \in {"trip", "stat", "check"} => ~prime
    /\ atdtw => cpu.pc \in {"stat", "check"} /\ hw.phase # "advance"
    /\ atdtw /\ cpu.pc = "check" => (cpu.primed <=> hw.phase = "active")

\* The controller is at dTD j of the k-th request: nothing from there on has been
\* touched, and what lies before it is finished or left behind.
At(k, j) ==
    /\ HwPosition = <<Pending[k], j>> /\ j <= count[Pending[k]]
    /\ td[<<Pending[k], j>>].st = "active"
    /\ j = 2 => td[<<Pending[k], 1>>].st = "done"
    /\ j < count[Pending[k]] => td[<<Pending[k], 2>>].st = "active"
    /\ \A m \in DOMAIN Pending : m > k => Fresh(Pending[m])
    /\ ~stranded => \A m \in DOMAIN Pending : m < k => ~Open(Pending[m])

Positioned == HwPosition # T => \E k \in DOMAIN Pending, j \in {1, 2} : At(k, j)

\* The controller is at the end: nothing is left to do, but for the request that
\* is being linked, which is whole.
Arrived ==
    HwPosition = T =>
        /\ ~stranded => \A k \in DOMAIN queue : ~Open(queue[k])
        /\ Linking /\ Open(cpu.req) => Fresh(cpu.req)

Safe == Driving /\ Sized /\ Chained /\ Registers /\ Positioned /\ Arrived
IInv == TypeOK /\ (overtaken \/ Safe)

-----------------------------------------------------------------------------
(* Lists, and what the driver computes from the dTDs.                      *)

\* A list without its k-th element.
LEMMA Removed ==
    ASSUME NEW S, NEW q \in Seq(S), NEW k \in DOMAIN q
    PROVE  /\ RemoveAt(q, k) \in Seq(S)
           /\ Len(RemoveAt(q, k)) = Len(q) - 1
           /\ \A j \in 1 .. Len(q) - 1 : RemoveAt(q, k)[j] = q[IF j < k THEN j ELSE j + 1]
<1>1. k \in 1 .. Len(q) /\ Len(q) \in Nat /\ \A j \in 1 .. Len(q) : q[j] \in S
  BY LenProperties
<1> DEFINE a == SubSeq(q, 1, k - 1)
           b == SubSeq(q, k + 1, Len(q))
<1>2. a \in Seq(S) /\ Len(a) = k - 1 /\ \A j \in 1 .. k - 1 : a[j] = q[j]
  <2>1. \A j \in 1 .. k - 1 : q[j] \in S
    BY <1>1
  <2> QED
    BY <1>1, <2>1, SubSeqProperties
<1>3. b \in Seq(S) /\ Len(b) = Len(q) - k /\ \A j \in 1 .. Len(q) - k : b[j] = q[k + j]
  <2>1. \A j \in k + 1 .. Len(q) : q[j] \in S
    BY <1>1
  <2> QED
    BY <1>1, <2>1, SubSeqProperties
<1> HIDE DEF a, b
<1>4. RemoveAt(q, k) = a \o b
  BY DEF RemoveAt, a, b
<1>5. /\ a \o b \in Seq(S)
      /\ Len(a \o b) = Len(q) - 1
      /\ \A j \in 1 .. Len(a) + Len(b) : (a \o b)[j] = IF j <= Len(a) THEN a[j] ELSE b[j - Len(a)]
  <2>1. /\ a \o b \in Seq(S)
        /\ Len(a \o b) = Len(a) + Len(b)
        /\ \A j \in 1 .. Len(a) + Len(b) : (a \o b)[j] = IF j <= Len(a) THEN a[j] ELSE b[j - Len(a)]
    BY <1>2, <1>3, ConcatProperties, Zenon
  <2>2. Len(a) + Len(b) = Len(q) - 1
    BY <1>1, <1>2, <1>3
  <2> QED
    BY <2>1, <2>2, Zenon
<1>6. ASSUME NEW j \in 1 .. Len(q) - 1 PROVE (a \o b)[j] = q[IF j < k THEN j ELSE j + 1]
  <2>1. (a \o b)[j] = IF j < k THEN a[j] ELSE b[j - (k - 1)]
    <3>1. j \in 1 .. Len(a) + Len(b)
      BY <1>1, <1>2, <1>3
    <3>2. (a \o b)[j] = IF j <= Len(a) THEN a[j] ELSE b[j - Len(a)]
      BY <1>5, <3>1
    <3> HIDE DEF a, b
    <3> QED
      BY <1>1, <1>2, <3>2
  <2>2. CASE j < k
    BY <1>1, <1>2, <2>1, <2>2
  <2>3. CASE ~(j < k)
    <3>1. j - (k - 1) \in 1 .. Len(q) - k /\ k + (j - (k - 1)) = j + 1
      BY <1>1, <2>3
    <3> QED
      BY <1>3, <2>1, <2>3, <3>1
  <2> QED
    BY <2>2, <2>3
<1> QED
  BY <1>4, <1>5, <1>6

\* A list with one more element.
LEMMA Appended ==
    ASSUME NEW S, NEW q \in Seq(S), NEW e \in S
    PROVE  /\ Append(q, e) \in Seq(S)
           /\ Len(Append(q, e)) = Len(q) + 1
           /\ \A j \in 1 .. Len(q) : Append(q, e)[j] = q[j]
           /\ Append(q, e)[Len(q) + 1] = e
  BY LenProperties, AppendProperties

\* The list of pending requests, before and after a step.
Listed ==
    /\ Pending \in Seq(Reqs)
    /\ DOMAIN Pending = 1 .. Len(Pending) /\ Len(Pending) \in Nat
    /\ \A k \in DOMAIN Pending : Pending[k] \in Reqs
    /\ \A j, k \in DOMAIN Pending : Pending[j] = Pending[k] => j = k
    /\ ~Linking => Pending = queue
    /\ Linking => /\ Len(Pending) = Len(queue) + 1 /\ Pending[Len(Pending)] = cpu.req
                  /\ Len(queue) > 0
    /\ DOMAIN queue = 1 .. Len(queue) /\ Len(queue) \in Nat
    /\ \A k \in DOMAIN queue : Pending[k] = queue[k] /\ queue[k] \in Reqs

\* The pending requests are a list without repetitions,
LEMMA ListedNow == TypeOK /\ Driving => Listed
<1> SUFFICES ASSUME TypeOK, Driving PROVE Listed
  OBVIOUS
<1>1. DOMAIN queue = 1 .. Len(queue) /\ Len(queue) \in Nat /\ \A k \in DOMAIN queue : queue[k] \in Reqs
  BY LenProperties DEF TypeOK
<1>2. CASE Linking
  <2>1. /\ Pending = Append(queue, cpu.req) /\ cpu.req \in Reqs
        /\ \A k \in DOMAIN queue : queue[k] # cpu.req
        /\ queue # <<>>
    BY <1>2 DEF Pending, Driving, Queued
  <2>2. /\ Pending \in Seq(Reqs) /\ Len(Pending) = Len(queue) + 1
        /\ \A k \in DOMAIN queue : Pending[k] = queue[k]
        /\ Pending[Len(Pending)] = cpu.req
    BY <1>1, <2>1, Appended DEF TypeOK
  <2>3. DOMAIN Pending = 1 .. Len(Pending)
    BY <2>2, LenProperties
  <2>4. Len(queue) > 0
    BY <1>1, <2>1, EmptySeq DEF TypeOK
  <2>5. \A j, k \in DOMAIN Pending : Pending[j] = Pending[k] => j = k
    BY <1>1, <2>1, <2>2, <2>3 DEF TypeOK
  <2> QED
    BY <1>1, <1>2, <2>1, <2>2, <2>3, <2>4, <2>5, LenProperties DEF Listed
<1>3. CASE ~Linking
  BY <1>1, <1>3 DEF Pending, TypeOK, Listed
<1> QED
  BY <1>2, <1>3

\* also after a step.
LEMMA ListedNext == TypeOK' /\ Driving' => Listed'
<1>1. []((TypeOK /\ Driving) => Listed)
  BY ListedNow, PTL
<1> QED
  BY <1>1, PTL

\* What process_ep_req returns for a request of one or two dTDs.
Judged ==
    \A r \in Reqs :
        LET a == td[<<r, 1>>].st
            b == td[<<r, 2>>].st
        IN /\ count[r] = 1 => process_ep_req(r) = IF a = "done" THEN "ok"
                                                  ELSE IF a = "error" THEN "error" ELSE "uncomplete"
           /\ count[r] = 2 => process_ep_req(r) = IF a = "done"
                                                  THEN IF b = "done" THEN "ok"
                                                       ELSE IF b = "error" THEN "error"
                                                       ELSE "uncomplete"
                                                  ELSE IF a = "error" THEN "error" ELSE "uncomplete"

\* What process_ep_req says about a request,
LEMMA JudgedNow == Judged
<1> SUFFICES ASSUME NEW r \in Reqs
             PROVE  /\ count[r] = 1 => process_ep_req(r) = IF td[<<r, 1>>].st = "done" THEN "ok"
                                  ELSE IF td[<<r, 1>>].st = "error" THEN "error" ELSE "uncomplete"
                    /\ count[r] = 2 => process_ep_req(r) = IF td[<<r, 1>>].st = "done"
                                                  THEN IF td[<<r, 2>>].st = "done" THEN "ok"
                                                       ELSE IF td[<<r, 2>>].st = "error" THEN "error"
                                                       ELSE "uncomplete"
                                                  ELSE IF td[<<r, 1>>].st = "error" THEN "error" ELSE "uncomplete"
  BY DEF Judged
<1> DEFINE bad == {k \in 1 .. count[r] : td[<<r, k>>].st # "done"}
<1>1. process_ep_req(r) = IF bad = {} THEN "ok"
         ELSE IF \E k \in bad : td[<<r, k>>].st = "error" /\ \A j \in bad : k <= j
              THEN "error" ELSE "uncomplete"
  BY DEF process_ep_req
<1> DEFINE first == \E k \in bad : td[<<r, k>>].st = "error" /\ \A j \in bad : k <= j
<1>2. CASE count[r] = 1
  <2>1. bad = IF td[<<r, 1>>].st = "done" THEN {} ELSE {1}
    BY <1>2
  <2> HIDE DEF bad
  <2>2. CASE td[<<r, 1>>].st = "done"
    BY <1>1, <1>2, <2>1, <2>2
  <2>3. CASE td[<<r, 1>>].st # "done"
    <3>1. bad = {1}
      BY <2>1, <2>3
    <3>2. first <=> td[<<r, 1>>].st = "error"
      BY <3>1
    <3> QED
      BY <1>1, <1>2, <2>3, <3>1, <3>2
  <2> QED
    BY <2>2, <2>3
<1>3. CASE count[r] = 2
  <2>1. \A k : k \in bad <=> (k = 1 /\ td[<<r, 1>>].st # "done") \/ (k = 2 /\ td[<<r, 2>>].st # "done")
    BY <1>3
  <2> HIDE DEF bad
  <2>2. CASE td[<<r, 1>>].st # "done"
    <3>1. 1 \in bad /\ \A k \in bad : k = 1 \/ k = 2
      BY <2>1, <2>2
    <3>2. first <=> td[<<r, 1>>].st = "error"
      <4>1. \A k \in bad : (\A j \in bad : k <= j) => k = 1
        BY <3>1
      <4>2. \A j \in bad : 1 <= j
        BY <3>1
      <4> QED
        BY <3>1, <4>1, <4>2
    <3> QED
      BY <1>1, <1>3, <2>2, <3>1, <3>2
  <2>3. CASE td[<<r, 1>>].st = "done" /\ td[<<r, 2>>].st # "done"
    <3>1. bad = {2}
      BY <2>1, <2>3
    <3>2. first <=> td[<<r, 2>>].st = "error"
      BY <3>1
    <3> QED
      BY <1>1, <1>3, <2>3, <3>1, <3>2
  <2>4. CASE td[<<r, 1>>].st = "done" /\ td[<<r, 2>>].st = "done"
    <3>1. bad = {}
      BY <2>1, <2>4
    <3> QED
      BY <1>1, <1>3, <2>4, <3>1
  <2> QED
    BY <2>2, <2>3, <2>4
<1> QED
  BY <1>2, <1>3

\* also after a step.
LEMMA JudgedNext == Judged'
<1>1. []Judged
  BY JudgedNow, PTL
<1> QED
  BY <1>1, PTL

\* The place of a request is unique, and it leaves a list in order.
LEMMA Placed ==
    ASSUME TypeOK, NEW k \in DOMAIN queue
    PROVE  Place(queue[k]) = k
  BY DEF TypeOK, Place

\* A queue without one of its requests has no repetitions either.
LEMMA StillDistinct ==
    ASSUME TypeOK, NEW k \in DOMAIN queue, queue' = RemoveAt(queue, k)
    PROVE  /\ queue' \in Seq(Reqs) /\ \A i, j \in DOMAIN queue' : queue'[i] = queue'[j] => i = j
           /\ Len(queue') = Len(queue) - 1 /\ DOMAIN queue' = 1 .. Len(queue')
           /\ k \in 1 .. Len(queue) /\ Len(queue) \in Nat /\ DOMAIN queue = 1 .. Len(queue)
           /\ \A j \in DOMAIN queue' : queue'[j] = queue[IF j < k THEN j ELSE j + 1]
<1>1. k \in 1 .. Len(queue) /\ Len(queue) \in Nat /\ DOMAIN queue = 1 .. Len(queue)
  BY LenProperties DEF TypeOK
<1>2. /\ queue' \in Seq(Reqs) /\ Len(queue') = Len(queue) - 1
      /\ \A j \in 1 .. Len(queue) - 1 : queue'[j] = queue[IF j < k THEN j ELSE j + 1]
  BY Removed DEF TypeOK
<1>3. DOMAIN queue' = 1 .. Len(queue) - 1
  BY <1>2, LenProperties
<1>4. ASSUME NEW i \in DOMAIN queue', NEW j \in DOMAIN queue', queue'[i] = queue'[j] PROVE i = j
  <2> DEFINE f(x) == IF x < k THEN x ELSE x + 1
  <2>1. f(i) \in DOMAIN queue /\ f(j) \in DOMAIN queue
    BY <1>1, <1>3
  <2>2. queue[f(i)] = queue[f(j)]
    BY <1>2, <1>3, <1>4
  <2>3. f(i) = f(j)
    BY <2>1, <2>2 DEF TypeOK
  <2> QED
    BY <1>1, <1>3, <2>3
<1> QED
  BY <1>1, <1>2, <1>3, <1>4

-----------------------------------------------------------------------------
(* Types.                                                                  *)

\* The types of what the parts of an action compute: dTDs freed,
LEMMA FreeType ==
    ASSUME NEW tds \in [Tds -> TdType], NEW rs
    PROVE  Free(tds, rs) \in [Tds -> TdType]
  BY DEF Free, TdType, T

\* dTDs linked,
LEMMA ChainType ==
    ASSUME TypeOK, NEW r \in Reqs, NEW m \in {1, 2}
    PROVE  Chain(r, m) \in [Tds -> TdType]
<1>1. ASSUME NEW t \in Tds
      PROVE  (IF t[1] = r
              THEN IF t[2] > m THEN td[t]
                   ELSE [st |-> "active", next |-> IF t[2] = m THEN T ELSE <<r, t[2] + 1>>]
              ELSE IF queue # <<>> /\ t = TailTd(queue[Len(queue)])
                   THEN [td[t] EXCEPT !.next = HeadTd(r)]
                   ELSE td[t]) \in TdType
  <2>1. td[t] \in TdType /\ t[2] \in {1, 2}
    BY DEF TypeOK, Tds
  <2>2. t[2] <= m /\ t[2] # m => <<r, t[2] + 1>> \in Tds
    BY <2>1 DEF Tds
  <2>3. [td[t] EXCEPT !.next = HeadTd(r)] \in TdType
    BY <2>1 DEF TdType, HeadTd, Tds
  <2>4. ~(t[2] > m) => [st |-> "active", next |-> IF t[2] = m THEN T ELSE <<r, t[2] + 1>>] \in TdType
    BY <2>1, <2>2 DEF TdType
  <2> QED
    BY <2>1, <2>3, <2>4
<1> QED
  BY <1>1 DEF Chain

\* the queue head written by update_qh,
LEMMA PrimeType ==
    ASSUME NEW r \in Reqs, update_qh(r)
    PROVE  qhnext' \in Tds \cup {T} /\ prime' \in BOOLEAN
<1>1. HeadTd(r) \in Tds
  BY DEF HeadTd, Tds
<1>2. qhnext' = HeadTd(r) /\ prime' = (td'[HeadTd(r)].st = "active")
  BY DEF update_qh
<1> QED
  BY <1>1, <1>2

\* fsl_ep_queue with or without no_interrupt, and without memory.
Submits(r, m) == \E q \in BOOLEAN : fsl_ep_queue(r, m, q)
Refused(r)    == cpu.pc \in {"idle", "irq"} /\ NoMemory(r)

\* What the gadget may do.
LEMMA GadgetDoes ==
    ASSUME Gadget
    PROVE  /\ ~overtaken
           /\ \/ \E r \in Reqs, m \in {1, 2} : cpu.pc \in {"idle", "irq"} /\ Submits(r, m)
              \/ \E r \in Reqs : Refused(r)
              \/ \E r \in Reqs : fsl_ep_dequeue(r)
              \/ fsl_ep_disable \/ fsl_ep_enable
<1>1. ASSUME NEW r \in Reqs, CallbackRequeues(r)
      PROVE  cpu.pc \in {"idle", "irq"} /\ (Submits(r, 1) \/ Refused(r))
  BY <1>1 DEF CallbackRequeues, Submits, Refused
<1>2. ASSUME NEW r \in Reqs, NEW m \in {1, 2}, NEW q \in BOOLEAN, GadgetQueues(r, m, q)
      PROVE  cpu.pc \in {"idle", "irq"} /\ Submits(r, m)
  BY <1>2 DEF GadgetQueues, Submits
<1>3. ASSUME NEW r \in Reqs, GadgetRefused(r) PROVE Refused(r)
  BY <1>3 DEF GadgetRefused, Refused
<1> QED
  BY <1>1, <1>2, <1>3, ArcUdcAssumption DEF Gadget

\* a request queued,
LEMMA QueueType ==
    ASSUME TypeOK, NEW r \in Reqs, NEW m \in {1, 2}, Submits(r, m), cpu.pc \in {"idle", "irq"}
    PROVE  TypeOK'
<1>1. td' \in [Tds -> TdType]
  BY ChainType DEF Submits, fsl_ep_queue
<1>2. status' \in [Reqs -> {"idle", "inprogress", "ok", "error", "gone"}] /\ count' \in [Reqs -> 0 .. 2]
  BY DEF TypeOK, Submits, fsl_ep_queue
<1>3. cpu' \in CpuType
  <2>1. cpu' = cpu \/ cpu' = [cpu EXCEPT !.pc = "test", !.ret = cpu.pc, !.req = r]
    BY DEF Submits, fsl_ep_queue
  <2> QED
    BY <2>1 DEF TypeOK, CpuType
<1>4. queue' \in Seq(Reqs) /\ \A j, k \in DOMAIN queue' : queue'[j] = queue'[k] => j = k
  <2>1. queue' = queue \/ queue' = <<r>>
    BY DEF Submits, fsl_ep_queue
  <2>2. <<r>> \in Seq(Reqs) /\ DOMAIN <<r>> = {1}
    OBVIOUS
  <2>3. CASE queue' = queue
    BY <2>3 DEF TypeOK
  <2>4. CASE queue' = <<r>>
    BY <2>2, <2>4
  <2> QED
    BY <2>1, <2>3, <2>4
<1>5. qhnext' \in Tds \cup {T} /\ prime' \in BOOLEAN
  <2>1. UNCHANGED <<qhnext, prime>> \/ update_qh(r)
    BY DEF Submits, fsl_ep_queue
  <2> QED
    BY <2>1, PrimeType DEF TypeOK
<1>6. quiet' \subseteq Reqs
  BY DEF TypeOK, Submits, fsl_ep_queue
<1> QED
  BY <1>1, <1>2, <1>3, <1>4, <1>5, <1>6 DEF TypeOK, Submits, fsl_ep_queue, ghost

\* a request put on the list,
LEMMA EnqueueType ==
    ASSUME TypeOK, Driving, Linking, Enqueue
    PROVE  /\ queue' \in Seq(Reqs) /\ \A j, k \in DOMAIN queue' : queue'[j] = queue'[k] => j = k
           /\ cpu' \in CpuType
<1>1. queue' = Pending
  BY DEF Enqueue, Pending
<1>2. cpu' \in CpuType
  BY DEF Enqueue, TypeOK, CpuType
<1> QED
  BY <1>1, <1>2, ListedNow DEF Listed

\* a request given back by done,
LEMMA DoneType ==
    ASSUME TypeOK, NEW r \in Queued, NEW s \in {"ok", "error", "gone"}, done(r, s)
    PROVE  /\ queue' \in Seq(Reqs) /\ \A j, k \in DOMAIN queue' : queue'[j] = queue'[k] => j = k
           /\ status' \in [Reqs -> {"idle", "inprogress", "ok", "error", "gone"}]
           /\ count' \in [Reqs -> 0 .. 2] /\ quiet' \subseteq Reqs
<1>1. PICK k \in DOMAIN queue : r = queue[k]
  BY DEF Queued
<1>2. queue' = RemoveAt(queue, k)
  BY <1>1, Placed DEF done
<1>3. status' \in [Reqs -> {"idle", "inprogress", "ok", "error", "gone"}] /\ count' \in [Reqs -> 0 .. 2]
  <2>1. status' = [status EXCEPT ![r] = s] /\ count' = [count EXCEPT ![r] = 0]
    BY DEF done
  <2>2. status \in [Reqs -> {"idle", "inprogress", "ok", "error", "gone"}] /\ count \in [Reqs -> 0 .. 2]
    BY DEF TypeOK
  <2>3. status' \in [Reqs -> {"idle", "inprogress", "ok", "error", "gone"}]
    BY <2>1, <2>2
  <2>4. count' \in [Reqs -> 0 .. 2]
    <3>1. 0 \in 0 .. 2
      OBVIOUS
    <3> QED
      BY <2>1, <2>2, <3>1, Zenon
  <2> QED
    BY <2>3, <2>4
<1>4. quiet' \subseteq Reqs
  BY DEF done, TypeOK
<1> QED
  BY <1>2, <1>3, <1>4, StillDistinct

\* and all of them given back by nuke.
LEMMA NukeType ==
    ASSUME TypeOK, nuke
    PROVE  /\ queue' = <<>> /\ td' \in [Tds -> TdType] /\ hw' \in HwType
           /\ status' \in [Reqs -> {"idle", "inprogress", "ok", "error", "gone"}]
           /\ count' \in [Reqs -> 0 .. 2] /\ quiet' \subseteq Reqs
           /\ prime' = FALSE /\ stranded' = FALSE /\ overtaken' = overtaken
<1>1. td' \in [Tds -> TdType]
  BY FreeType DEF nuke, AllDone, TypeOK
<1>2. hw' \in HwType
  BY DEF nuke, fsl_ep_fifo_flush, HwIdle, HwType
<1> QED
  BY <1>1, <1>2 DEF nuke, AllDone, fsl_ep_fifo_flush, TypeOK

\* Every step preserves the types.
LEMMA TypeStep == IInv /\ [Next]_vars => TypeOK'
<1> SUFFICES ASSUME IInv, [Next]_vars PROVE TypeOK'
  OBVIOUS
<1> USE DEF IInv, Safe, regs, reqs, ghost
<1>0. CASE UNCHANGED vars
  BY <1>0 DEF TypeOK, vars
<1>1. CASE ~overtaken /\ TestPrime
  <2>1. Linking /\ (prime => Enqueue) /\ (~prime => cpu' \in CpuType /\ queue' = queue)
    BY <1>1 DEF TestPrime, Linking, TypeOK, CpuType
  <2> QED
    BY <1>1, <2>1, EnqueueType DEF TestPrime, TypeOK
<1>2. CASE ~overtaken /\ SetTripwire
  <2>1. cpu' \in CpuType
    BY <1>2 DEF SetTripwire, TypeOK, CpuType
  <2> QED
    BY <1>2, <2>1 DEF SetTripwire, TypeOK
<1>3. CASE ~overtaken /\ ReadStat
  <2>1. cpu' \in CpuType
    BY <1>3 DEF ReadStat, TypeOK, CpuType, EndptStat
  <2> QED
    BY <1>3, <2>1 DEF ReadStat, TypeOK
<1>4. CASE ~overtaken /\ CheckTripwire
  <2>1. Linking /\ cpu.req \in Reqs
    BY <1>4 DEF CheckTripwire, Linking, Driving
  <2>2. CASE ~atdtw
    <3>1. cpu' \in CpuType
      BY <1>4, <2>2 DEF CheckTripwire, TypeOK, CpuType
    <3> QED
      BY <1>4, <2>2, <3>1 DEF CheckTripwire, TypeOK
  <2>3. CASE atdtw
    <3>1. qhnext' \in Tds \cup {T} /\ prime' \in BOOLEAN
      <4>1. UNCHANGED <<qhnext, prime>> \/ update_qh(cpu.req)
        BY <1>4, <2>3 DEF CheckTripwire
      <4> QED
        BY <2>1, <4>1, PrimeType DEF TypeOK
    <3>2. Enqueue
      BY <1>4, <2>3 DEF CheckTripwire
    <3> QED
      BY <1>4, <2>1, <2>3, <3>1, <3>2, EnqueueType DEF CheckTripwire, TypeOK
  <2> QED
    BY <2>2, <2>3
<1>5. CASE ~overtaken /\ dtd_complete_irq
  <2>1. CASE cpu.pc = "idle"
    <3>1. FirstReq \in Reqs \cup {NoReq}
      <4>1. CASE queue = <<>>
        BY <4>1 DEF FirstReq
      <4>2. CASE queue # <<>>
        BY <4>2, HeadTailProperties DEF FirstReq, TypeOK
      <4> QED
        BY <4>1, <4>2
    <3>2. cpu' \in CpuType
      BY <1>5, <2>1, <3>1 DEF dtd_complete_irq, TypeOK, CpuType
    <3> QED
      BY <1>5, <2>1, <3>2 DEF dtd_complete_irq, TypeOK
  <2>2. CASE cpu.pc = "irq" /\ (cpu.next = NoReq \/ process_ep_req(cpu.next) = "uncomplete")
    <3>1. cpu' \in CpuType
      <4>1. cpu' = Idle
        BY <1>5, <2>2 DEF dtd_complete_irq
      <4> QED
        BY <4>1 DEF CpuType, Idle
    <3> QED
      BY <1>5, <2>2, <3>1 DEF dtd_complete_irq, TypeOK
  <2>3. CASE cpu.pc = "irq" /\ ~(cpu.next = NoReq \/ process_ep_req(cpu.next) = "uncomplete")
    <3> DEFINE r == cpu.next
    <3>1. /\ r # NoReq /\ process_ep_req(r) # "uncomplete"
          /\ done(r, process_ep_req(r)) /\ td' = Free(td, {r}) /\ cpu' = [cpu EXCEPT !.next = Behind(r)]
          /\ stranded' = (stranded /\ queue' # <<>>)
          /\ UNCHANGED <<overtaken, configured, regs, hw>>
      BY <1>5, <2>3 DEF dtd_complete_irq
    <3>2. process_ep_req(r) \in {"ok", "error"}
      BY <3>1 DEF process_ep_req
    <3>3. queue # <<>> /\ r = queue[1]
      BY <1>5, <2>3, <3>1 DEF Driving
    <3>4. DOMAIN queue = 1 .. Len(queue) /\ Len(queue) \in Nat \ {0} /\ \A k \in DOMAIN queue : queue[k] \in Reqs
      BY <3>3, LenProperties, EmptySeq DEF TypeOK
    <3>5. r \in Queued /\ Place(r) = 1
      BY <3>3, <3>4, Placed DEF Queued
    <3>6. Behind(r) \in Reqs \cup {NoReq}
      BY <3>4, <3>5 DEF Behind
    <3>7. cpu' \in CpuType
      BY <3>1, <3>6 DEF TypeOK, CpuType
    <3>8. td' \in [Tds -> TdType]
      BY <3>1, FreeType DEF TypeOK
    <3>9. stranded' \in BOOLEAN
      BY <3>1 DEF TypeOK
    <3> QED
      BY <3>1, <3>2, <3>5, <3>7, <3>8, <3>9, DoneType DEF TypeOK
  <2> QED
    BY <1>5, <2>1, <2>2, <2>3 DEF dtd_complete_irq
<1>6. CASE ~overtaken /\ Dequeued
  <2>1. cpu.req \in Queued
    BY <1>6 DEF Dequeued, Driving
  <2>2. /\ queue' \in Seq(Reqs) /\ \A j, k \in DOMAIN queue' : queue'[j] = queue'[k] => j = k
        /\ status' \in [Reqs -> {"idle", "inprogress", "ok", "error", "gone"}]
        /\ count' \in [Reqs -> 0 .. 2] /\ quiet' \subseteq Reqs
    BY <1>6, <2>1, DoneType DEF Dequeued
  <2>3. /\ td' \in [Tds -> TdType] /\ hw' \in HwType /\ prime' \in BOOLEAN
        /\ stranded' \in BOOLEAN /\ overtaken' \in BOOLEAN
    <3>1. CASE cpu.req = Head(queue)
      <4>1. td' \in [Tds -> TdType]
        BY <1>6, <3>1, FreeType DEF Dequeued, Unlink, TypeOK
      <4>2. hw' \in HwType
        BY <1>6, <3>1 DEF Dequeued, Unlink, fsl_ep_fifo_flush, HwIdle, HwType
      <4> QED
        BY <1>6, <3>1, <4>1, <4>2 DEF Dequeued, Unlink, fsl_ep_fifo_flush, TypeOK
    <3>2. CASE cpu.req # Head(queue)
      <4> DEFINE prev == queue[Place(cpu.req) - 1]
      <4>1. PICK k \in DOMAIN queue : cpu.req = queue[k]
        BY <2>1 DEF Queued
      <4>2. /\ DOMAIN queue = 1 .. Len(queue) /\ Len(queue) \in Nat /\ \A j \in DOMAIN queue : queue[j] \in Reqs
            /\ Head(queue) = queue[1]
        BY LenProperties DEF TypeOK
      <4>3. k > 1 /\ Place(cpu.req) = k
        BY <3>2, <4>1, <4>2, Placed
      <4>4. prev \in Reqs
        BY <4>2, <4>3
      <4>5. /\ td' = Free([td EXCEPT ![TailTd(prev)].next = td[TailTd(cpu.req)].next], {cpu.req})
            /\ overtaken' \in BOOLEAN /\ UNCHANGED <<hw, prime, stranded>>
        BY <1>6, <3>2 DEF Dequeued, Unlink
      <4>6. count[cpu.req] \in {1, 2} /\ count[prev] \in {1, 2}
        <5>1. count[cpu.req] # 0 /\ count[prev] # 0
          BY <1>6, <4>1, <4>2, <4>3 DEF Dequeued, Sized, Members, Pending, Linking
        <5>2. count[cpu.req] \in 0 .. 2 /\ count[prev] \in 0 .. 2
          BY <4>1, <4>2, <4>4 DEF TypeOK
        <5> QED
          BY <5>1, <5>2
      <4>7. TailTd(prev) \in Tds /\ TailTd(cpu.req) \in Tds
        BY <4>1, <4>2, <4>4, <4>6 DEF TailTd, Tds
      <4> HIDE DEF prev
      <4>8. [td EXCEPT ![TailTd(prev)].next = td[TailTd(cpu.req)].next] \in [Tds -> TdType]
        BY <4>7 DEF TypeOK, TdType
      <4>9. td' \in [Tds -> TdType]
        BY <4>5, <4>8, FreeType
      <4> QED
        BY <4>5, <4>9 DEF TypeOK
    <3> QED
      BY <3>1, <3>2
  <2>4. cpu' \in CpuType
    BY <1>6 DEF Dequeued, Idle, CpuType
  <2> QED
    BY <1>6, <2>2, <2>3, <2>4 DEF Dequeued, TypeOK
<1>7. CASE ~overtaken /\ ResetQueues
  <2>1. cpu' \in CpuType
    BY <1>7 DEF ResetQueues, Idle, CpuType
  <2>2. queue' \in Seq(Reqs) /\ DOMAIN queue' = {}
    BY <1>7, NukeType DEF ResetQueues
  <2> QED
    BY <1>7, <2>1, <2>2, NukeType DEF ResetQueues, TypeOK
<1>8. ASSUME NEW r \in Reqs, Refused(r) PROVE TypeOK'
  BY <1>8 DEF Refused, NoMemory, TypeOK
<1>9. ASSUME ~overtaken, NEW r \in Reqs, fsl_ep_dequeue(r) PROVE TypeOK'
  <2>1. cpu' \in CpuType
    BY <1>9 DEF fsl_ep_dequeue, TypeOK, CpuType
  <2> QED
    BY <1>9, <2>1 DEF fsl_ep_dequeue, TypeOK
<1>10. ASSUME NEW r \in Reqs, NEW m \in {1, 2}, cpu.pc \in {"idle", "irq"}, Submits(r, m) PROVE TypeOK'
  BY <1>10, QueueType
<1>11. CASE ~overtaken /\ fsl_ep_disable
  <2>1. CASE enabled
    BY <1>11, <2>1 DEF fsl_ep_disable, TypeOK
  <2>2. CASE ~enabled
    <3>1. queue' \in Seq(Reqs) /\ DOMAIN queue' = {}
      BY <1>11, <2>2, NukeType DEF fsl_ep_disable
    <3> QED
      BY <1>11, <2>2, <3>1, NukeType DEF fsl_ep_disable, TypeOK
  <2> QED
    BY <2>1, <2>2
<1>12. CASE ~overtaken /\ fsl_ep_enable
  BY <1>12 DEF fsl_ep_enable, TypeOK
<1>13. CASE ~overtaken /\ reset_irq
  <2>1. cpu' \in CpuType
    BY <1>13 DEF reset_irq, TypeOK, CpuType
  <2> QED
    BY <1>13, <2>1 DEF reset_irq, TypeOK
<1>14. CASE ~overtaken /\ HwStarts
  <2>1. hw' \in HwType
    BY <1>14 DEF HwStarts, TypeOK, HwType
  <2> QED
    BY <1>14, <2>1 DEF HwStarts, TypeOK
<1>15. CASE ~overtaken /\ HwAdvances
  <2>1. hw' \in HwType
    BY <1>15 DEF HwAdvances, TypeOK, HwType, HwIdle
  <2> QED
    BY <1>15, <2>1 DEF HwAdvances, TypeOK
<1>16. CASE ~overtaken /\ HwMoves
  <2>1. hw.cur \in Tds
    BY <1>16 DEF HwMoves, Registers, TypeOK, HwType
  <2>2. td' \in [Tds -> TdType] /\ hw' \in HwType
    BY <1>16, <2>1 DEF HwMoves, TypeOK, HwType, TdType
  <2> QED
    BY <1>16, <2>2 DEF HwMoves, TypeOK
<1>17. CASE ~overtaken /\ HwFails
  <2>1. hw.cur \in Tds
    BY <1>17 DEF HwFails, Registers, TypeOK, HwType
  <2>2. td' \in [Tds -> TdType] /\ hw' \in HwType
    BY <1>17, <2>1 DEF HwFails, TypeOK, HwType, TdType, HwIdle
  <2> QED
    BY <1>17, <2>2 DEF HwFails, TypeOK
<1> QED
  BY <1>0, <1>1, <1>2, <1>3, <1>4, <1>5, <1>6, <1>7, <1>8, <1>9, <1>10, <1>11, <1>12, <1>13, <1>14,
     <1>15, <1>16, <1>17, GadgetDoes
  DEF Next, Driver, Controller, Bus, Undefined

-----------------------------------------------------------------------------
(* The driver, the registers and the controller's place.                   *)

\* The first request of a list that is not empty, and its end.
LEMMA Ends ==
    ASSUME TypeOK
    PROVE  /\ DOMAIN queue = 1 .. Len(queue) /\ Len(queue) \in Nat
           /\ \A k \in DOMAIN queue : queue[k] \in Reqs /\ queue[k] \in Queued /\ queue[k] # NoReq
           /\ queue # <<>> => Len(queue) > 0 /\ Head(queue) = queue[1]
           /\ queue = <<>> => Len(queue) = 0
<1>1. DOMAIN queue = 1 .. Len(queue) /\ Len(queue) \in Nat /\ \A k \in DOMAIN queue : queue[k] \in Reqs
  BY LenProperties DEF TypeOK
<1>2. queue # <<>> => Len(queue) > 0 /\ Head(queue) = queue[1]
  BY <1>1, EmptySeq DEF TypeOK
<1> QED
  BY <1>1, <1>2, ArcUdcAssumption DEF Queued

\* The ends of the queue after a step.
LEMMA EndsNext ==
    TypeOK' => (/\ DOMAIN queue = 1 .. Len(queue) /\ Len(queue) \in Nat
                /\ \A k \in DOMAIN queue : queue[k] \in Reqs /\ queue[k] \in Queued /\ queue[k] # NoReq
                /\ queue # <<>> => Len(queue) > 0 /\ Head(queue) = queue[1]
                /\ queue = <<>> => Len(queue) = 0)'
<1> DEFINE E == /\ DOMAIN queue = 1 .. Len(queue) /\ Len(queue) \in Nat
                /\ \A k \in DOMAIN queue : queue[k] \in Reqs /\ queue[k] \in Queued /\ queue[k] # NoReq
                /\ queue # <<>> => Len(queue) > 0 /\ Head(queue) = queue[1]
                /\ queue = <<>> => Len(queue) = 0
<1>1. TypeOK => E
  BY Ends
<1>2. [](TypeOK => E)
  BY <1>1, PTL
<1> HIDE DEF E
<1>3. TypeOK' => E'
  BY <1>2, PTL
<1> QED
  BY <1>3 DEF E

\* Without a pending request the controller has nowhere to go.
LEMMA NothingPending ==
    ASSUME TypeOK, Safe, ~Linking, queue = <<>>
    PROVE  HwPosition = T /\ ~prime /\ hw.phase # "active" /\ (hw.phase = "advance" => hw.next = T)
<1>1. HwPosition = T
  BY Ends DEF Safe, Positioned, Pending
<1> QED
  BY <1>1 DEF Safe, Registers, HwPosition, TypeOK, HwType

\* Taking request k off the list.
LEMMA DoneIs ==
    ASSUME TypeOK, NEW k \in DOMAIN queue, NEW s, done(queue[k], s)
    PROVE  /\ queue' = RemoveAt(queue, k)
           /\ status' = [status EXCEPT ![queue[k]] = s] /\ count' = [count EXCEPT ![queue[k]] = 0]
           /\ Len(queue') = Len(queue) - 1 /\ DOMAIN queue' = 1 .. Len(queue')
           /\ k \in 1 .. Len(queue) /\ Len(queue) \in Nat /\ DOMAIN queue = 1 .. Len(queue)
           /\ \A j \in DOMAIN queue' : queue'[j] = queue[IF j < k THEN j ELSE j + 1]
  BY Placed, StillDistinct DEF done

\* The linked request becomes the last of the list.
LEMMA EnqueueIs ==
    ASSUME TypeOK, Driving, Linking, Enqueue
    PROVE  /\ queue' = Pending /\ queue' # <<>> /\ queue'[1] = queue[1]
           /\ cpu'.pc = cpu.ret /\ cpu'.next = cpu.next /\ cpu'.ret = cpu.ret /\ cpu'.pc \in {"idle", "irq"}
<1>1. queue' = Pending
  BY DEF Enqueue, Pending
<1>2. Pending # <<>> /\ Pending[1] = queue[1]
  BY ListedNow, EmptySeq DEF Listed
<1> QED
  BY <1>1, <1>2 DEF Enqueue, TypeOK, CpuType

\* Every step preserves Driving,
LEMMA DriveStep ==
    ASSUME IInv, ~overtaken, Next, TypeOK'
    PROVE  overtaken' \/ Driving'
<1> USE DEF IInv, Safe, regs, reqs, ghost
<1>0. CASE UNCHANGED vars
  BY <1>0 DEF Driving, vars, Linking, Queued
<1>1. CASE TestPrime
  <2>1. CASE prime
    <3>1. Linking /\ Enqueue /\ stranded' = stranded
      BY <1>1, <2>1 DEF TestPrime, Linking
    <3> QED
      BY <3>1, EnqueueIs DEF Driving, Linking
  <2>2. CASE ~prime
    BY <1>1, <2>2 DEF TestPrime, Driving, Linking, Queued, TypeOK, CpuType
  <2> QED
    BY <2>1, <2>2
<1>2. CASE SetTripwire
  BY <1>2 DEF SetTripwire, Driving, Linking, Queued, TypeOK, CpuType
<1>3. CASE ReadStat
  BY <1>3 DEF ReadStat, Driving, Linking, Queued, TypeOK, CpuType
<1>4. CASE CheckTripwire
  <2>1. CASE atdtw
    <3>1. Linking /\ Enqueue /\ stranded' = stranded
      BY <1>4, <2>1 DEF CheckTripwire, Linking
    <3> QED
      BY <3>1, EnqueueIs DEF Driving, Linking
  <2>2. CASE ~atdtw
    BY <1>4, <2>2 DEF CheckTripwire, Driving, Linking, Queued, TypeOK, CpuType
  <2> QED
    BY <2>1, <2>2
<1>5. CASE dtd_complete_irq
  <2>1. CASE cpu.pc = "idle"
    BY <1>5, <2>1, Ends, ZenonT(60) DEF dtd_complete_irq, FirstReq, Driving, Linking, Queued, TypeOK, CpuType
  <2>2. CASE cpu.pc = "irq" /\ (cpu.next = NoReq \/ process_ep_req(cpu.next) = "uncomplete")
    BY <1>5, <2>2 DEF dtd_complete_irq, Idle, Driving, Linking, Queued
  <2>3. CASE cpu.pc = "irq" /\ ~(cpu.next = NoReq \/ process_ep_req(cpu.next) = "uncomplete")
    <3>1. queue # <<>> /\ cpu.next = queue[1] /\ 1 \in DOMAIN queue
      BY <2>3, Ends DEF Driving
    <3>2. /\ done(queue[1], process_ep_req(queue[1]))
          /\ cpu'.next = Behind(queue[1]) /\ cpu'.pc = "irq"
          /\ stranded' = (stranded /\ queue' # <<>>)
      BY <1>5, <2>3, <3>1 DEF dtd_complete_irq, TypeOK, CpuType
    <3>3. Behind(queue[1]) = IF Len(queue) = 1 THEN NoReq ELSE queue[2]
      <4>1. Place(queue[1]) = 1
        BY <3>1, Placed
      <4> QED
        BY <4>1 DEF Behind
    <3>4. Len(queue) # 1 => queue' # <<>> /\ queue'[1] = queue[2]
      <4>1. /\ Len(queue') = Len(queue) - 1 /\ DOMAIN queue' = 1 .. Len(queue') /\ Len(queue) \in Nat
            /\ \A j \in DOMAIN queue' : queue'[j] = queue[IF j < 1 THEN j ELSE j + 1]
            /\ 1 \in 1 .. Len(queue)
        BY <3>1, <3>2, DoneIs
      <4>2. Len(queue) # 1 => 1 \in DOMAIN queue'
        BY <4>1
      <4> QED
        BY <4>1, <4>2, EndsNext
    <3> QED
      BY <3>2, <3>3, <3>4 DEF Driving, Linking
  <2> QED
    BY <1>5, <2>1, <2>2, <2>3 DEF dtd_complete_irq
<1>6. CASE Dequeued
  <2>1. PICK k \in DOMAIN queue : cpu.req = queue[k]
    BY <1>6 DEF Dequeued, Driving, Queued
  <2>2. done(queue[k], "gone") /\ cpu' = Idle /\ Unlink(queue[k])
    BY <1>6, <2>1 DEF Dequeued
  <2>3. overtaken' \/ (stranded' => queue' # <<>>)
    <3>1. CASE queue[k] = Head(queue)
      <4>1. stranded' => Queued # {queue[k]}
        BY <2>2, <3>1 DEF Unlink
      <4>2. Queued # {queue[k]} => Len(queue) > 1
        BY Ends DEF Queued
      <4> QED
        BY <2>2, <4>1, <4>2, DoneIs, EndsNext
    <3>2. CASE queue[k] # Head(queue)
      <4>1. Len(queue) > 1
        BY <3>2, Ends
      <4> QED
        BY <2>2, <4>1, DoneIs, EndsNext
    <3> QED
      BY <3>1, <3>2
  <2> QED
    BY <2>2, <2>3 DEF Driving, Idle, Linking
<1>7. CASE ResetQueues
  BY <1>7 DEF ResetQueues, nuke, Idle, Driving, Linking
<1>8. ASSUME NEW r \in Reqs, NEW m \in {1, 2}, cpu.pc \in {"idle", "irq"}, Submits(r, m) PROVE Driving'
  <2>1. CASE queue = <<>>
    <3>1. queue' = <<r>> /\ cpu' = cpu /\ ~stranded' /\ (cpu.pc = "irq" => cpu.next = NoReq)
      BY <1>8, <2>1 DEF Submits, fsl_ep_queue, Driving
    <3> QED
      BY <1>8, <3>1 DEF Driving, Linking
  <2>2. CASE queue # <<>>
    <3>1. /\ cpu'.pc = "test" /\ cpu'.ret = cpu.pc /\ cpu'.req = r /\ cpu'.next = cpu.next
          /\ queue' = queue /\ stranded' = stranded /\ r \notin Queued
      <4>1. cpu' = [cpu EXCEPT !.pc = "test", !.ret = cpu.pc, !.req = r]
        BY <1>8, <2>2 DEF Submits, fsl_ep_queue
      <4>2. cpu'.pc = "test" /\ cpu'.ret = cpu.pc /\ cpu'.req = r /\ cpu'.next = cpu.next
        BY <4>1 DEF TypeOK, CpuType
      <4> QED
        BY <1>8, <2>2, <4>2 DEF Submits, fsl_ep_queue, Bogus
    <3> QED
      BY <1>8, <2>2, <3>1 DEF Driving, Linking, Queued
  <2> QED
    BY <2>1, <2>2
<1>9. ASSUME NEW r \in Reqs, fsl_ep_dequeue(r) PROVE Driving'
  BY <1>9 DEF fsl_ep_dequeue, Driving, Linking, Queued, TypeOK, CpuType
<1>10. ASSUME NEW r \in Reqs, Refused(r) PROVE Driving'
  BY <1>10 DEF Refused, NoMemory, Driving, Linking, Queued
<1>11. CASE fsl_ep_disable
  BY <1>11 DEF fsl_ep_disable, nuke, Driving, Linking, Queued
<1>12. CASE fsl_ep_enable
  BY <1>12 DEF fsl_ep_enable, Driving, Linking, Queued
<1>13. CASE reset_irq
  BY <1>13 DEF reset_irq, Driving, Linking, Queued, TypeOK, CpuType
<1>14. CASE HwStarts
  BY <1>14 DEF HwStarts, Driving, Linking, Queued
<1>15. CASE HwAdvances
  BY <1>15 DEF HwAdvances, Driving, Linking, Queued
<1>16. CASE HwMoves
  BY <1>16 DEF HwMoves, Driving, Linking, Queued
<1>17. CASE HwFails
  <2>1. stranded' => queue # <<>>
    <3>1. queue = <<>> => Queued = {}
      BY Ends DEF Queued
    <3>2. Queued = {} => Unfinished(Queued \ {hw.cur[1]}) = {}
      BY DEF Unfinished
    <3> QED
      BY <1>17, <3>1, <3>2 DEF HwFails, Driving
  <2> QED
    BY <1>17, <2>1 DEF HwFails, Driving, Linking, Queued
<1> QED
  BY <1>0, <1>1, <1>2, <1>3, <1>4, <1>5, <1>6, <1>7, <1>8, <1>9, <1>10, <1>11, <1>12, <1>13, <1>14,
     <1>15, <1>16, <1>17, GadgetDoes
  DEF Next, Driver, Controller, Bus, Undefined

\* update_qh points at a dTD.
LEMMA PrimeIs ==
    ASSUME NEW r \in Reqs, update_qh(r)
    PROVE  qhnext' = <<r, 1>> /\ qhnext' # T /\ prime' = (td'[<<r, 1>>].st = "active")
  BY DEF update_qh, HeadTd, T

\* and Registers.
LEMMA RegStep ==
    ASSUME IInv, ~overtaken, Next, TypeOK'
    PROVE  overtaken' \/ Registers'
<1> USE DEF IInv, Safe, regs, reqs, ghost
<1>0. CASE UNCHANGED vars
  BY <1>0 DEF Registers, vars
<1>1. CASE TestPrime
  <2>1. CASE prime
    <3>1. Linking /\ Enqueue
      BY <1>1, <2>1 DEF TestPrime, Linking
    <3>2. cpu'.pc \in {"idle", "irq"}
      BY <3>1, EnqueueIs
    <3> QED
      BY <1>1, <3>2 DEF TestPrime, Registers
  <2>2. CASE ~prime
    BY <1>1, <2>2 DEF TestPrime, Registers, TypeOK, CpuType
  <2> QED
    BY <2>1, <2>2
<1>2. CASE SetTripwire
  BY <1>2 DEF SetTripwire, Registers, TypeOK, CpuType
<1>3. CASE ReadStat
  <2>1. cpu'.pc = "check" /\ cpu'.primed = (hw.phase # "idle")
    BY <1>3 DEF ReadStat, TypeOK, CpuType, EndptStat
  <2> QED
    BY <1>3, <2>1 DEF ReadStat, Registers, TypeOK, HwType
<1>4. CASE CheckTripwire
  <2>1. CASE atdtw
    <3>1. Linking /\ Enqueue /\ cpu.req \in Reqs
      BY <1>4, <2>1 DEF CheckTripwire, Linking, Driving
    <3>2. cpu'.pc \in {"idle", "irq"} /\ ~atdtw' /\ hw' = hw
      BY <1>4, <2>1, <3>1, EnqueueIs DEF CheckTripwire
    <3>3. CASE cpu.primed
      BY <1>4, <2>1, <3>2, <3>3 DEF CheckTripwire, Registers
    <3>4. CASE ~cpu.primed
      <4>1. hw.phase = "idle"
        BY <1>4, <2>1, <3>4 DEF CheckTripwire, Registers, TypeOK, HwType
      <4>2. qhnext' # T
        BY <1>4, <2>1, <3>1, <3>4, PrimeIs DEF CheckTripwire
      <4> QED
        BY <3>2, <4>1, <4>2 DEF Registers
    <3> QED
      BY <3>3, <3>4
  <2>2. CASE ~atdtw
    BY <1>4, <2>2 DEF CheckTripwire, Registers, TypeOK, CpuType
  <2> QED
    BY <2>1, <2>2
<1>5. CASE dtd_complete_irq
  <2>1. cpu'.pc \in {"idle", "irq"} /\ cpu.pc \in {"idle", "irq"}
    <3>1. cpu.pc \in {"idle", "irq"}
      BY <1>5 DEF dtd_complete_irq
    <3>2. \/ cpu' = Idle
          \/ cpu' = [cpu EXCEPT !.pc = "irq", !.ret = "irq", !.next = FirstReq]
          \/ cpu.pc = "irq" /\ cpu' = [cpu EXCEPT !.next = Behind(cpu.next)]
      BY <1>5 DEF dtd_complete_irq
    <3>3. cpu'.pc \in {"idle", "irq"}
      <4>1. cpu \in CpuType
        BY DEF TypeOK
      <4>2. CASE cpu' = Idle
        BY <4>2 DEF Idle
      <4>3. CASE cpu' = [cpu EXCEPT !.pc = "irq", !.ret = "irq", !.next = FirstReq]
        BY <4>1, <4>3 DEF CpuType
      <4>4. CASE cpu.pc = "irq" /\ cpu' = [cpu EXCEPT !.next = Behind(cpu.next)]
        BY <4>1, <4>4 DEF CpuType
      <4> QED
        BY <3>2, <4>2, <4>3, <4>4
    <3> QED
      BY <3>1, <3>3
  <2> QED
    BY <1>5, <2>1 DEF dtd_complete_irq, Registers
<1>6. CASE Dequeued
  <2>1. (hw' = HwIdle /\ prime' = FALSE) \/ UNCHANGED <<hw, prime>>
    BY <1>6 DEF Dequeued, Unlink, fsl_ep_fifo_flush
  <2> QED
    BY <1>6, <2>1 DEF Dequeued, Registers, HwIdle, Idle
<1>7. CASE ResetQueues
  BY <1>7 DEF ResetQueues, nuke, fsl_ep_fifo_flush, HwIdle, Idle, Registers
<1>8. ASSUME NEW r \in Reqs, NEW m \in {1, 2}, cpu.pc \in {"idle", "irq"}, Submits(r, m) PROVE Registers'
  <2>1. CASE queue = <<>>
    <3>1. qhnext' # T /\ UNCHANGED <<cpu, hw, atdtw>>
      BY <1>8, <2>1, PrimeIs DEF Submits, fsl_ep_queue
    <3>2. hw.phase # "active" /\ (hw.phase = "advance" => hw.next = T)
      BY <1>8, <2>1, NothingPending DEF Linking
    <3> QED
      BY <1>8, <3>1, <3>2 DEF Registers
  <2>2. CASE queue # <<>>
    <3>1. cpu'.pc = "test"
      BY <1>8, <2>2, ZenonT(60) DEF Submits, fsl_ep_queue, TypeOK, CpuType
    <3> QED
      BY <1>8, <2>2, <3>1 DEF Submits, fsl_ep_queue, Registers
  <2> QED
    BY <2>1, <2>2
<1>9. ASSUME NEW r \in Reqs, fsl_ep_dequeue(r) PROVE Registers'
  BY <1>9 DEF fsl_ep_dequeue, Registers, TypeOK, CpuType
<1>10. ASSUME NEW r \in Reqs, Refused(r) PROVE Registers'
  BY <1>10 DEF Refused, NoMemory, Registers
<1>11. CASE fsl_ep_disable
  <2>1. (hw' = HwIdle /\ prime' = FALSE) \/ UNCHANGED <<hw, prime>>
    BY <1>11 DEF fsl_ep_disable, nuke, fsl_ep_fifo_flush
  <2> QED
    BY <1>11, <2>1 DEF fsl_ep_disable, Registers, HwIdle
<1>12. CASE fsl_ep_enable
  BY <1>12 DEF fsl_ep_enable, Registers
<1>13. CASE reset_irq
  BY <1>13 DEF reset_irq, Registers, TypeOK, CpuType
<1>14. CASE HwStarts
  BY <1>14 DEF HwStarts, Registers
<1>15. CASE HwAdvances
  BY <1>15 DEF HwAdvances, HwIdle, Registers
<1>16. CASE HwMoves
  BY <1>16 DEF HwMoves, Registers, TypeOK, HwType
<1>17. CASE HwFails
  BY <1>17 DEF HwFails, HwIdle, Registers
<1> QED
  BY <1>0, <1>1, <1>2, <1>3, <1>4, <1>5, <1>6, <1>7, <1>8, <1>9, <1>10, <1>11, <1>12, <1>13, <1>14,
     <1>15, <1>16, <1>17, GadgetDoes
  DEF Next, Driver, Controller, Bus, Undefined

-----------------------------------------------------------------------------
(* The chain.                                                              *)

\* Every pending request has one or two dTDs.
LEMMA PendingSizes ==
    ASSUME TypeOK, Driving, Sized
    PROVE  /\ Listed
           /\ \A k \in DOMAIN Pending : /\ Pending[k] \in Reqs
                                        /\ count[Pending[k]] \in {1, 2}
                                        /\ <<Pending[k], 1>> \in Tds /\ <<Pending[k], 2>> \in Tds
<1>1. Listed
  BY ListedNow
<1>2. ASSUME NEW k \in DOMAIN Pending
      PROVE  Pending[k] \in Reqs /\ count[Pending[k]] \in {1, 2}
  <2>1. Pending[k] \in Reqs
    BY <1>1 DEF Listed
  <2>2. count[Pending[k]] # 0
    BY <2>1 DEF Sized, Members
  <2>3. count[Pending[k]] \in 0 .. 2
    BY <2>1 DEF TypeOK
  <2> QED
    BY <2>1, <2>2, <2>3
<1> QED
  BY <1>1, <1>2 DEF Tds

\* Places in the list are numbers.
LEMMA Indices ==
    ASSUME Listed
    PROVE  /\ Len(Pending) \in Nat /\ DOMAIN Pending = 1 .. Len(Pending)
           /\ \A j, k \in DOMAIN Pending : Pending[j] = Pending[k] => j = k
           /\ \A m \in DOMAIN queue : m \in DOMAIN Pending /\ Pending[m] = queue[m]
           /\ Linking => Len(Pending) \in DOMAIN Pending /\ Pending[Len(Pending)] = cpu.req
           /\ Linking => \A m \in DOMAIN Pending : m = Len(Pending) \/ m \in DOMAIN queue
<1>1. /\ Len(Pending) \in Nat /\ DOMAIN Pending = 1 .. Len(Pending)
      /\ \A j, k \in DOMAIN Pending : Pending[j] = Pending[k] => j = k
      /\ DOMAIN queue = 1 .. Len(queue) /\ Len(queue) \in Nat
      /\ \A m \in DOMAIN queue : Pending[m] = queue[m]
  BY DEF Listed
<1>2. ~Linking => Pending = queue
  BY DEF Listed
<1>3. Linking => Len(Pending) = Len(queue) + 1 /\ Pending[Len(Pending)] = cpu.req
  BY DEF Listed
<1>4. Linking => /\ \A m \in DOMAIN queue : m \in DOMAIN Pending
                 /\ Len(Pending) \in DOMAIN Pending
                 /\ \A m \in DOMAIN Pending : m = Len(Pending) \/ m \in DOMAIN queue
  BY <1>1, <1>3
<1> QED
  BY <1>1, <1>2, <1>3, <1>4

\* A request whose dTDs a step leaves alone is judged as before.
LEMMA SameJudgement ==
    ASSUME NEW r \in Reqs, count[r] \in {1, 2}, count'[r] = count[r],
           td'[<<r, 1>>].st = td[<<r, 1>>].st, td'[<<r, 2>>].st = td[<<r, 2>>].st
    PROVE  process_ep_req(r)' = process_ep_req(r) /\ (Open(r)' <=> Open(r)) /\ (Fresh(r)' <=> Fresh(r))
<1>1. process_ep_req(r)' = process_ep_req(r)
  BY JudgedNow, JudgedNext DEF Judged
<1> QED
  BY <1>1 DEF Open, Fresh

\* A step that touches neither dTDs nor the place of the controller preserves the chain.
LEMMA Frame ==
    ASSUME Sized, Chained, Positioned,
           UNCHANGED <<Pending, count, td, HwPosition, stranded>>
    PROVE  /\ Sized' /\ Chained' /\ Positioned'
           /\ \A r : (Open(r)' <=> Open(r)) /\ (Fresh(r)' <=> Fresh(r))
<1>1. \A r : (Open(r)' <=> Open(r)) /\ (Fresh(r)' <=> Fresh(r))
  BY DEF Open, Fresh, process_ep_req
<1>2. Sized'
  BY DEF Sized, Members
<1>3. Chained'
  BY DEF Chained, NextTd
<1>4. Positioned'
  BY <1>1 DEF Positioned, At
<1> QED
  BY <1>1, <1>2, <1>3, <1>4

\* The steps that leave the list, the dTDs and the controller's place alone.
LEMMA QuietStep ==
    ASSUME IInv, ~overtaken,
           UNCHANGED <<Pending, queue, count, td, HwPosition, stranded>>,
           Linking' => Linking /\ cpu'.req = cpu.req
    PROVE  Sized' /\ Chained' /\ Positioned' /\ Arrived'
<1>1. /\ Sized' /\ Chained' /\ Positioned'
      /\ \A r : (Open(r)' <=> Open(r)) /\ (Fresh(r)' <=> Fresh(r))
  BY Frame DEF IInv, Safe
<1>2. Arrived'
  BY <1>1 DEF IInv, Safe, Arrived
<1> QED
  BY <1>1, <1>2

\* The steps that touch neither,
LEMMA QuietSame ==
    ASSUME IInv, ~overtaken,
           \/ TestPrime /\ ~prime
           \/ SetTripwire
           \/ ReadStat
           \/ CheckTripwire /\ ~atdtw
           \/ dtd_complete_irq /\ ~(cpu.pc = "irq" /\ cpu.next # NoReq /\ ~Open(cpu.next))
           \/ \E r \in Reqs : fsl_ep_dequeue(r)
           \/ reset_irq
           \/ fsl_ep_enable
           \/ fsl_ep_disable /\ enabled
           \/ HwStarts
           \/ HwAdvances
           \/ UNCHANGED vars
    PROVE  /\ UNCHANGED <<Pending, queue, status, count, td, HwPosition, stranded>>
           /\ Linking' => Linking /\ cpu'.req = cpu.req
<1> USE DEF regs, reqs, ghost
<1>1. CASE TestPrime /\ ~prime
  <2>1. Linking /\ Linking' /\ cpu'.req = cpu.req
    BY <1>1 DEF TestPrime, Linking, IInv, TypeOK, CpuType
  <2> QED
    BY <1>1, <2>1 DEF TestPrime, Pending, HwPosition
<1>2. CASE SetTripwire
  <2>1. Linking /\ Linking' /\ cpu'.req = cpu.req
    BY <1>2 DEF SetTripwire, Linking, IInv, TypeOK, CpuType
  <2> QED
    BY <1>2, <2>1 DEF SetTripwire, Pending, HwPosition
<1>3. CASE ReadStat
  <2>1. Linking /\ Linking' /\ cpu'.req = cpu.req
    BY <1>3 DEF ReadStat, Linking, IInv, TypeOK, CpuType
  <2> QED
    BY <1>3, <2>1 DEF ReadStat, Pending, HwPosition
<1>4. CASE CheckTripwire /\ ~atdtw
  <2>1. Linking /\ Linking' /\ cpu'.req = cpu.req
    BY <1>4 DEF CheckTripwire, Linking, IInv, TypeOK, CpuType
  <2>2. UNCHANGED <<queue, status, count, td, stranded, prime, qhnext, hw>>
    BY <1>4 DEF CheckTripwire
  <2> QED
    BY <2>1, <2>2 DEF Pending, HwPosition
<1>5. CASE dtd_complete_irq /\ ~(cpu.pc = "irq" /\ cpu.next # NoReq /\ ~Open(cpu.next))
  <2>1. UNCHANGED <<queue, status, count, td, stranded, prime, qhnext, hw>> /\ cpu.pc \in {"idle", "irq"}
    BY <1>5 DEF dtd_complete_irq, Open
  <2>2. cpu' = Idle \/ cpu' = [cpu EXCEPT !.pc = "irq", !.ret = "irq", !.next = FirstReq]
    BY <1>5 DEF dtd_complete_irq, Open
  <2>3. cpu'.pc \in {"idle", "irq"}
    <3>1. cpu \in CpuType
      BY DEF IInv, TypeOK
    <3>2. CASE cpu' = Idle
      BY <3>2 DEF Idle
    <3>3. CASE cpu' = [cpu EXCEPT !.pc = "irq", !.ret = "irq", !.next = FirstReq]
      BY <3>1, <3>3 DEF CpuType
    <3> QED
      BY <2>2, <3>2, <3>3
  <2>4. ~Linking /\ ~Linking'
    BY <2>1, <2>3 DEF Linking
  <2> QED
    BY <2>1, <2>4 DEF Pending, HwPosition
<1>6. CASE \E r \in Reqs : fsl_ep_dequeue(r)
  <2>1. ~Linking /\ ~Linking'
    BY <1>6 DEF fsl_ep_dequeue, Linking, IInv, TypeOK, CpuType
  <2>2. UNCHANGED <<queue, status, count, td, stranded, prime, qhnext, hw>>
    BY <1>6 DEF fsl_ep_dequeue
  <2> QED
    BY <2>1, <2>2 DEF Pending, HwPosition
<1>7. CASE reset_irq
  <2>1. ~Linking /\ ~Linking'
    BY <1>7 DEF reset_irq, Linking, IInv, TypeOK, CpuType
  <2> QED
    BY <1>7, <2>1 DEF reset_irq, Pending, HwPosition
<1>8. CASE fsl_ep_enable
  BY <1>8 DEF fsl_ep_enable, Pending, Linking, HwPosition
<1>9. CASE fsl_ep_disable /\ enabled
  <2>1. UNCHANGED <<cpu, queue, status, count, td, stranded, prime, qhnext, hw>>
    BY <1>9 DEF fsl_ep_disable
  <2> QED
    BY <2>1 DEF Pending, Linking, HwPosition
<1>10. CASE HwStarts
  <2>1. HwPosition' = HwPosition
    BY <1>10 DEF HwStarts, HwPosition
  <2> QED
    BY <1>10, <2>1 DEF HwStarts, Pending, Linking
<1>11. CASE HwAdvances
  <2>1. HwPosition' = HwPosition
    BY <1>11 DEF HwAdvances, HwPosition, HwIdle
  <2> QED
    BY <1>11, <2>1 DEF HwAdvances, Pending, Linking
<1>12. CASE UNCHANGED vars
  BY <1>12 DEF vars, Pending, Linking, HwPosition
<1> QED
  BY <1>1, <1>2, <1>3, <1>4, <1>5, <1>6, <1>7, <1>8, <1>9, <1>10, <1>11, <1>12

\* and what they preserve.
LEMMA QuietSteps ==
    ASSUME IInv, ~overtaken,
           \/ TestPrime /\ ~prime
           \/ SetTripwire
           \/ ReadStat
           \/ CheckTripwire /\ ~atdtw
           \/ dtd_complete_irq /\ ~(cpu.pc = "irq" /\ cpu.next # NoReq /\ ~Open(cpu.next))
           \/ \E r \in Reqs : fsl_ep_dequeue(r)
           \/ reset_irq
           \/ fsl_ep_enable
           \/ fsl_ep_disable /\ enabled
           \/ HwStarts
           \/ HwAdvances
           \/ UNCHANGED vars
    PROVE  Sized' /\ Chained' /\ Positioned' /\ Arrived'
  BY QuietSame, QuietStep

\* Putting the linked request on the list: the controller is yet to come to it,
\* or has been told to start at it, or has dealt with it.
LEMMA EnqueueStep ==
    ASSUME IInv, ~overtaken, (TestPrime /\ prime) \/ (CheckTripwire /\ atdtw)
    PROVE  /\ Sized' /\ Chained' /\ Positioned' /\ Arrived'
           /\ UNCHANGED <<Pending, status, count, td, stranded>>
<1> USE DEF IInv, Safe, regs, reqs, ghost
<1>1. Linking /\ Enqueue /\ cpu.req \in Reqs /\ UNCHANGED <<status, count, td, hw, stranded>>
  BY DEF TestPrime, CheckTripwire, Linking, Driving
<1>2. queue' = Pending /\ ~Linking' /\ Pending' = Pending
  BY <1>1, EnqueueIs DEF Linking, Pending
<1>3. CASE UNCHANGED <<prime, qhnext>> /\ HwPosition # T
  <2>1. HwPosition' = HwPosition
    BY <1>1, <1>3 DEF HwPosition
  <2> QED
    BY <1>1, <1>2, <1>3, <2>1, Frame DEF Arrived
<1>4. CASE hw.phase = "idle" /\ ~prime /\ update_qh(cpu.req)
  <2>a. PICK r \in Reqs : r = cpu.req
    BY <1>1
  <2>b. Listed /\ \A j \in DOMAIN Pending : count[Pending[j]] \in {1, 2}
    BY PendingSizes
  <2>c. PICK k \in DOMAIN Pending : k = Len(Pending)
    BY <1>1, <2>b DEF Listed
  <2>d. k \in Nat /\ DOMAIN Pending = 1 .. k
    BY <2>b, <2>c DEF Listed
  <2>1. Pending[k] = r /\ count[r] \in {1, 2} /\ HwPosition = T
    <3>1. Pending[k] = r
      BY <1>1, <2>a, <2>b, <2>c DEF Listed
    <3> QED
      BY <1>4, <2>b, <3>1 DEF HwPosition
  <2>2. qhnext' = <<r, 1>> /\ prime' = (td[<<r, 1>>].st = "active")
    BY <1>1, <1>4, <2>a, PrimeIs
  <2>3. Open(r) => Fresh(r)
    BY <1>1, <2>a, <2>1 DEF Arrived
  <2>4. /\ td[<<r, 1>>].st = "active" => Open(r)
        /\ Fresh(r) => td[<<r, 1>>].st = "active" /\ (1 < count[r] => td[<<r, 2>>].st = "active")
    BY <1>1, <2>1, JudgedNow DEF Judged, Open, Fresh
  <2>5. \A j : (Open(j)' <=> Open(j)) /\ (Fresh(j)' <=> Fresh(j))
    BY <1>1 DEF Open, Fresh, process_ep_req
  <2>6. Sized' /\ Chained'
    BY <1>1, <1>2 DEF Sized, Members, Chained, NextTd
  <2>7. ~stranded => \A m \in DOMAIN Pending : m < k => ~Open(Pending[m])
    <3>1. \A m \in DOMAIN Pending : m < k => m \in DOMAIN queue /\ Pending[m] = queue[m]
      BY <1>1, <2>b, <2>c DEF Listed
    <3> QED
      BY <2>1, <3>1 DEF Arrived
  <2>8. CASE td[<<r, 1>>].st = "active"
    <3>1. HwPosition' = <<Pending[k], 1>> /\ HwPosition' # T
      <4>1. prime' = TRUE
        BY <2>2, <2>8
      <4> QED
        BY <2>1, <2>2, <4>1 DEF HwPosition, T
    <3>2. At(k, 1)'
      <4>1. \A m \in DOMAIN Pending : ~(m > k)
        BY <2>d
      <4> QED
        BY <1>1, <1>2, <2>1, <2>3, <2>4, <2>5, <2>7, <2>8, <3>1, <4>1 DEF At
    <3> QED
      BY <1>1, <1>2, <2>1, <2>6, <3>1, <3>2 DEF Positioned, Arrived
  <2>9. CASE td[<<r, 1>>].st # "active"
    <3>1. HwPosition' = T
      BY <1>1, <1>4, <2>2, <2>9 DEF HwPosition
    <3>2. ~Open(r)
      BY <2>3, <2>4, <2>9
    <3>3. ~stranded => \A m \in DOMAIN Pending : ~Open(Pending[m])
      <4>1. \A m \in DOMAIN Pending : m < k \/ m = k
        BY <2>d
      <4> QED
        BY <2>1, <2>7, <3>2, <4>1
    <3> QED
      BY <1>1, <1>2, <2>5, <2>6, <3>1, <3>3 DEF Positioned, Arrived
  <2> QED
    BY <2>8, <2>9
<1>5. CASE TestPrime /\ prime
  BY <1>3, <1>5 DEF TestPrime, Registers, HwPosition
<1>6. CASE CheckTripwire /\ atdtw
  <2>1. ~prime /\ (cpu.primed <=> hw.phase = "active") /\ hw.phase # "advance"
    BY <1>6 DEF CheckTripwire, Registers
  <2>2. CASE cpu.primed
    BY <1>3, <1>6, <2>1, <2>2 DEF CheckTripwire, Registers, HwPosition
  <2>3. CASE ~cpu.primed
    BY <1>4, <1>6, <2>1, <2>3 DEF CheckTripwire, TypeOK, HwType
  <2> QED
    BY <2>2, <2>3
<1> QED
  BY <1>5, <1>6

\* What the controller changes when it writes the status of a dTD back: only what
\* becomes of the request it is at.
Retires(k, j, st) ==
    /\ At(k, j) /\ hw.cur = <<Pending[k], j>> /\ ~prime
    /\ UNCHANGED <<Pending, Linking>>
    /\ td'[<<Pending[k], j>>].st = st
    /\ \A t \in Tds : td'[t].next = td[t].next /\ (t # <<Pending[k], j>> => td'[t].st = td[t].st)
    /\ \A m \in DOMAIN Pending :
          m # k => /\ process_ep_req(Pending[m])' = process_ep_req(Pending[m])
                   /\ (Open(Pending[m])' <=> Open(Pending[m]))
                   /\ (Fresh(Pending[m])' <=> Fresh(Pending[m]))

\* The dTD the controller retires is one of a pending request, and the chain stays.
LEMMA Retirement ==
    ASSUME IInv, ~overtaken, hw.phase = "active", NEW st \in {"done", "error"},
           td' = [td EXCEPT ![hw.cur].st = st], UNCHANGED <<queue, count, cpu>>
    PROVE  /\ \E k \in DOMAIN Pending, j \in {1, 2} : Retires(k, j, st)
           /\ Sized' /\ Chained'
<1> USE DEF IInv, Safe
<1>1. ~prime /\ HwPosition = hw.cur /\ hw.cur # T
  BY DEF Registers, HwPosition
<1>2. PICK k \in DOMAIN Pending, j \in {1, 2} : At(k, j)
  BY <1>1 DEF Positioned
<1>3. Listed /\ \A m \in DOMAIN Pending : /\ Pending[m] \in Reqs /\ count[Pending[m]] \in {1, 2}
                                          /\ <<Pending[m], 1>> \in Tds /\ <<Pending[m], 2>> \in Tds
  BY PendingSizes
<1>4. hw.cur = <<Pending[k], j>> /\ hw.cur \in Tds
  BY <1>1, <1>2, <1>3 DEF At
<1>5. /\ \A t \in Tds : td'[t].next = td[t].next /\ (t # hw.cur => td'[t].st = td[t].st)
      /\ td'[hw.cur].st = st
  BY <1>4 DEF TypeOK, TdType
<1>6. Pending' = Pending /\ Linking' = Linking
  BY DEF Pending, Linking
<1>7. ASSUME NEW m \in DOMAIN Pending, m # k
      PROVE  /\ process_ep_req(Pending[m])' = process_ep_req(Pending[m])
             /\ (Open(Pending[m])' <=> Open(Pending[m]))
             /\ (Fresh(Pending[m])' <=> Fresh(Pending[m]))
  <2>1. PICK r \in Reqs : r = Pending[m]
    BY <1>3
  <2>2. r # Pending[k]
    BY <1>3, <1>7, <2>1 DEF Listed
  <2>3. <<r, 1>> # hw.cur /\ <<r, 2>> # hw.cur
    BY <1>4, <2>2
  <2>4. <<r, 1>> \in Tds /\ <<r, 2>> \in Tds /\ count[r] \in {1, 2}
    BY <1>3, <2>1
  <2>5. process_ep_req(r)' = process_ep_req(r) /\ (Open(r)' <=> Open(r)) /\ (Fresh(r)' <=> Fresh(r))
    BY <1>5, <2>3, <2>4, SameJudgement
  <2>6. Pending'[m] = r
    BY <1>6, <2>1
  <2>7. /\ process_ep_req(Pending[m])' = process_ep_req(r)'
        /\ Open(Pending[m])' = Open(r)' /\ Fresh(Pending[m])' = Fresh(r)'
    BY <2>6
  <2> QED
    BY <2>1, <2>5, <2>7
<1>8. Sized'
  <2>1. \A t \in Tds : td'[t].st = "free" <=> td[t].st = "free"
    <3>1. td[hw.cur].st # "free"
      BY <1>2, <1>4 DEF At
    <3> QED
      BY <1>5, <3>1
  <2> QED
    BY <1>6, <2>1 DEF Sized, Members
<1>9. Chained'
  <2>1. ASSUME NEW m \in DOMAIN Pending, NEW i \in {1, 2} PROVE NextTd(m, i)' = NextTd(m, i)
    BY <1>6 DEF NextTd
  <2>2. ASSUME NEW m \in DOMAIN Pending, NEW i \in {1, 2}, i <= count[Pending[m]]
        PROVE  td'[<<Pending[m], i>>].next = NextTd(m, i)
    <3>1. <<Pending[m], i>> \in Tds
      BY <1>3
    <3> QED
      BY <1>5, <2>2, <3>1 DEF Chained
  <2>3. \A m \in DOMAIN Pending : \A i \in {1, 2} :
           i <= count'[Pending'[m]] => td'[<<Pending'[m], i>>].next = NextTd(m, i)'
    BY <1>6, <2>1, <2>2
  <2> QED
    BY <1>6, <2>3 DEF Chained
<1> QED
  BY <1>1, <1>2, <1>4, <1>5, <1>6, <1>7, <1>8, <1>9 DEF Retires

\* The controller finishes a dTD.
LEMMA MoveStep ==
    ASSUME IInv, ~overtaken, HwMoves
    PROVE  Sized' /\ Chained' /\ Positioned' /\ Arrived'
<1> USE DEF IInv, Safe, ghost
<1>1. /\ hw.phase = "active" /\ td' = [td EXCEPT ![hw.cur].st = "done"]
      /\ hw' = [hw EXCEPT !.phase = "advance", !.next = td[hw.cur].next]
      /\ UNCHANGED <<queue, count, cpu, prime, qhnext, stranded>>
  BY DEF HwMoves
<1>2. Sized' /\ Chained'
  BY <1>1, Retirement
<1>3. PICK k \in DOMAIN Pending, j \in {1, 2} : Retires(k, j, "done")
  BY <1>1, Retirement
<1>4. Listed /\ \A m \in DOMAIN Pending : /\ Pending[m] \in Reqs /\ count[Pending[m]] \in {1, 2}
                                          /\ <<Pending[m], 1>> \in Tds /\ <<Pending[m], 2>> \in Tds
  BY PendingSizes
<1>n. /\ Len(Pending) \in Nat /\ DOMAIN Pending = 1 .. Len(Pending)
      /\ \A m \in DOMAIN queue : m \in DOMAIN Pending /\ Pending[m] = queue[m]
      /\ Linking => Pending[Len(Pending)] = cpu.req
  BY <1>4, Indices
<1>o. \A m \in DOMAIN Pending : /\ m > k => m # k
                                /\ m < k => m # k
                                /\ m # k => m < k \/ m > k
  BY <1>n
<1>5. HwPosition' = NextTd(k, j)
  <2>1. hw'.phase = "advance" /\ hw'.next = td[hw.cur].next
    BY <1>1 DEF TypeOK, HwType
  <2>2. td[hw.cur].next = NextTd(k, j)
    BY <1>3 DEF Retires, At, Chained
  <2> QED
    BY <1>1, <1>3, <2>1, <2>2 DEF Retires, HwPosition
<1>6. PICK r \in Reqs : r = Pending[k]
  BY <1>4
<1>7. /\ Pending' = Pending /\ td'[<<r, j>>].st = "done" /\ j <= count[r] /\ count[r] \in {1, 2}
      /\ \A i \in {1, 2} : i # j => td'[<<r, i>>].st = td[<<r, i>>].st
      /\ j = 2 => td[<<r, 1>>].st = "done"
      /\ j < count[r] => td[<<r, 2>>].st = "active"
  BY <1>3, <1>4, <1>6 DEF Retires, At
<1>8. CASE j < count[r]
  <2>1. HwPosition' = <<Pending[k], 2>> /\ j = 1 /\ count[r] = 2
    BY <1>5, <1>6, <1>7, <1>8 DEF NextTd
  <2>2. At(k, 2)'
    <3>1. \A m \in DOMAIN Pending : m > k => Fresh(Pending[m])'
      BY <1>3, <1>o DEF Retires, At
    <3>2. ~stranded => \A m \in DOMAIN Pending : m < k => ~Open(Pending[m])'
      BY <1>3, <1>o DEF Retires, At
    <3> QED
      BY <1>1, <1>6, <1>7, <2>1, <3>1, <3>2 DEF At
  <2>3. HwPosition' # T
    BY <2>1 DEF T
  <2> QED
    BY <1>2, <1>7, <2>2, <2>3 DEF Positioned, Arrived
<1>9. CASE ~(j < count[r])
  <2>1. ~Open(r)'
    <3>1. process_ep_req(r)' = "ok"
      BY <1>1, <1>7, <1>9, JudgedNext DEF Judged
    <3> QED
      BY <3>1 DEF Open
  <2>2. ~Open(Pending[k])'
    BY <1>6, <1>7, <2>1
  <2>3. ~stranded => \A m \in DOMAIN Pending : m <= k => ~Open(Pending[m])'
    <3>1. ASSUME ~stranded, NEW m \in DOMAIN Pending, m <= k PROVE ~Open(Pending[m])'
      <4>1. CASE m = k
        BY <2>2, <4>1
      <4>2. CASE m # k
        <5>1. m < k
          BY <1>n, <3>1, <4>2
        <5> QED
          BY <1>3, <3>1, <4>2, <5>1 DEF Retires, At
      <4> QED
        BY <4>1, <4>2
    <3> QED
      BY <3>1
  <2>4. CASE k < Len(Pending)
    <3>1. k + 1 \in DOMAIN Pending /\ k + 1 > k /\ k + 1 # k
      BY <1>n, <2>4
    <3>2. PICK l \in DOMAIN Pending : l = k + 1
      BY <3>1
    <3>3. HwPosition' = <<Pending[l], 1>>
      BY <1>5, <1>6, <1>9, <2>4, <3>2 DEF NextTd
    <3>4. PICK q \in Reqs : q = Pending[l]
      BY <1>4
    <3>5. Fresh(Pending[l])'
      BY <1>3, <3>1, <3>2 DEF Retires, At
    <3>6. Fresh(q)' /\ count[q] \in {1, 2}
      BY <1>4, <1>7, <3>4, <3>5
    <3>7. td'[<<q, 1>>].st = "active" /\ (1 < count[q] => td'[<<q, 2>>].st = "active")
      BY <1>1, <3>6 DEF Fresh
    <3>8. \A m \in DOMAIN Pending : m > l => Fresh(Pending[m])'
      <4>1. \A m \in DOMAIN Pending : m > l => m > k /\ m # k
        BY <1>n, <3>2
      <4> QED
        BY <1>3, <4>1 DEF Retires, At
    <3>9. \A m \in DOMAIN Pending : m < l => m <= k
      BY <1>n, <3>2
    <3>10. At(l, 1)'
      BY <1>1, <1>7, <2>3, <3>3, <3>4, <3>6, <3>7, <3>8, <3>9 DEF At
    <3>11. HwPosition' # T
      BY <3>3 DEF T
    <3> QED
      BY <1>2, <1>7, <3>10, <3>11 DEF Positioned, Arrived
  <2>5. CASE ~(k < Len(Pending))
    <3>1. HwPosition' = T /\ k = Len(Pending)
      <4>1. k = Len(Pending)
        BY <1>n, <2>5
      <4>2. NextTd(k, j) = T
        BY <1>6, <1>9, <2>5 DEF NextTd
      <4> QED
        BY <1>5, <4>1, <4>2
    <3>2. \A m \in DOMAIN queue : m \in DOMAIN Pending /\ m <= k /\ queue[m] = Pending[m]
      BY <1>n, <3>1
    <3>3. ~stranded' => \A m \in DOMAIN queue' : ~Open(queue[m])'
      BY <1>1, <1>7, <2>3, <3>2
    <3>4. Linking' => ~Open(cpu.req)'
      <4>1. Linking => cpu.req = Pending[k]
        BY <1>n, <3>1
      <4> QED
        BY <1>1, <1>3, <1>6, <2>1, <4>1 DEF Retires
    <3> QED
      BY <1>2, <3>1, <3>3, <3>4 DEF Positioned, Arrived
  <2> QED
    BY <2>4, <2>5
<1> QED
  BY <1>8, <1>9

\* The controller gives up at a dTD.
LEMMA FailStep ==
    ASSUME IInv, ~overtaken, HwFails
    PROVE  Sized' /\ Chained' /\ Positioned' /\ Arrived'
<1> USE DEF IInv, Safe
<1>1. /\ hw.phase = "active" /\ td' = [td EXCEPT ![hw.cur].st = "error"] /\ hw' = HwIdle
      /\ stranded' = (stranded \/ Unfinished(Queued \ {hw.cur[1]}) # {})
      /\ UNCHANGED <<queue, count, cpu, prime, qhnext>>
  BY DEF HwFails
<1>2. Sized' /\ Chained'
  BY <1>1, Retirement
<1>3. PICK k \in DOMAIN Pending, j \in {1, 2} : Retires(k, j, "error")
  BY <1>1, Retirement
<1>4. Listed /\ \A m \in DOMAIN Pending : Pending[m] \in Reqs /\ count[Pending[m]] \in {1, 2}
  BY PendingSizes
<1>n. /\ Len(Pending) \in Nat /\ DOMAIN Pending = 1 .. Len(Pending)
      /\ \A i, l \in DOMAIN Pending : Pending[i] = Pending[l] => i = l
      /\ \A m \in DOMAIN queue : m \in DOMAIN Pending /\ Pending[m] = queue[m]
      /\ Linking => Len(Pending) \in DOMAIN Pending /\ Pending[Len(Pending)] = cpu.req
  BY <1>4, Indices
<1>5. HwPosition' = T
  BY <1>1, <1>3 DEF Retires, HwPosition, HwIdle
<1>6. PICK r \in Reqs : r = Pending[k]
  BY <1>4
<1>7. ~Open(r)'
  <2>1. /\ count'[r] \in {1, 2} /\ td'[<<r, j>>].st = "error" /\ j <= count'[r]
        /\ j = 2 => td'[<<r, 1>>].st = "done"
    BY <1>1, <1>3, <1>4, <1>6 DEF Retires, At, Tds
  <2>2. process_ep_req(r)' = "error"
    <3>1. CASE j = 1
      BY <2>1, <3>1, JudgedNext DEF Judged
    <3>2. CASE j = 2
      <4>1. count'[r] = 2
        BY <2>1, <3>2
      <4> QED
        BY <2>1, <3>2, <4>1, JudgedNext DEF Judged
    <3> QED
      BY <3>1, <3>2
  <2> QED
    BY <2>2 DEF Open
<1>8. ~Open(Pending[k])'
  BY <1>3, <1>6, <1>7 DEF Retires
<1>9. ASSUME ~stranded', NEW m \in DOMAIN queue PROVE ~Open(queue[m])'
  <2>1. m \in DOMAIN Pending /\ Pending[m] = queue[m] /\ queue[m] \in Queued /\ queue' = queue
    BY <1>1, <1>9, <1>n DEF Queued
  <2>2. CASE m = k
    BY <1>3, <1>8, <2>1, <2>2 DEF Retires
  <2>3. CASE m # k
    <3>1. queue[m] # hw.cur[1]
      <4>1. hw.cur[1] = Pending[k]
        BY <1>3 DEF Retires
      <4> QED
        BY <1>n, <2>1, <2>3, <4>1
    <3>2. ~Open(Pending[m])
      BY <1>1, <1>9, <2>1, <3>1 DEF Unfinished, Open
    <3>3. ~Open(Pending[m])'
      BY <1>3, <2>1, <2>3, <3>2 DEF Retires
    <3> QED
      BY <1>3, <2>1, <3>3 DEF Retires
  <2> QED
    BY <2>2, <2>3
<1>10. Linking' /\ Open(cpu.req)' => Fresh(cpu.req)'
  <2> SUFFICES ASSUME Linking', Open(cpu.req)' PROVE Fresh(cpu.req)'
    OBVIOUS
  <2>1. PICK l \in DOMAIN Pending : l = Len(Pending) /\ Pending[l] = cpu.req
    BY <1>3, <1>n DEF Retires
  <2>2. Pending'[l] = cpu'.req
    BY <1>1, <1>3, <2>1 DEF Retires
  <2>3. l # k
    BY <1>8, <2>2
  <2>4. l > k
    BY <1>n, <2>1, <2>3
  <2>5. Fresh(Pending[l])'
    BY <1>3, <2>3, <2>4 DEF Retires, At
  <2> QED
    BY <2>2, <2>5
<1> QED
  BY <1>1, <1>2, <1>5, <1>9, <1>10 DEF Positioned, Arrived

\* What becomes of the list and the chain when the k-th request is given back: the
\* one before it, if there is one, is linked to the one behind it.
Shift(k, m) == IF m < k THEN m ELSE m + 1

Takes(k) ==
    /\ ~Linking /\ ~Linking'
    /\ queue' = RemoveAt(queue, k) /\ count' = [count EXCEPT ![queue[k]] = 0]
    /\ \A t \in Tds : td'[t].st = IF t[1] = queue[k] THEN "free" ELSE td[t].st
    /\ \A t \in Tds : t[1] # queue[k] =>
          td'[t].next = IF k > 1 /\ t = TailTd(queue[k - 1]) THEN td[TailTd(queue[k])].next
                        ELSE td[t].next

\* A request is taken off the list: the others keep their dTDs and their order.
LEMMA TakeStep ==
    ASSUME IInv, ~overtaken, NEW k \in DOMAIN queue, Takes(k)
    PROVE  /\ Sized' /\ Chained'
           /\ \A m \in DOMAIN queue' :
                 /\ Shift(k, m) \in DOMAIN queue /\ Shift(k, m) # k /\ queue'[m] = queue[Shift(k, m)]
                 /\ process_ep_req(queue[m])' = process_ep_req(queue[Shift(k, m)])
                 /\ (Open(queue[m])' <=> Open(queue[Shift(k, m)]))
                 /\ (Fresh(queue[m])' <=> Fresh(queue[Shift(k, m)]))
<1> USE DEF IInv, Safe
<1>1. /\ Pending = queue /\ Pending' = queue' /\ queue' = RemoveAt(queue, k)
      /\ Listed /\ \A m \in DOMAIN queue : /\ queue[m] \in Reqs /\ count[queue[m]] \in {1, 2}
                                           /\ <<queue[m], 1>> \in Tds /\ <<queue[m], 2>> \in Tds
  BY PendingSizes DEF Takes, Pending
<1>2. /\ Len(queue) \in Nat /\ k \in 1 .. Len(queue) /\ DOMAIN queue = 1 .. Len(queue)
      /\ Len(queue') = Len(queue) - 1 /\ DOMAIN queue' = 1 .. Len(queue')
      /\ \A m \in DOMAIN queue' : queue'[m] = queue[Shift(k, m)]
  BY <1>1, StillDistinct DEF Shift
<1>3. \A m \in DOMAIN queue' : Shift(k, m) \in DOMAIN queue /\ Shift(k, m) # k
  BY <1>2 DEF Shift
<1>4. \A i, j \in DOMAIN queue : queue[i] = queue[j] => i = j
  BY DEF TypeOK
<1>5. \A r \in Reqs : count'[r] = IF r = queue[k] THEN 0 ELSE count[r]
  BY DEF Takes, TypeOK
<1>6. ASSUME NEW m \in DOMAIN queue'
      PROVE  /\ process_ep_req(queue[m])' = process_ep_req(queue[Shift(k, m)])
             /\ (Open(queue[m])' <=> Open(queue[Shift(k, m)]))
             /\ (Fresh(queue[m])' <=> Fresh(queue[Shift(k, m)]))
  <2>1. PICK l \in DOMAIN queue : l = Shift(k, m) /\ l # k
    BY <1>3
  <2>2. PICK r \in Reqs : r = queue[l]
    BY <1>1
  <2>3. r # queue[k] /\ count'[r] = count[r] /\ count[r] \in {1, 2}
    BY <1>1, <1>4, <1>5, <2>1, <2>2
  <2>4. td'[<<r, 1>>].st = td[<<r, 1>>].st /\ td'[<<r, 2>>].st = td[<<r, 2>>].st
    <3>1. <<r, 1>> \in Tds /\ <<r, 2>> \in Tds /\ <<r, 1>>[1] = r /\ <<r, 2>>[1] = r
      BY <1>1, <2>2
    <3> QED
      BY <2>3, <3>1 DEF Takes
  <2>5. process_ep_req(r)' = process_ep_req(r) /\ (Open(r)' <=> Open(r)) /\ (Fresh(r)' <=> Fresh(r))
    BY <2>3, <2>4, SameJudgement
  <2>6. queue'[m] = r
    BY <1>2, <2>1, <2>2
  <2>7. /\ process_ep_req(queue[m])' = process_ep_req(r)'
        /\ Open(queue[m])' = Open(r)' /\ Fresh(queue[m])' = Fresh(r)'
    BY <2>6
  <2> QED
    BY <2>1, <2>2, <2>5, <2>7
<1>7. \A j \in DOMAIN queue : j # k => \E m \in DOMAIN queue' : j = Shift(k, m)
  <2>1. ASSUME NEW j \in DOMAIN queue, j # k PROVE \E m \in DOMAIN queue' : j = Shift(k, m)
    <3>1. CASE j < k
      <4>1. j \in DOMAIN queue' /\ Shift(k, j) = j
        BY <1>2, <3>1 DEF Shift
      <4> QED
        BY <4>1
    <3>2. CASE j > k
      <4>1. j - 1 \in DOMAIN queue' /\ Shift(k, j - 1) = j
        BY <1>2, <3>2 DEF Shift
      <4> QED
        BY <4>1
    <3> QED
      BY <1>2, <2>1, <3>1, <3>2
  <2> QED
    BY <2>1
<1>8. Sized'
  <2>1. ASSUME NEW r \in Reqs PROVE count'[r] # 0 <=> r \in Members(queue')
    <3>1. count[r] # 0 <=> \E j \in DOMAIN queue : queue[j] = r
      BY <1>1 DEF Sized, Members
    <3>2. r \in Members(queue') <=> \E j \in DOMAIN queue : j # k /\ queue[j] = r
      BY <1>2, <1>3, <1>7 DEF Members
    <3> QED
      BY <1>4, <1>5, <3>1, <3>2
  <2>2. ASSUME NEW t \in Tds PROVE td'[t].st = "free" <=> t[2] > count'[t[1]]
    <3>1. t[1] \in Reqs /\ t[2] \in {1, 2}
      BY DEF Tds
    <3>2. CASE t[1] = queue[k]
      BY <1>5, <3>1, <3>2 DEF Takes
    <3>3. CASE t[1] # queue[k]
      BY <1>5, <3>1, <3>3 DEF Takes, Sized
    <3> QED
      BY <3>2, <3>3
  <2> QED
    BY <1>1, <2>1, <2>2 DEF Sized
<1>9. Chained'
  <2> DEFINE N(c, q, m, i) == IF i < c[q[m]] THEN <<q[m], 2>>
                              ELSE IF m < Len(q) THEN <<q[m + 1], 1>> ELSE T
  <2>1. ASSUME NEW m \in DOMAIN queue', NEW i \in {1, 2}, i <= count'[queue'[m]]
        PROVE  td'[<<queue'[m], i>>].next = N(count', queue', m, i)
    <3>1. PICK l \in DOMAIN queue : l = Shift(k, m) /\ l # k
      BY <1>3
    <3>2. PICK r \in Reqs : r = queue[l] /\ r = queue'[m]
      BY <1>1, <1>2, <3>1
    <3>3. r # queue[k] /\ count'[r] = count[r] /\ <<r, i>> \in Tds /\ <<r, i>>[1] = r
      BY <1>1, <1>4, <1>5, <3>1, <3>2
    <3>4. td[<<r, i>>].next = N(count, queue, l, i)
      BY <1>1, <2>1, <3>2, <3>3, ZenonT(60) DEF Chained, NextTd
    <3>5. CASE i < count[r]
      <4>1. <<r, i>> # TailTd(queue[k - 1])
        BY <3>5 DEF TailTd
      <4>2. td'[<<r, i>>].next = td[<<r, i>>].next
        BY <3>3, <4>1 DEF Takes
      <4> QED
        BY <3>2, <3>3, <3>4, <3>5, <4>2
    <3>6. CASE ~(i < count[r]) /\ l = k - 1
      <4>1. i = count[r] /\ <<r, i>> = TailTd(queue[k - 1]) /\ k > 1
        <5>1. k > 1 /\ r = queue[k - 1]
          <6>1. l \in 1 .. Len(queue) /\ l = k - 1
            BY <1>2, <3>1, <3>6
          <6>2. k > 1
            BY <1>2, <6>1
          <6> QED
            BY <3>2, <6>1, <6>2
        <5>2. count[r] \in {1, 2} /\ i <= count[r]
          BY <1>1, <2>1, <3>2, <3>3
        <5>3. i = count[r]
          BY <3>6, <5>2
        <5> QED
          BY <5>1, <5>3 DEF TailTd
      <4>2. td'[<<r, i>>].next = td[TailTd(queue[k])].next
        BY <3>3, <4>1 DEF Takes
      <4>3. PICK c \in {1, 2} : c = count[queue[k]]
        BY <1>1
      <4>4. td[TailTd(queue[k])].next = IF k < Len(queue) THEN <<queue[k + 1], 1>> ELSE T
        <5>1. c <= count[queue[k]] /\ ~(c < count[queue[k]])
          BY <4>3
        <5>2. td[<<queue[k], c>>].next = NextTd(k, c)
          BY <1>1, <5>1 DEF Chained
        <5>3. NextTd(k, c) = IF k < Len(queue) THEN <<queue[k + 1], 1>> ELSE T
          BY <1>1, <5>1 DEF NextTd
        <5> QED
          BY <4>3, <5>2, <5>3 DEF TailTd
      <4>5. m = k - 1
        BY <1>2, <3>1, <3>6 DEF Shift
      <4>6. m < Len(queue') <=> k < Len(queue)
        BY <1>2, <4>5
      <4>7. k < Len(queue) => queue'[m + 1] = queue[k + 1]
        <5>1. k < Len(queue) => m + 1 \in DOMAIN queue' /\ Shift(k, m + 1) = k + 1
          BY <1>2, <4>5 DEF Shift
        <5> QED
          BY <1>2, <5>1
      <4> QED
        BY <3>2, <3>3, <3>6, <4>2, <4>4, <4>6, <4>7
    <3>7. CASE ~(i < count[r]) /\ l # k - 1
      <4>1. k > 1 => r # queue[k - 1]
        <5>1. k > 1 => k - 1 \in DOMAIN queue
          BY <1>2
        <5> QED
          BY <1>4, <3>2, <3>7, <5>1
      <4>2. td'[<<r, i>>].next = td[<<r, i>>].next
        <5>1. k > 1 => <<r, i>> # TailTd(queue[k - 1])
          BY <4>1 DEF TailTd
        <5> QED
          BY <3>3, <5>1 DEF Takes
      <4>3. m < Len(queue') <=> l < Len(queue)
        BY <1>2, <3>1, <3>7 DEF Shift
      <4>4. l < Len(queue) => queue'[m + 1] = queue[l + 1]
        <5>1. l < Len(queue) => m + 1 \in DOMAIN queue' /\ Shift(k, m + 1) = l + 1
          BY <1>2, <3>1, <3>7 DEF Shift
        <5> QED
          BY <1>2, <5>1
      <4> QED
        BY <3>2, <3>3, <3>4, <3>7, <4>2, <4>3, <4>4
    <3> QED
      BY <3>5, <3>6, <3>7
  <2> QED
    BY <1>1, <2>1, ZenonT(60) DEF Chained, NextTd
<1> QED
  BY <1>2, <1>3, <1>6, <1>8, <1>9

\* If the controller stays where it is, and that is not in the request taken away,
\* it is still in its place.
LEMMA TakePosition ==
    ASSUME IInv, ~overtaken, NEW k \in DOMAIN queue, Takes(k),
           HwPosition' = HwPosition, HwPosition # T => HwPosition[1] # queue[k],
           ~stranded' => ~stranded \/ DOMAIN queue' = {}
    PROVE  Positioned' /\ Arrived'
<1> USE DEF IInv, Safe
<1>1. /\ \A m \in DOMAIN queue' :
            /\ Shift(k, m) \in DOMAIN queue /\ Shift(k, m) # k /\ queue'[m] = queue[Shift(k, m)]
            /\ (Open(queue[m])' <=> Open(queue[Shift(k, m)]))
            /\ (Fresh(queue[m])' <=> Fresh(queue[Shift(k, m)]))
  BY TakeStep
<1>2. Pending = queue /\ Pending' = queue' /\ ~Linking'
  BY DEF Takes, Pending
<1>3. /\ Len(queue) \in Nat /\ k \in 1 .. Len(queue) /\ DOMAIN queue = 1 .. Len(queue)
      /\ Len(queue') = Len(queue) - 1 /\ DOMAIN queue' = 1 .. Len(queue')
  BY StillDistinct DEF Takes
<1>4. CASE HwPosition = T
  <2>1. ~stranded' => \A m \in DOMAIN queue' : ~Open(queue[m])'
    BY <1>1, <1>4 DEF Arrived
  <2> QED
    BY <1>2, <1>4, <2>1 DEF Positioned, Arrived
<1>5. CASE HwPosition # T
  <2>1. PICK l \in DOMAIN queue, j \in {1, 2} : At(l, j)
    BY <1>2, <1>5 DEF Positioned
  <2>2. HwPosition = <<queue[l], j>> /\ queue[l] # queue[k]
    BY <1>2, <1>5, <2>1 DEF At
  <2>3. PICK h \in DOMAIN queue' : Shift(k, h) = l
    <3>1. CASE l < k
      <4>1. l \in DOMAIN queue' /\ Shift(k, l) = l
        BY <1>3, <3>1 DEF Shift
      <4> QED
        BY <4>1
    <3>2. CASE l > k
      <4>1. l - 1 \in DOMAIN queue' /\ Shift(k, l - 1) = l
        BY <1>3, <3>2 DEF Shift
      <4> QED
        BY <4>1
    <3> QED
      BY <1>3, <2>2, <3>1, <3>2
  <2>4. PICK r \in Reqs : r = queue[l]
    BY Ends
  <2>5. r = queue'[h] /\ r # queue[k] /\ count'[r] = count[r] /\ count[r] \in {1, 2}
    <3>1. r = queue'[h] /\ r # queue[k]
      BY <1>1, <2>2, <2>3, <2>4
    <3>2. count[r] \in {1, 2}
      BY <1>2, <2>4, PendingSizes
    <3> QED
      BY <3>1, <3>2 DEF Takes, TypeOK
  <2>6. \A i \in {1, 2} : td'[<<r, i>>].st = td[<<r, i>>].st
    <3>1. \A i \in {1, 2} : <<r, i>> \in Tds /\ <<r, i>>[1] = r
      BY DEF Tds
    <3> QED
      BY <2>5, <3>1 DEF Takes
  <2>7. /\ \A m \in DOMAIN queue' : m > h => Shift(k, m) > l
        /\ \A m \in DOMAIN queue' : m < h => Shift(k, m) < l
    BY <1>3, <2>3 DEF Shift
  <2>8. /\ HwPosition = <<r, j>> /\ j <= count[r] /\ td[<<r, j>>].st = "active"
        /\ j = 2 => td[<<r, 1>>].st = "done"
        /\ j < count[r] => td[<<r, 2>>].st = "active"
        /\ \A m \in DOMAIN queue : m > l => Fresh(queue[m])
        /\ ~stranded => \A m \in DOMAIN queue : m < l => ~Open(queue[m])
    BY <1>2, <2>1, <2>4 DEF At
  <2>9. \A m \in DOMAIN queue' : m > h => Fresh(queue[m])'
    BY <1>1, <2>7, <2>8
  <2>10. ~stranded' => \A m \in DOMAIN queue' : m < h => ~Open(queue[m])'
    BY <1>1, <2>3, <2>7, <2>8
  <2>11. At(h, j)'
    BY <1>2, <2>5, <2>6, <2>8, <2>9, <2>10 DEF At
  <2> QED
    BY <1>2, <1>5, <2>11 DEF Positioned, Arrived
<1> QED
  BY <1>4, <1>5

\* The controller is not in a request that is finished.
LEMMA NotInFinished ==
    ASSUME IInv, ~overtaken, NEW k \in DOMAIN Pending, ~Open(Pending[k]), HwPosition # T
    PROVE  HwPosition[1] # Pending[k]
<1>1. PICK l \in DOMAIN Pending, j \in {1, 2} : At(l, j)
  BY DEF IInv, Safe, Positioned
<1>2. PICK r \in Reqs : r = Pending[l] /\ count[r] \in {1, 2}
  BY PendingSizes DEF IInv, Safe
<1>3. Open(r)
  <2>1. /\ td[<<r, j>>].st = "active" /\ j <= count[r]
        /\ j = 2 => td[<<r, 1>>].st = "done"
    BY <1>1, <1>2 DEF At
  <2>2. CASE j = 1
    BY <1>2, <2>1, <2>2, JudgedNow DEF Judged, Open
  <2>3. CASE j = 2
    <3>1. count[r] = 2
      BY <1>2, <2>1, <2>3
    <3> QED
      BY <2>1, <2>3, <3>1, JudgedNow DEF Judged, Open
  <2> QED
    BY <2>2, <2>3
<1> QED
  BY <1>1, <1>2, <1>3 DEF At

\* dtd_complete_irq gives the first request back.
LEMMA CompletionStep ==
    ASSUME IInv, ~overtaken, dtd_complete_irq, cpu.pc = "irq", cpu.next # NoReq, ~Open(cpu.next), TypeOK'
    PROVE  Sized' /\ Chained' /\ Positioned' /\ Arrived' /\ 1 \in DOMAIN queue /\ Takes(1)
<1> USE DEF IInv, Safe, regs, ghost
<1>1. queue # <<>> /\ cpu.next = queue[1] /\ 1 \in DOMAIN queue
  BY Ends DEF Driving
<1>2. /\ done(queue[1], process_ep_req(queue[1])) /\ td' = Free(td, {queue[1]})
      /\ cpu' = [cpu EXCEPT !.next = Behind(cpu.next)]
      /\ stranded' = (stranded /\ queue' # <<>>) /\ UNCHANGED <<hw, prime, qhnext>>
  BY <1>1 DEF dtd_complete_irq, Open
<1>3. ~Linking /\ ~Linking'
  BY <1>2 DEF Linking, TypeOK, CpuType
<1>4. Takes(1)
  <2>1. queue' = RemoveAt(queue, 1) /\ count' = [count EXCEPT ![queue[1]] = 0]
    BY <1>1, <1>2, DoneIs
  <2>2. \A t \in Tds : td'[t] = IF t[1] = queue[1] THEN [st |-> "free", next |-> T] ELSE td[t]
    BY <1>2 DEF Free
  <2> QED
    BY <1>3, <2>1, <2>2 DEF Takes
<1>5. HwPosition' = HwPosition
  BY <1>2 DEF HwPosition
<1>6. HwPosition # T => HwPosition[1] # queue[1]
  <2>1. Pending = queue
    BY <1>3 DEF Pending
  <2> QED
    BY <1>1, <2>1, NotInFinished
<1>7. ~stranded' => ~stranded \/ DOMAIN queue' = {}
  <2>1. ~stranded' => ~stranded \/ queue' = <<>>
    BY <1>2, Zenon
  <2>2. DOMAIN <<>> = {}
    OBVIOUS
  <2> QED
    BY <2>1, <2>2, Zenon
<1>8. Positioned' /\ Arrived'
  BY <1>1, <1>4, <1>5, <1>6, <1>7, TakePosition
<1> QED
  BY <1>1, <1>4, <1>8, TakeStep

\* fsl_ep_dequeue takes a request away, wherever it is.
LEMMA DequeueTakes ==
    ASSUME IInv, ~overtaken, Dequeued
    PROVE  \E k \in DOMAIN queue : cpu.req = queue[k] /\ Takes(k) /\ (k = 1 <=> queue[k] = Head(queue))
<1> USE DEF IInv, Safe
<1>1. PICK k \in DOMAIN queue : cpu.req = queue[k]
  BY DEF Dequeued, Driving, Queued
<1>2. /\ done(queue[k], "gone") /\ cpu' = Idle /\ Unlink(queue[k]) /\ cpu.pc = "dequeue"
  BY <1>1 DEF Dequeued
<1>3. ~Linking /\ ~Linking' /\ Pending = queue
  BY <1>2 DEF Linking, Idle, Pending
<1>4. queue' = RemoveAt(queue, k) /\ count' = [count EXCEPT ![queue[k]] = 0]
  BY <1>2, DoneIs
<1>5. /\ DOMAIN queue = 1 .. Len(queue) /\ Len(queue) \in Nat /\ Head(queue) = queue[1]
      /\ 1 \in DOMAIN queue
  <2>1. queue # <<>>
    BY <1>1
  <2> QED
    BY <2>1, Ends
<1>6. k = 1 <=> queue[k] = Head(queue)
  BY <1>5 DEF TypeOK
<1>7. CASE k = 1
  <2>1. td' = Free(td, {queue[1]})
    BY <1>2, <1>6, <1>7 DEF Unlink
  <2>2. \A t \in Tds : td'[t] = IF t[1] = queue[1] THEN [st |-> "free", next |-> T] ELSE td[t]
    BY <2>1 DEF Free
  <2>3. Takes(1)
    BY <1>3, <1>4, <1>7, <2>2 DEF Takes
  <2> QED
    BY <1>1, <1>6, <1>7, <2>3
<1>8. CASE k # 1
  <2>1. PICK p \in Reqs : p = queue[k - 1] /\ p # queue[k] /\ count[p] \in {1, 2} /\ count[queue[k]] \in {1, 2}
    <3>1. k - 1 \in DOMAIN queue
      BY <1>5, <1>8
    <3>2. queue[k - 1] # queue[k]
      BY <1>5, <3>1 DEF TypeOK
    <3> QED
      BY <1>3, <3>1, <3>2, PendingSizes
  <2>2. Place(queue[k]) = k /\ k > 1
    BY <1>5, <1>8, Placed
  <2> DEFINE linked == [td EXCEPT ![TailTd(p)].next = td[TailTd(queue[k])].next]
  <2>3. td' = Free(linked, {queue[k]})
    BY <1>2, <1>6, <1>8, <2>1, <2>2 DEF Unlink
  <2>4. TailTd(p) \in Tds
    BY <2>1 DEF TailTd, Tds
  <2>5. \A t \in Tds : /\ linked[t].st = td[t].st
                       /\ linked[t].next = IF t = TailTd(p) THEN td[TailTd(queue[k])].next ELSE td[t].next
    BY <2>4 DEF TypeOK, TdType
  <2> HIDE DEF linked
  <2>6. \A t \in Tds : td'[t] = IF t[1] = queue[k] THEN [st |-> "free", next |-> T] ELSE linked[t]
    BY <2>3 DEF Free
  <2>7. Takes(k)
    BY <1>3, <1>4, <2>1, <2>2, <2>5, <2>6 DEF Takes
  <2> QED
    BY <1>1, <1>6, <2>7
<1> QED
  BY <1>7, <1>8

\* fsl_ep_dequeue takes a request out of the chain.
LEMMA DequeueStep ==
    ASSUME IInv, ~overtaken, Dequeued, ~overtaken'
    PROVE  Sized' /\ Chained' /\ Positioned' /\ Arrived'
<1> USE DEF IInv, Safe
<1>1. PICK k \in DOMAIN queue : cpu.req = queue[k] /\ Takes(k) /\ (k = 1 <=> queue[k] = Head(queue))
  BY DequeueTakes
<1>2. Unlink(queue[k]) /\ UNCHANGED qhnext /\ cpu.pc = "dequeue"
  BY <1>1 DEF Dequeued
<1>3. Sized' /\ Chained'
  BY <1>1, TakeStep
<1>4. CASE k = 1
  <2>1. /\ hw' = HwIdle /\ prime' = FALSE
        /\ stranded' = (Queued # {queue[k]} /\ (stranded \/ Unfinished(Queued \ {queue[k]}) # {}))
    BY <1>1, <1>2, <1>4 DEF Unlink, fsl_ep_fifo_flush
  <2>2. HwPosition' = T
    BY <2>1 DEF HwPosition, HwIdle
  <2>3. ASSUME ~stranded', NEW m \in DOMAIN queue' PROVE ~Open(queue[m])'
    <3>1. PICK l \in DOMAIN queue : l = Shift(k, m) /\ l # k /\ (Open(queue[m])' <=> Open(queue[l]))
      BY <1>1, <2>3, TakeStep
    <3>2. queue[l] \in Queued \ {queue[k]}
      BY <3>1 DEF Queued, TypeOK
    <3>3. Unfinished(Queued \ {queue[k]}) = {}
      BY <2>1, <2>3, <3>2
    <3> QED
      BY <3>1, <3>2, <3>3 DEF Unfinished, Open
  <2>4. ~Linking'
    BY <1>1 DEF Takes
  <2> QED
    BY <1>3, <2>2, <2>3, <2>4 DEF Positioned, Arrived
<1>5. CASE k # 1
  <2>1. /\ UNCHANGED <<hw, prime, stranded>>
        /\ ~(prime /\ qhnext \in TdsOf(queue[k]))
        /\ ~(hw.phase = "active" /\ hw.cur \in TdsOf(queue[k]))
        /\ ~(hw.phase = "advance" /\ hw.next \in TdsOf(queue[k]))
    BY <1>1, <1>2, <1>5 DEF Unlink
  <2>2. HwPosition' = HwPosition
    BY <1>2, <2>1 DEF HwPosition
  <2>3. HwPosition # T => HwPosition \notin TdsOf(queue[k])
    BY <2>1 DEF HwPosition, TypeOK, HwType
  <2>4. HwPosition # T => HwPosition[1] # queue[k]
    <3> SUFFICES ASSUME HwPosition # T, HwPosition[1] = queue[k] PROVE FALSE
      OBVIOUS
    <3>1. PICK l \in DOMAIN Pending, j \in {1, 2} : HwPosition = <<Pending[l], j>> /\ j <= count[Pending[l]]
      BY DEF Positioned, At
    <3>2. HwPosition = <<queue[k], j>> /\ j <= count[queue[k]] /\ count[queue[k]] \in {1, 2}
      BY <3>1, PendingSizes
    <3>3. j \in 1 .. count[queue[k]]
      BY <3>2
    <3> QED
      BY <2>3, <3>2, <3>3 DEF TdsOf
  <2>5. ~stranded' => ~stranded \/ DOMAIN queue' = {}
    BY <2>1
  <2> QED
    BY <1>1, <1>3, <2>2, <2>4, <2>5, TakePosition
<1> QED
  BY <1>4, <1>5

\* nuke gives everything back.
LEMMA NukeStep ==
    ASSUME IInv, ~overtaken, nuke, ~Linking, ~Linking', TypeOK'
    PROVE  Sized' /\ Chained' /\ Positioned' /\ Arrived'
<1> USE DEF IInv, Safe
<1>1. /\ queue' = <<>> /\ td' = Free(td, Queued) /\ hw' = HwIdle /\ prime' = FALSE
      /\ count' = [r \in Reqs |-> IF r \in Queued THEN 0 ELSE count[r]]
  BY DEF nuke, AllDone, fsl_ep_fifo_flush
<1>2. Pending = queue /\ Pending' = queue' /\ DOMAIN queue' = {}
  BY <1>1 DEF Pending
<1>3. \A r \in Reqs : r \notin Queued => count[r] = 0
  BY <1>2 DEF Sized, Members, Queued
<1>4. \A r \in Reqs : count'[r] = 0
  BY <1>1, <1>3
<1>5. ASSUME NEW t \in Tds PROVE td'[t].st = "free" /\ t[2] > 0 /\ t[1] \in Reqs
  <2>1. t[1] \in Reqs /\ t[2] \in {1, 2}
    BY DEF Tds
  <2>2. td'[t] = IF t[1] \in Queued THEN [st |-> "free", next |-> T] ELSE td[t]
    BY <1>1 DEF Free
  <2>3. CASE t[1] \in Queued
    BY <2>1, <2>2, <2>3
  <2>4. CASE t[1] \notin Queued
    <3>1. count[t[1]] = 0
      BY <1>3, <2>1, <2>4
    <3>2. td[t].st = "free"
      BY <2>1, <3>1 DEF Sized
    <3> QED
      BY <2>1, <2>2, <2>4, <3>2
  <2> QED
    BY <2>3, <2>4
<1>6. HwPosition' = T
  BY <1>1 DEF HwPosition, HwIdle
<1>7. Sized'
  BY <1>2, <1>4, <1>5 DEF Sized, Members
<1>8. Chained'
  BY <1>2 DEF Chained
<1> QED
  BY <1>2, <1>6, <1>7, <1>8 DEF Positioned, Arrived

\* fsl_ep_queue adds a request, with a fresh chain, behind the others.
Adds(r, m) ==
    /\ r \notin Members(queue) /\ Pending = queue /\ Pending' = Append(queue, r)
    /\ count' = [count EXCEPT ![r] = m]
    /\ \A t \in Tds : t[1] = r /\ t[2] <= m =>
          td'[t].st = "active" /\ td'[t].next = IF t[2] = m THEN T ELSE <<r, 2>>
    /\ \A t \in Tds : t[1] = r /\ t[2] > m => td'[t] = td[t]
    /\ \A t \in Tds : t[1] # r =>
          /\ td'[t].st = td[t].st
          /\ td'[t].next = IF queue # <<>> /\ t = TailTd(queue[Len(queue)]) THEN <<r, 1>>
                           ELSE td[t].next

\* fsl_ep_queue adds a request with new dTDs,
LEMMA QueueAdds ==
    ASSUME IInv, ~overtaken, NEW r \in Reqs, NEW m \in {1, 2}, cpu.pc \in {"idle", "irq"}, Submits(r, m)
    PROVE  Adds(r, m)
<1> USE DEF IInv, Safe
<1>1. Pending = queue /\ r \notin Members(queue) /\ count' = [count EXCEPT ![r] = m] /\ td' = Chain(r, m)
  BY DEF Pending, Linking, Submits, fsl_ep_queue, Bogus, Members, Queued
<1>2. Pending' = Append(queue, r)
  <2>1. CASE queue = <<>>
    <3>1. queue' = <<r>> /\ cpu' = cpu
      BY <2>1 DEF Submits, fsl_ep_queue
    <3>2. Pending' = <<r>>
      BY <3>1 DEF Pending, Linking
    <3>3. Append(<<>>, r) = <<r>>
      OBVIOUS
    <3> QED
      BY <2>1, <3>2, <3>3
  <2>2. CASE queue # <<>>
    <3>1. cpu' = [cpu EXCEPT !.pc = "test", !.ret = cpu.pc, !.req = r] /\ queue' = queue
      BY <2>2 DEF Submits, fsl_ep_queue
    <3>2. cpu'.pc = "test" /\ cpu'.req = r
      BY <3>1 DEF TypeOK, CpuType
    <3> QED
      BY <3>1, <3>2 DEF Pending, Linking
  <2> QED
    BY <2>1, <2>2
<1>3. ASSUME NEW t \in Tds
      PROVE  td'[t] = IF t[1] = r
                      THEN IF t[2] > m THEN td[t]
                           ELSE [st |-> "active", next |-> IF t[2] = m THEN T ELSE <<r, t[2] + 1>>]
                      ELSE IF queue # <<>> /\ t = TailTd(queue[Len(queue)])
                           THEN [td[t] EXCEPT !.next = HeadTd(r)]
                           ELSE td[t]
  BY <1>1 DEF Chain
<1>4. ASSUME NEW t \in Tds, t[1] = r, t[2] <= m
      PROVE  td'[t].st = "active" /\ td'[t].next = IF t[2] = m THEN T ELSE <<r, 2>>
  <2>1. t[2] \in {1, 2} /\ ~(t[2] > m)
    BY <1>4 DEF Tds
  <2>2. td'[t] = [st |-> "active", next |-> IF t[2] = m THEN T ELSE <<r, t[2] + 1>>]
    BY <1>3, <1>4, <2>1
  <2>3. t[2] # m => t[2] + 1 = 2
    BY <1>4, <2>1
  <2> QED
    BY <2>2, <2>3
<1>5. ASSUME NEW t \in Tds, t[1] # r
      PROVE  /\ td'[t].st = td[t].st
             /\ td'[t].next = IF queue # <<>> /\ t = TailTd(queue[Len(queue)]) THEN <<r, 1>>
                              ELSE td[t].next
  <2>1. td[t] \in TdType
    BY DEF TypeOK
  <2>2. CASE queue # <<>> /\ t = TailTd(queue[Len(queue)])
    <3>1. td'[t] = [td[t] EXCEPT !.next = <<r, 1>>]
      BY <1>3, <1>5, <2>2 DEF HeadTd
    <3> QED
      BY <2>1, <2>2, <3>1 DEF TdType
  <2>3. CASE ~(queue # <<>> /\ t = TailTd(queue[Len(queue)]))
    BY <1>3, <1>5, <2>3
  <2> QED
    BY <2>2, <2>3
<1>6. \A t \in Tds : t[1] = r /\ t[2] > m => td'[t] = td[t]
  BY <1>3
<1> QED
  BY <1>1, <1>2, <1>4, <1>5, <1>6 DEF Adds

\* which are linked behind all the others,
LEMMA AddStep ==
    ASSUME IInv, ~overtaken, NEW r \in Reqs, NEW m \in {1, 2}, Adds(r, m)
    PROVE  /\ Sized' /\ Chained'
           /\ Len(queue) \in Nat /\ DOMAIN Pending' = 1 .. Len(queue) + 1 /\ DOMAIN queue = 1 .. Len(queue)
           /\ Pending'[Len(queue) + 1] = r /\ Fresh(r)' /\ count'[r] = m /\ process_ep_req(r)' = "uncomplete"
           /\ \A k \in DOMAIN queue :
                 /\ Pending'[k] = queue[k] /\ count'[queue[k]] = count[queue[k]]
                 /\ \A i \in {1, 2} : td'[<<queue[k], i>>].st = td[<<queue[k], i>>].st
                 /\ process_ep_req(Pending[k])' = process_ep_req(queue[k])
                 /\ (Open(Pending[k])' <=> Open(queue[k])) /\ (Fresh(Pending[k])' <=> Fresh(queue[k]))
<1> USE DEF IInv, Safe
<1>1. /\ Pending = queue /\ Pending' = Append(queue, r) /\ r \notin Members(queue)
      /\ \A k \in DOMAIN queue : /\ queue[k] \in Reqs /\ count[queue[k]] \in {1, 2}
                                 /\ <<queue[k], 1>> \in Tds /\ <<queue[k], 2>> \in Tds
  BY PendingSizes DEF Adds
<1>2. /\ DOMAIN queue = 1 .. Len(queue) /\ Len(queue) \in Nat
      /\ Pending' \in Seq(Reqs) /\ Len(Pending') = Len(queue) + 1
      /\ \A k \in DOMAIN queue : Pending'[k] = queue[k]
      /\ Pending'[Len(queue) + 1] = r
  BY <1>1, Ends, Appended DEF TypeOK
<1>3. DOMAIN Pending' = 1 .. Len(queue) + 1
  BY <1>2, LenProperties
<1>4. \A k \in DOMAIN queue : queue[k] # r
  BY <1>1 DEF Members
<1>5. \A q \in Reqs : count'[q] = IF q = r THEN m ELSE count[q]
  BY DEF Adds, TypeOK
<1>6. \A i \in {1, 2} : <<r, i>> \in Tds /\ <<r, i>>[1] = r /\ <<r, i>>[2] = i
  BY DEF Tds
<1>7. count[r] = 0 /\ count'[r] = m
  BY <1>1, <1>5 DEF Sized
<1>8. Fresh(r)' /\ process_ep_req(r)' = "uncomplete"
  <2>1. \A i \in {1, 2} : i <= m => td'[<<r, i>>].st = "active"
    BY <1>6 DEF Adds
  <2>2. Fresh(r)'
    BY <1>7, <2>1 DEF Fresh
  <2>3. td'[<<r, 1>>].st = "active"
    BY <2>1
  <2> QED
    BY <1>7, <2>2, <2>3, JudgedNext DEF Judged
<1>9. ASSUME NEW k \in DOMAIN queue
      PROVE  /\ count'[queue[k]] = count[queue[k]]
             /\ \A i \in {1, 2} : td'[<<queue[k], i>>].st = td[<<queue[k], i>>].st
             /\ process_ep_req(Pending[k])' = process_ep_req(queue[k])
             /\ (Open(Pending[k])' <=> Open(queue[k])) /\ (Fresh(Pending[k])' <=> Fresh(queue[k]))
  <2>1. PICK q \in Reqs : q = queue[k] /\ q # r /\ count[q] \in {1, 2} /\ count'[q] = count[q]
    BY <1>1, <1>4, <1>5
  <2>2. \A i \in {1, 2} : td'[<<q, i>>].st = td[<<q, i>>].st
    <3>1. \A i \in {1, 2} : <<q, i>> \in Tds /\ <<q, i>>[1] = q
      BY DEF Tds
    <3> QED
      BY <2>1, <3>1 DEF Adds
  <2>3. process_ep_req(q)' = process_ep_req(q) /\ (Open(q)' <=> Open(q)) /\ (Fresh(q)' <=> Fresh(q))
    BY <2>1, <2>2, SameJudgement
  <2>4. Pending'[k] = q
    BY <1>2, <2>1
  <2>5. /\ process_ep_req(Pending[k])' = process_ep_req(q)'
        /\ Open(Pending[k])' = Open(q)' /\ Fresh(Pending[k])' = Fresh(q)'
    BY <2>4
  <2> QED
    BY <2>1, <2>2, <2>3, <2>5
<1>10. Sized'
  <2>1. ASSUME NEW q \in Reqs PROVE count'[q] # 0 <=> q \in Members(Pending')
    <3>1. q \in Members(Pending') <=> q = r \/ \E k \in DOMAIN queue : queue[k] = q
      <4>1. \A k : k \in DOMAIN Pending' <=> k \in DOMAIN queue \/ k = Len(queue) + 1
        BY <1>2, <1>3
      <4> QED
        BY <1>2, <4>1 DEF Members
    <3>2. count[q] # 0 <=> \E k \in DOMAIN queue : queue[k] = q
      BY <1>1 DEF Sized, Members
    <3> QED
      BY <1>5, <3>1, <3>2
  <2>2. ASSUME NEW t \in Tds PROVE td'[t].st = "free" <=> t[2] > count'[t[1]]
    <3>1. t[1] \in Reqs /\ t[2] \in {1, 2}
      BY DEF Tds
    <3>2. CASE t[1] = r /\ t[2] <= m
      <4>1. td'[t].st = "active"
        BY <3>2 DEF Adds
      <4> QED
        BY <1>7, <3>1, <3>2, <4>1
    <3>3. CASE t[1] = r /\ t[2] > m
      <4>1. td'[t] = td[t]
        BY <3>3 DEF Adds
      <4>2. td[t].st = "free"
        BY <1>7, <3>1, <3>3 DEF Sized
      <4> QED
        BY <1>7, <3>3, <4>1, <4>2
    <3>4. CASE t[1] # r
      <4>1. td'[t].st = td[t].st
        BY <3>4 DEF Adds
      <4> QED
        BY <1>5, <3>1, <3>4, <4>1 DEF Sized
    <3> QED
      BY <3>1, <3>2, <3>3, <3>4
  <2> QED
    BY <2>1, <2>2 DEF Sized
<1>11. Chained'
  <2>1. ASSUME NEW k \in DOMAIN Pending', NEW i \in {1, 2}, i <= count'[Pending'[k]]
        PROVE  td'[<<Pending'[k], i>>].next = NextTd(k, i)'
    <3>1. CASE k = Len(queue) + 1
      <4>1. Pending'[k] = r /\ i <= m
        BY <1>2, <1>7, <2>1, <3>1
      <4>2. td'[<<r, i>>].next = IF i = m THEN T ELSE <<r, 2>>
        BY <1>6, <4>1 DEF Adds
      <4>3. ~(k < Len(Pending')) /\ (i < m <=> i # m)
        BY <1>2, <3>1, <4>1
      <4> QED
        BY <1>7, <4>1, <4>2, <4>3 DEF NextTd
    <3>2. CASE k # Len(queue) + 1
      <4>1. k \in DOMAIN queue /\ k < Len(Pending')
        BY <1>2, <1>3, <3>2
      <4>2. PICK q \in Reqs : q = queue[k] /\ q = Pending'[k] /\ q # r /\ count'[q] = count[q] /\ count[q] \in {1, 2}
        BY <1>1, <1>2, <1>4, <1>9, <4>1
      <4>3. td[<<q, i>>].next = IF i < count[q] THEN <<q, 2>>
                                ELSE IF k < Len(queue) THEN <<queue[k + 1], 1>> ELSE T
        <5>1. i <= count[q]
          BY <2>1, <4>2
        <5>2. td[<<q, i>>].next = NextTd(k, i)
          BY <1>1, <4>1, <4>2, <5>1 DEF Chained
        <5> QED
          BY <1>1, <4>1, <4>2, <5>2 DEF NextTd
      <4>4. <<q, i>> \in Tds /\ <<q, i>>[1] = q /\ queue # <<>>
        BY <4>1, <4>2 DEF Tds
      <4>5. td'[<<q, i>>].next = IF <<q, i>> = TailTd(queue[Len(queue)]) THEN <<r, 1>> ELSE td[<<q, i>>].next
        BY <4>2, <4>4 DEF Adds
      <4>6. NextTd(k, i)' = IF i < count[q] THEN <<q, 2>> ELSE <<Pending'[k + 1], 1>>
        BY <4>1, <4>2 DEF NextTd
      <4>7. CASE i < count[q]
        <5>1. <<q, i>> # TailTd(queue[Len(queue)])
          BY <4>7 DEF TailTd
        <5> QED
          BY <4>2, <4>3, <4>5, <4>6, <4>7, <5>1
      <4>8. CASE ~(i < count[q]) /\ k = Len(queue)
        <5>1. i = count[q]
          BY <2>1, <4>2, <4>8
        <5>2. <<q, i>> = TailTd(queue[Len(queue)])
          BY <4>2, <4>8, <5>1 DEF TailTd
        <5>3. Pending'[k + 1] = r
          BY <1>2, <4>8
        <5> QED
          BY <4>2, <4>5, <4>6, <4>8, <5>2, <5>3
      <4>9. CASE ~(i < count[q]) /\ k # Len(queue)
        <5>1. k < Len(queue) /\ k + 1 \in DOMAIN queue /\ Len(queue) \in DOMAIN queue
          BY <1>2, <4>1, <4>9
        <5>2. q # queue[Len(queue)]
          BY <4>1, <4>2, <4>9, <5>1 DEF TypeOK
        <5>3. <<q, i>> # TailTd(queue[Len(queue)])
          BY <5>2 DEF TailTd
        <5>4. Pending'[k + 1] = queue[k + 1]
          BY <1>2, <5>1
        <5> QED
          BY <4>2, <4>3, <4>5, <4>6, <4>9, <5>1, <5>3, <5>4
      <4> QED
        BY <4>7, <4>8, <4>9
    <3> QED
      BY <3>1, <3>2
  <2> QED
    BY <2>1 DEF Chained
<1> QED
  BY <1>2, <1>3, <1>7, <1>8, <1>9, <1>10, <1>11

\* where the controller will find them.
LEMMA QueueStep ==
    ASSUME IInv, ~overtaken, NEW r \in Reqs, NEW m \in {1, 2}, cpu.pc \in {"idle", "irq"}, Submits(r, m)
    PROVE  Sized' /\ Chained' /\ Positioned' /\ Arrived'
<1> USE DEF IInv, Safe, ghost
<1>1. Adds(r, m)
  BY QueueAdds
<1>2. PICK n \in Nat : n = Len(queue)
  BY Ends
<1>3. /\ Sized' /\ Chained' /\ DOMAIN Pending' = 1 .. n + 1 /\ DOMAIN queue = 1 .. n
      /\ Pending'[n + 1] = r /\ Fresh(r)' /\ count'[r] = m
      /\ \A k \in DOMAIN queue :
            /\ Pending'[k] = queue[k] /\ count'[queue[k]] = count[queue[k]]
            /\ \A i \in {1, 2} : td'[<<queue[k], i>>].st = td[<<queue[k], i>>].st
            /\ (Open(Pending[k])' <=> Open(queue[k])) /\ (Fresh(Pending[k])' <=> Fresh(queue[k]))
  BY <1>1, <1>2, AddStep
<1>4. Pending = queue /\ stranded' = stranded /\ hw' = hw
  BY <1>1 DEF Adds, Submits, fsl_ep_queue
<1>5. CASE queue = <<>>
  <2>1. n = 0
    BY <1>2, <1>5
  <2>2. update_qh(r)
    BY <1>5 DEF Submits, fsl_ep_queue
  <2>3. td'[<<r, 1>>].st = "active" /\ (1 < m => td'[<<r, 2>>].st = "active")
    BY <1>3 DEF Fresh
  <2>4. HwPosition' = <<r, 1>> /\ <<r, 1>> # T
    BY <2>2, <2>3, PrimeIs DEF HwPosition
  <2>5. DOMAIN Pending' = {1} /\ Pending'[1] = r
    BY <1>3, <2>1
  <2>6. \A k \in DOMAIN Pending' : ~(k > 1) /\ ~(k < 1)
    BY <2>5
  <2>8. 1 <= count'[r] /\ (1 < count'[r] => 1 < m)
    BY <1>3
  <2>7. At(1, 1)'
    BY <2>3, <2>4, <2>5, <2>6, <2>8 DEF At
  <2> QED
    BY <1>3, <2>4, <2>5, <2>7 DEF Positioned, Arrived
<1>6. CASE queue # <<>>
  <2>1. UNCHANGED <<queue, prime, qhnext>> /\ cpu' = [cpu EXCEPT !.pc = "test", !.ret = cpu.pc, !.req = r]
    BY <1>6 DEF Submits, fsl_ep_queue
  <2>2. HwPosition' = HwPosition
    BY <1>4, <2>1 DEF HwPosition
  <2>3. cpu'.req = r
    BY <2>1 DEF TypeOK, CpuType
  <2>4. \A k : k \in DOMAIN Pending' <=> k \in DOMAIN queue \/ k = n + 1
    BY <1>3
  <2>5. CASE HwPosition = T
    <3>1. ASSUME ~stranded, NEW k \in DOMAIN queue PROVE ~Open(queue[k])'
      <4>1. PICK q \in Reqs : q = queue[k]
        BY Ends
      <4>2. queue'[k] = q /\ Pending'[k] = q
        BY <1>3, <2>1, <4>1
      <4>3. Open(queue[k])' = Open(q)' /\ Open(Pending[k])' = Open(q)'
        BY <4>2
      <4>4. ~Open(queue[k])
        BY <2>5, <3>1 DEF Arrived
      <4> QED
        BY <1>3, <4>3, <4>4
    <3>2. Fresh(cpu.req)'
      BY <1>3, <2>3
    <3> QED
      BY <1>3, <1>4, <2>1, <2>2, <2>5, <3>1, <3>2 DEF Positioned, Arrived
  <2>6. CASE HwPosition # T
    <3>1. PICK k \in DOMAIN queue, j \in {1, 2} : At(k, j)
      BY <1>4, <2>6 DEF Positioned
    <3>2. PICK q \in Reqs : q = queue[k]
      BY Ends
    <3>3. Pending'[k] = q /\ count'[q] = count[q] /\ \A i \in {1, 2} : td'[<<q, i>>].st = td[<<q, i>>].st
      BY <1>3, <3>2
    <3>4. /\ HwPosition = <<q, j>> /\ j <= count[q] /\ td[<<q, j>>].st = "active"
          /\ j = 2 => td[<<q, 1>>].st = "done"
          /\ j < count[q] => td[<<q, 2>>].st = "active"
          /\ \A l \in DOMAIN queue : l > k => Fresh(queue[l])
          /\ ~stranded => \A l \in DOMAIN queue : l < k => ~Open(queue[l])
      BY <1>4, <3>1, <3>2 DEF At
    <3>5. Fresh(Pending[n + 1])'
      BY <1>3
    <3>6. \A l \in DOMAIN Pending' : l > k => Fresh(Pending[l])'
      BY <1>3, <2>4, <3>4, <3>5
    <3>7. ~(n + 1 < k) /\ k \in DOMAIN Pending'
      BY <1>3
    <3>8. ~stranded' => \A l \in DOMAIN Pending' : l < k => ~Open(Pending[l])'
      BY <1>3, <1>4, <2>4, <3>4, <3>7
    <3>9. At(k, j)'
      BY <2>2, <3>3, <3>4, <3>6, <3>8 DEF At
    <3> QED
      BY <1>3, <2>2, <2>6, <3>7, <3>9 DEF Positioned, Arrived
  <2> QED
    BY <2>5, <2>6
<1> QED
  BY <1>5, <1>6

-----------------------------------------------------------------------------
(* The invariant.                                                          *)

\* Every step preserves the chain and the place of the controller in it.
LEMMA ChainStep ==
    ASSUME IInv, ~overtaken, Next, TypeOK', Driving'
    PROVE  overtaken' \/ (Sized' /\ Chained' /\ Positioned' /\ Arrived')
<1>1. CASE TestPrime
  BY <1>1, QuietSteps, EnqueueStep
<1>2. CASE SetTripwire \/ ReadStat
  BY <1>2, QuietSteps
<1>3. CASE CheckTripwire
  BY <1>3, QuietSteps, EnqueueStep
<1>4. CASE dtd_complete_irq
  BY <1>4, QuietSteps, CompletionStep
<1>5. CASE Dequeued
  BY <1>5, DequeueStep
<1>6. CASE ResetQueues
  BY <1>6, NukeStep DEF ResetQueues, Linking, Idle
<1>7. ASSUME NEW r \in Reqs, NEW m \in {1, 2}, cpu.pc \in {"idle", "irq"}, Submits(r, m)
      PROVE  Sized' /\ Chained' /\ Positioned' /\ Arrived'
  BY <1>7, QueueStep
<1>8. CASE \E r \in Reqs : fsl_ep_dequeue(r)
  BY <1>8, QuietSteps
<1>9. CASE fsl_ep_disable
  <2>1. CASE enabled
    BY <1>9, <2>1, QuietSteps
  <2>2. CASE ~enabled
    BY <1>9, <2>2, NukeStep DEF fsl_ep_disable, Linking
  <2> QED
    BY <2>1, <2>2
<1>10. CASE fsl_ep_enable \/ reset_irq \/ HwStarts \/ HwAdvances
  BY <1>10, QuietSteps
<1>11. CASE HwMoves
  BY <1>11, MoveStep
<1>12. CASE HwFails
  BY <1>12, FailStep
<1>13. ASSUME NEW r \in Reqs, Refused(r) PROVE Sized' /\ Chained' /\ Positioned' /\ Arrived'
  <2>1. /\ UNCHANGED <<Pending, queue, count, td, HwPosition, stranded>>
        /\ Linking' => Linking /\ cpu'.req = cpu.req
    BY <1>13 DEF Refused, NoMemory, Pending, Linking, HwPosition, regs, ghost
  <2> QED
    BY <2>1, QuietStep
<1> QED
  BY <1>1, <1>2, <1>3, <1>4, <1>5, <1>6, <1>7, <1>8, <1>9, <1>10, <1>11, <1>12, <1>13, GadgetDoes
  DEF Next, Driver, Controller, Bus, Undefined

\* Every step preserves the inductive invariant,
LEMMA InvStep == IInv /\ [Next]_vars => IInv'
<1> SUFFICES ASSUME IInv, [Next]_vars PROVE IInv'
  OBVIOUS
<1>1. TypeOK'
  BY TypeStep
<1>2. CASE overtaken
  <2>1. overtaken' = overtaken
    BY <1>2 DEF Next, Driver, Gadget, Controller, Bus, Undefined, vars, ghost
  <2> QED
    BY <1>1, <1>2, <2>1 DEF IInv
<1>3. CASE ~overtaken /\ UNCHANGED vars
  <2>1. Sized' /\ Chained' /\ Positioned' /\ Arrived'
    BY <1>3, QuietSteps
  <2>2. Driving' /\ Registers'
    BY <1>3 DEF IInv, Safe, Driving, Registers, vars, regs, reqs, ghost, Linking, Queued
  <2> QED
    BY <1>1, <2>1, <2>2 DEF IInv, Safe
<1>4. CASE ~overtaken /\ Next
  <2>1. overtaken' \/ (Driving' /\ Registers')
    BY <1>1, <1>4, DriveStep, RegStep
  <2>2. CASE ~overtaken'
    BY <1>1, <1>4, <2>1, <2>2, ChainStep DEF IInv, Safe
  <2> QED
    BY <1>1, <2>2 DEF IInv
<1> QED
  BY <1>2, <1>3, <1>4

\* which holds initially.
LEMMA InvInit == Init => IInv
<1> SUFFICES ASSUME Init PROVE IInv
  OBVIOUS
<1>1. TypeOK
  <2>1. queue \in Seq(Reqs) /\ \A j, k \in DOMAIN queue : queue[j] = queue[k] => j = k
    BY DEF Init
  <2>2. td \in [Tds -> TdType] /\ qhnext \in Tds \cup {T}
    BY DEF Init, TdType
  <2>3. cpu \in CpuType
    BY DEF Init, Idle, CpuType
  <2>4. hw \in HwType
    BY DEF Init, HwIdle, HwType
  <2>5. status \in [Reqs -> {"idle", "inprogress", "ok", "error", "gone"}]
    BY DEF Init
  <2>6. count \in [Reqs -> 0 .. 2] /\ quiet \subseteq Reqs
    BY DEF Init
  <2> QED
    BY <2>1, <2>2, <2>3, <2>4, <2>5, <2>6, Zenon DEF Init, TypeOK
<1>2. ~Linking /\ Pending = <<>> /\ DOMAIN Pending = {} /\ HwPosition = T
  BY DEF Init, Linking, Idle, Pending, HwPosition, HwIdle
<1>3. Driving /\ Registers
  BY <1>2 DEF Init, Driving, Registers, Idle, HwIdle, Linking
<1>4. Sized
  <2>1. \A t \in Tds : t[1] \in Reqs /\ t[2] > 0
    BY DEF Tds
  <2> QED
    BY <1>2, <2>1 DEF Init, Sized, Members
<1>5. Chained /\ Positioned /\ Arrived
  BY <1>2 DEF Chained, Positioned, Arrived, Init
<1> QED
  BY <1>1, <1>3, <1>4, <1>5 DEF IInv, Safe

\* The chain of dTDs and the place of the controller in it, through every
\* interleaving of fsl_ep_queue, dtd_complete_irq, fsl_ep_dequeue, nuke and the
\* controller.
THEOREM Inductive == Spec => []IInv
  BY InvInit, InvStep, PTL DEF Spec

\* Type correctness; a request is on ep->queue only once.
THEOREM TypeCorrect == Spec => []TypeOK
<1>1. IInv => TypeOK
  BY DEF IInv
<1> QED
  BY <1>1, Inductive, PTL

\* The controller is never sent to a dTD that dma_pool_free has taken back, save
\* where fsl_ep_dequeue takes a request away from under it.
THEOREM NoFreedTdEver == Spec => []NoFreedTd
<1>1. IInv => NoFreedTd
  <2> SUFFICES ASSUME IInv, ~overtaken, HwPosition # T PROVE td[HwPosition].st # "free"
    BY DEF NoFreedTd
  <2>1. PICK k \in DOMAIN Pending, j \in {1, 2} : At(k, j)
    BY DEF IInv, Safe, Positioned
  <2> QED
    BY <2>1 DEF At
<1> QED
  BY <1>1, Inductive, PTL

-----------------------------------------------------------------------------
(* What lies before the controller.                                        *)

\* The order of the dTDs is that of their places.
LEMMA Before ==
    ASSUME TypeOK, NEW k \in DOMAIN queue, NEW l \in DOMAIN queue, NEW i \in {1, 2}, NEW j \in {1, 2}
    PROVE  Precedes(<<queue[k], i>>, <<queue[l], j>>) <=> k < l \/ (k = l /\ i < j)
<1>1. \A a, b \in DOMAIN queue : queue[a] = queue[b] => a = b
  BY DEF TypeOK
<1> QED
  BY <1>1 DEF Precedes

\* The dTDs from dTD i of request k on.
From(k, i) ==
    {t \in Tds : \E m \in DOMAIN queue, j \in {1, 2} :
        t = <<queue[m], j>> /\ j <= count[queue[m]] /\ (m > k \/ (m = k /\ j >= i))}

\* The first dTD from a place on is the one at that place.
LEMMA FirstFrom ==
    ASSUME TypeOK, NEW k \in DOMAIN queue, NEW i \in {1, 2}, i <= count[queue[k]]
    PROVE  First(From(k, i)) = <<queue[k], i>>
<1>1. DOMAIN queue = 1 .. Len(queue) /\ Len(queue) \in Nat /\ \A m \in DOMAIN queue : queue[m] \in Reqs
  BY Ends
<1>2. <<queue[k], i>> \in From(k, i)
  BY <1>1 DEF From, Tds
<1>3. ASSUME NEW t \in From(k, i) PROVE t = <<queue[k], i>> \/ Precedes(<<queue[k], i>>, t)
  <2>1. PICK m \in DOMAIN queue, j \in {1, 2} : t = <<queue[m], j>> /\ (m > k \/ (m = k /\ j >= i))
    BY DEF From
  <2>2. m > k => k < m
    BY <1>1
  <2>3. CASE m > k
    BY <2>1, <2>2, <2>3, Before
  <2>4. CASE m = k /\ j > i
    BY <2>1, <2>4, Before
  <2>5. CASE m = k /\ j = i
    BY <2>1, <2>5
  <2> QED
    BY <2>1, <2>3, <2>4, <2>5
<1>4. ASSUME NEW t \in From(k, i), \A s \in From(k, i) : s = t \/ Precedes(t, s)
      PROVE  t = <<queue[k], i>>
  <2>1. PICK m \in DOMAIN queue, j \in {1, 2} : t = <<queue[m], j>> /\ (m > k \/ (m = k /\ j >= i))
    BY DEF From
  <2>2. <<queue[k], i>> = t \/ Precedes(t, <<queue[k], i>>)
    BY <1>2, <1>4
  <2>3. Precedes(t, <<queue[k], i>>) => m < k \/ (m = k /\ j < i)
    BY <2>1, Before
  <2>4. ~(m < k \/ (m = k /\ j < i))
    BY <1>1, <2>1
  <2> QED
    BY <2>2, <2>3, <2>4
<1>5. From(k, i) # {}
  BY <1>2
<1> QED
  BY <1>2, <1>3, <1>4, <1>5 DEF First

\* While the controller has a place and nothing is left behind, what is still to
\* be done is what lies from there on.
LEMMA OutstandingFrom ==
    ASSUME IInv, ~overtaken, ~stranded, ~Linking, NEW k \in DOMAIN queue, NEW i \in {1, 2}, At(k, i)
    PROVE  Outstanding = From(k, i)
<1> USE DEF IInv, Safe
<1>1. Pending = queue /\ DOMAIN queue = 1 .. Len(queue) /\ Len(queue) \in Nat
  BY Ends DEF Pending
<1>2. \A m \in DOMAIN queue : queue[m] \in Reqs /\ count[queue[m]] \in {1, 2}
  BY <1>1, PendingSizes
<1>3. ASSUME NEW m \in DOMAIN queue, NEW j \in {1, 2}, j <= count[queue[m]]
      PROVE  td[<<queue[m], j>>].st = "active" /\ Open(queue[m]) <=> m > k \/ (m = k /\ j >= i)
  <2>1. PICK r \in Reqs : r = queue[m] /\ count[r] \in {1, 2} /\ j <= count[r]
    BY <1>2, <1>3
  <2>2. CASE m > k
    <3>1. Fresh(r)
      BY <1>1, <2>1, <2>2 DEF At
    <3>2. td[<<r, 1>>].st = "active" /\ td[<<r, j>>].st = "active"
      BY <2>1, <3>1 DEF Fresh
    <3>3. Open(r)
      BY <2>1, <3>2, JudgedNow DEF Judged, Open
    <3> QED
      BY <2>1, <2>2, <3>2, <3>3
  <2>3. CASE m < k
    <3>1. ~Open(r)
      BY <1>1, <2>1, <2>3 DEF At
    <3>2. ~(m > k) /\ m # k
      BY <1>1, <2>3
    <3> QED
      BY <2>1, <3>1, <3>2
  <2>4. CASE m = k
    <3>1. /\ i <= count[r] /\ td[<<r, i>>].st = "active"
          /\ i = 2 => td[<<r, 1>>].st = "done"
          /\ i < count[r] => td[<<r, 2>>].st = "active"
      BY <1>1, <2>1, <2>4 DEF At
    <3>2. Open(r)
      <4>1. CASE i = 1
        BY <2>1, <3>1, <4>1, JudgedNow DEF Judged, Open
      <4>2. CASE i = 2
        <5>1. count[r] = 2
          BY <2>1, <3>1, <4>2
        <5> QED
          BY <3>1, <4>2, <5>1, JudgedNow DEF Judged, Open
      <4> QED
        BY <4>1, <4>2
    <3>3. td[<<r, j>>].st = "active" <=> j >= i
      BY <2>1, <3>1
    <3>4. ~(m > k)
      BY <1>1, <2>4
    <3> QED
      BY <2>1, <2>4, <3>2, <3>3, <3>4
  <2> QED
    BY <1>1, <2>2, <2>3, <2>4
<1>4. ASSUME NEW t
      PROVE  t \in Outstanding <=> \E m \in DOMAIN queue, j \in {1, 2} :
                 /\ t = <<queue[m], j>> /\ j <= count[queue[m]]
                 /\ td[<<queue[m], j>>].st = "active" /\ Open(queue[m])
  <2>1. t \in Outstanding <=> \E m \in DOMAIN queue : \E j \in 1 .. count[queue[m]] :
            t = <<queue[m], j>> /\ td[t].st = "active" /\ Open(queue[m])
    BY DEF Outstanding, Queued, TdsOf, Open
  <2>2. \A m \in DOMAIN queue : \A j : j \in 1 .. count[queue[m]] <=> j \in {1, 2} /\ j <= count[queue[m]]
    BY <1>2
  <2> QED
    BY <2>1, <2>2, ZenonT(60)
<1>5. ASSUME NEW t
      PROVE  t \in From(k, i) <=> \E m \in DOMAIN queue, j \in {1, 2} :
                 t = <<queue[m], j>> /\ j <= count[queue[m]] /\ (m > k \/ (m = k /\ j >= i))
  <2>1. \A m \in DOMAIN queue, j \in {1, 2} : <<queue[m], j>> \in Tds
    BY <1>2 DEF Tds
  <2> QED
    BY <2>1 DEF From
<1>6. ASSUME NEW t PROVE t \in Outstanding <=> t \in From(k, i)
  <2>1. ASSUME t \in Outstanding PROVE t \in From(k, i)
    <3>1. PICK m \in DOMAIN queue, j \in {1, 2} :
             /\ t = <<queue[m], j>> /\ j <= count[queue[m]]
             /\ td[<<queue[m], j>>].st = "active" /\ Open(queue[m])
      BY <1>4, <2>1
    <3>2. m > k \/ (m = k /\ j >= i)
      BY <1>3, <3>1
    <3> QED
      BY <1>5, <3>1, <3>2
  <2>2. ASSUME t \in From(k, i) PROVE t \in Outstanding
    <3>1. PICK m \in DOMAIN queue, j \in {1, 2} :
             t = <<queue[m], j>> /\ j <= count[queue[m]] /\ (m > k \/ (m = k /\ j >= i))
      BY <1>5, <2>2
    <3>2. td[<<queue[m], j>>].st = "active" /\ Open(queue[m])
      BY <1>3, <3>1
    <3> QED
      BY <1>4, <3>1, <3>2
  <2> QED
    BY <2>1, <2>2
<1> QED
  BY <1>6

Later(t, tds) == {s \in tds : Precedes(t, s)}

\* Behind dTD j of request m come those from the next one on.
LEMMA LaterFrom ==
    ASSUME IInv, ~overtaken, ~Linking, NEW k \in DOMAIN queue, NEW i \in {1, 2},
           NEW m \in DOMAIN queue, NEW j \in {1, 2}, j <= count[queue[m]], m > k \/ (m = k /\ j >= i)
    PROVE  td[<<queue[m], j>>].next = First(Later(<<queue[m], j>>, From(k, i)))
<1> USE DEF IInv, Safe
<1>1. Pending = queue /\ DOMAIN queue = 1 .. Len(queue) /\ Len(queue) \in Nat
  BY Ends DEF Pending
<1>2. \A l \in DOMAIN queue : queue[l] \in Reqs /\ count[queue[l]] \in {1, 2}
  BY <1>1, PendingSizes
<1>3. td[<<queue[m], j>>].next = NextTd(m, j)
  BY <1>1 DEF Chained
<1> DEFINE later == Later(<<queue[m], j>>, From(k, i))
<1>4. ASSUME NEW s
      PROVE  s \in later <=> \E l \in DOMAIN queue, h \in {1, 2} :
                 s = <<queue[l], h>> /\ h <= count[queue[l]] /\ (l > m \/ (l = m /\ h > j))
  <2>0. \A l \in DOMAIN queue, h \in {1, 2} : <<queue[l], h>> \in Tds
    BY <1>2 DEF Tds
  <2>1. \A l \in DOMAIN queue, h \in {1, 2} :
            Precedes(<<queue[m], j>>, <<queue[l], h>>) <=> m < l \/ (m = l /\ j < h)
    BY Before
  <2>2. \A l \in DOMAIN queue, h \in {1, 2} :
            /\ m < l \/ (m = l /\ j < h) <=> l > m \/ (l = m /\ h > j)
            /\ l > m \/ (l = m /\ h > j) => l > k \/ (l = k /\ h >= i)
    BY <1>1
  <2> QED
    BY <2>0, <2>1, <2>2 DEF From, Later
<1>5. CASE j < count[queue[m]]
  <2>1. j = 1 /\ 2 <= count[queue[m]]
    BY <1>2, <1>5
  <2>2. \A s : s \in later <=> s \in From(m, 2)
    <3>1. \A h \in {1, 2} : h > j <=> h >= 2
      BY <2>1
    <3>2. \A l \in DOMAIN queue, h \in {1, 2} : <<queue[l], h>> \in Tds
      BY <1>2 DEF Tds
    <3>3. \A s : s \in From(m, 2) <=> \E l \in DOMAIN queue, h \in {1, 2} :
                 s = <<queue[l], h>> /\ h <= count[queue[l]] /\ (l > m \/ (l = m /\ h >= 2))
      BY <3>2 DEF From
    <3> HIDE DEF later
    <3>4. \A s : s \in later <=> \E l \in DOMAIN queue, h \in {1, 2} :
                 s = <<queue[l], h>> /\ h <= count[queue[l]] /\ (l > m \/ (l = m /\ h >= 2))
      BY <1>4, <3>1
    <3> QED
      BY <3>3, <3>4
  <2>3. later = From(m, 2)
    BY <2>2
  <2>4. First(From(m, 2)) = <<queue[m], 2>>
    BY <2>1, FirstFrom
  <2>5. NextTd(m, j) = <<queue[m], 2>>
    BY <1>1, <1>5 DEF NextTd
  <2> QED
    BY <1>3, <2>3, <2>4, <2>5
<1>6. CASE ~(j < count[queue[m]]) /\ m < Len(queue)
  <2>1. m + 1 \in DOMAIN queue /\ 1 <= count[queue[m + 1]]
    BY <1>1, <1>2, <1>6
  <2>2. \A s : s \in later <=> s \in From(m + 1, 1)
    <3>1. \A l \in DOMAIN queue, h \in {1, 2} :
              /\ <<queue[l], h>> \in Tds
              /\ h <= count[queue[l]] =>
                    ((l > m \/ (l = m /\ h > j)) <=> (l > m + 1 \/ (l = m + 1 /\ h >= 1)))
      <4>1. \A l \in DOMAIN queue, h \in {1, 2} : <<queue[l], h>> \in Tds
        BY <1>2 DEF Tds
      <4>2. ASSUME NEW l \in DOMAIN queue, NEW h \in {1, 2}, h <= count[queue[l]]
            PROVE  (l > m \/ (l = m /\ h > j)) <=> (l > m + 1 \/ (l = m + 1 /\ h >= 1))
        <5>1. ~(l = m /\ h > j)
          BY <1>2, <1>6, <4>2
        <5>2. l > m <=> l > m + 1 \/ l = m + 1
          BY <1>1
        <5> QED
          BY <5>1, <5>2
      <4> QED
        BY <4>1, <4>2
    <3> HIDE DEF later
    <3> QED
      BY <1>4, <3>1, ZenonT(60) DEF From
  <2>3. later = From(m + 1, 1)
    BY <2>2
  <2>4. First(From(m + 1, 1)) = <<queue[m + 1], 1>>
    BY <2>1, FirstFrom
  <2>5. NextTd(m, j) = <<queue[m + 1], 1>>
    BY <1>1, <1>6 DEF NextTd
  <2> QED
    BY <1>3, <2>3, <2>4, <2>5
<1>7. CASE ~(j < count[queue[m]]) /\ ~(m < Len(queue))
  <2>1. ASSUME NEW l \in DOMAIN queue, NEW h \in {1, 2}, h <= count[queue[l]]
        PROVE  ~(l > m \/ (l = m /\ h > j))
    <3>1. ~(l > m)
      BY <1>1, <1>7
    <3>2. ~(l = m /\ h > j)
      BY <1>2, <1>7, <2>1
    <3> QED
      BY <3>1, <3>2
  <2>2. later = {}
    BY <1>4, <2>1
  <2>3. NextTd(m, j) = T
    BY <1>1, <1>7 DEF NextTd
  <2> QED
    BY <1>3, <2>2, <2>3 DEF First
<1> QED
  BY <1>5, <1>6, <1>7

\* Between two calls of the driver the controller has before it just what is
\* still to be done, in the order of ep->queue: fsl_queue_td's trip wire loses no
\* request at the end of the chain.
THEOREM ChainAlwaysQueue == Spec => []ChainIsQueue
<1>1. IInv => ChainIsQueue
  <2> SUFFICES ASSUME IInv, cpu.pc \in {"idle", "irq"}, ~stranded, ~overtaken
               PROVE  /\ HwPosition = First(Outstanding)
                      /\ \A t \in Outstanding : td[t].next = First({s \in Outstanding : Precedes(t, s)})
    BY DEF ChainIsQueue
  <2>1. ~Linking /\ Pending = queue
    BY DEF Linking, Pending
  <2>2. CASE HwPosition = T
    <3>1. \A k \in DOMAIN queue : ~Open(queue[k])
      BY <2>2 DEF IInv, Safe, Arrived
    <3>2. Outstanding = {}
      BY <3>1 DEF Outstanding, Queued, TdsOf, Open
    <3> QED
      BY <2>2, <3>2 DEF First
  <2>3. CASE HwPosition # T
    <3>1. PICK k \in DOMAIN queue, i \in {1, 2} : At(k, i)
      BY <2>1, <2>3 DEF IInv, Safe, Positioned
    <3>2. Outstanding = From(k, i)
      BY <2>1, <3>1, OutstandingFrom
    <3>3. HwPosition = <<queue[k], i>> /\ i <= count[queue[k]]
      BY <2>1, <3>1 DEF At
    <3>4. HwPosition = First(Outstanding)
      BY <3>2, <3>3, FirstFrom DEF IInv
    <3>5. ASSUME NEW t \in Outstanding
          PROVE  td[t].next = First({s \in Outstanding : Precedes(t, s)})
      <4>1. PICK m \in DOMAIN queue, j \in {1, 2} :
               t = <<queue[m], j>> /\ j <= count[queue[m]] /\ (m > k \/ (m = k /\ j >= i))
        BY <3>2 DEF From
      <4>2. td[t].next = First(Later(t, From(k, i)))
        BY <2>1, <3>1, <4>1, LaterFrom
      <4>3. Later(t, From(k, i)) = {s \in Outstanding : Precedes(t, s)}
        BY <3>2 DEF Later
      <4> QED
        BY <4>2, <4>3
    <3> QED
      BY <3>4, <3>5
  <2> QED
    BY <2>2, <2>3
<1> QED
  BY <1>1, Inductive, PTL

-----------------------------------------------------------------------------
(* The refinement of EndpointQueue.                                        *)

\* The initial states correspond.
LEMMA AbstractInit == Init => Abstract!Init
<1> SUFFICES ASSUME Init PROVE Abstract!Init
  OBVIOUS
<1>1. Pending = <<>>
  BY DEF Init, Pending, Linking, Idle
<1>2. \A st : PendingWith(st) = {}
  BY <1>1 DEF PendingWith
<1> QED
  BY <1>1, <1>2 DEF Init, Abstract!Init

\* A step that changes none of these is no step of the abstract queue.
LEMMA SameAbstract ==
    ASSUME UNCHANGED <<Pending, status, count, td, stranded>>
    PROVE  UNCHANGED Abstract!vars
  BY DEF Abstract!vars, PendingWith, process_ep_req

\* The requests that wait are those that are not finished.
LEMMA WaitingOpen == Abstract!Waiting = {r \in Members(Pending) : Open(r)}
<1>1. \A r : process_ep_req(r) \in {"ok", "error", "uncomplete"}
  BY DEF process_ep_req
<1> QED
  BY <1>1 DEF Abstract!Waiting, Members, Open, PendingWith

\* Both modules remove an element in the same way.
LEMMA SameRemoval ==
    ASSUME NEW q, NEW k
    PROVE  Abstract!RemoveAt(q, k) = RemoveAt(q, k)
  BY DEF Abstract!RemoveAt, RemoveAt

\* What the controller does to the request it is at is that request's turn.
LEMMA TurnAt ==
    ASSUME NEW k \in DOMAIN Pending, NEW j \in {1, 2}, NEW st, Retires(k, j, st), IInv, ~overtaken
    PROVE  Abstract!Turn(k) /\ Open(Pending[k])
<1> USE DEF IInv, Safe
<1>1. At(k, j)
  BY DEF Retires
<1>2. Listed /\ \A m \in DOMAIN Pending : Pending[m] \in Reqs /\ count[Pending[m]] \in {1, 2}
  BY PendingSizes
<1>3. HwPosition = <<Pending[k], j>> /\ HwPosition # T
  BY <1>1, <1>2, ArcUdcAssumption DEF At, T
<1>4. Open(Pending[k])
  BY <1>3, NotInFinished
<1>5. DOMAIN Pending = 1 .. Len(Pending) /\ Len(Pending) \in Nat
  BY <1>2, Indices
<1>6. \A m \in 1 .. k - 1 : m \in DOMAIN Pending /\ m < k
  BY <1>5
<1>7. ~stranded => \A m \in 1 .. k - 1 : ~Open(Pending[m])
  BY <1>1, <1>6 DEF At
<1>8. Pending[k] \in Members(Pending)
  BY DEF Members
<1> QED
  BY <1>4, <1>7, <1>8, WaitingOpen DEF Abstract!Turn

\* The requests with a given outcome after the controller has written a status back.
LEMMA RetiredWith ==
    ASSUME NEW k \in DOMAIN Pending, NEW j \in {1, 2}, NEW s, Retires(k, j, s), IInv, ~overtaken,
           NEW st, st # "uncomplete"
    PROVE  PendingWith(st)' = IF process_ep_req(Pending[k])' = st THEN PendingWith(st) \cup {Pending[k]}
                              ELSE PendingWith(st)
<1>1. Pending' = Pending
  BY DEF Retires
<1>2. process_ep_req(Pending[k]) = "uncomplete"
  BY TurnAt DEF Open
<1>3. \A m \in DOMAIN Pending : m # k => process_ep_req(Pending[m])' = process_ep_req(Pending[m])
  BY DEF Retires
<1>4. \A m \in DOMAIN Pending : Pending[m] = Pending[k] => m = k
  BY ListedNow DEF IInv, Safe, Listed
<1>5. \A r : r \in PendingWith(st) <=> \E m \in DOMAIN Pending : Pending[m] = r /\ process_ep_req(Pending[m]) = st
  BY DEF PendingWith
<1>6. \A r : r \in PendingWith(st)' <=> \E m \in DOMAIN Pending' : Pending'[m] = r /\ process_ep_req(Pending[m])' = st
  BY DEF PendingWith
<1>7. ASSUME NEW r
      PROVE  r \in PendingWith(st)' <=> r \in PendingWith(st) \/ (r = Pending[k] /\ process_ep_req(Pending[k])' = st)
  <2>1. ASSUME r \in PendingWith(st)'
        PROVE  r \in PendingWith(st) \/ (r = Pending[k] /\ process_ep_req(Pending[k])' = st)
    <3>1. PICK m \in DOMAIN Pending : Pending[m] = r /\ process_ep_req(Pending[m])' = st
      BY <1>1, <1>6, <2>1
    <3> QED
      BY <1>3, <1>5, <3>1
  <2>2. ASSUME r \in PendingWith(st) PROVE r \in PendingWith(st)'
    <3>1. PICK m \in DOMAIN Pending : Pending[m] = r /\ process_ep_req(Pending[m]) = st
      BY <1>5, <2>2
    <3>2. process_ep_req(Pending[m])' = st
      BY <1>2, <1>3, <3>1
    <3> QED
      BY <1>1, <1>6, <3>1, <3>2
  <2>3. ASSUME r = Pending[k], process_ep_req(Pending[k])' = st PROVE r \in PendingWith(st)'
    BY <1>1, <1>6, <2>3
  <2> QED
    BY <2>1, <2>2, <2>3
<1>8. CASE process_ep_req(Pending[k])' = st
  BY <1>7, <1>8
<1>9. CASE process_ep_req(Pending[k])' # st
  BY <1>7, <1>9
<1> QED
  BY <1>8, <1>9

\* A finished dTD is a move of the first waiting request, or hidden.
LEMMA AbstractMove ==
    ASSUME IInv, ~overtaken, HwMoves
    PROVE  Abstract!Move \/ UNCHANGED Abstract!vars
<1> USE DEF IInv, Safe, ghost
<1>1. /\ hw.phase = "active" /\ td' = [td EXCEPT ![hw.cur].st = "done"]
      /\ UNCHANGED <<queue, status, count, cpu, stranded>>
  BY DEF HwMoves
<1>2. PICK k \in DOMAIN Pending, j \in {1, 2} : Retires(k, j, "done")
  BY <1>1, Retirement
<1>3. PICK r \in Reqs : r = Pending[k] /\ r = Pending'[k] /\ count[r] \in {1, 2}
  BY <1>2, PendingSizes DEF Retires
<1>4. process_ep_req(r)' # "error"
  <2>1. /\ td'[<<r, j>>].st = "done" /\ j <= count[r]
        /\ j = 2 => td[<<r, 1>>].st = "done"
        /\ j < count[r] => td[<<r, 2>>].st = "active"
    BY <1>2, <1>3 DEF Retires, At
  <2>2. \A i \in {1, 2} : i # j => td'[<<r, i>>].st = td[<<r, i>>].st
    <3>1. \A i \in {1, 2} : <<r, i>> \in Tds /\ (i # j => <<r, i>> # <<r, j>>)
      BY DEF Tds
    <3> QED
      BY <1>2, <1>3, <3>1 DEF Retires
  <2>3. count'[r] = count[r]
    BY <1>1
  <2>4. td'[<<r, 1>>].st = "done" /\ (count[r] = 2 => td'[<<r, 2>>].st \in {"done", "active"})
    BY <1>3, <2>1, <2>2
  <2> QED
    BY <1>3, <2>3, <2>4, JudgedNext DEF Judged
<1>5. process_ep_req(Pending[k])' = process_ep_req(r)'
  BY <1>3
<1>6. PendingWith("error")' = PendingWith("error")
  BY <1>2, <1>4, <1>5, RetiredWith
<1>7. /\ PendingWith("ok")' = PendingWith("ok") \cup {Pending[k]} \/ PendingWith("ok")' = PendingWith("ok")
  BY <1>2, RetiredWith
<1>8. Abstract!Turn(k) /\ Pending' = Pending
  BY <1>2, TurnAt DEF Retires
<1> QED
  BY <1>1, <1>2, <1>6, <1>7, <1>8 DEF Abstract!Move, Abstract!vars

\* A dTD that fails is the failure of the first waiting request.
LEMMA AbstractFail ==
    ASSUME IInv, ~overtaken, HwFails
    PROVE  Abstract!Fail
<1> USE DEF IInv, Safe
<1>1. /\ hw.phase = "active" /\ td' = [td EXCEPT ![hw.cur].st = "error"]
      /\ stranded' = (stranded \/ Unfinished(Queued \ {hw.cur[1]}) # {})
      /\ UNCHANGED <<queue, status, count, cpu>>
  BY DEF HwFails
<1>2. PICK k \in DOMAIN Pending, j \in {1, 2} : Retires(k, j, "error")
  BY <1>1, Retirement
<1>3. PICK r \in Reqs : r = Pending[k] /\ r = Pending'[k] /\ count[r] \in {1, 2}
  BY <1>2, PendingSizes DEF Retires
<1>4. process_ep_req(r)' = "error"
  <2>1. /\ td'[<<r, j>>].st = "error" /\ j <= count[r]
        /\ j = 2 => td[<<r, 1>>].st = "done"
    BY <1>2, <1>3 DEF Retires, At
  <2>2. j = 2 => td'[<<r, 1>>].st = "done"
    <3>1. <<r, 1>> \in Tds /\ <<r, 1>> # <<r, 2>>
      BY DEF Tds
    <3> QED
      BY <1>2, <1>3, <2>1, <3>1 DEF Retires
  <2>3. count'[r] = count[r]
    BY <1>1
  <2>4. CASE j = 1
    BY <1>3, <2>1, <2>3, <2>4, JudgedNext DEF Judged
  <2>5. CASE j = 2
    <3>1. count[r] = 2
      BY <1>3, <2>1, <2>5
    <3> QED
      BY <2>1, <2>2, <2>3, <2>5, <3>1, JudgedNext DEF Judged
  <2> QED
    BY <2>4, <2>5
<1>5. process_ep_req(Pending[k])' = process_ep_req(r)'
  BY <1>3
<1>6. PendingWith("ok")' = PendingWith("ok")
  BY <1>2, <1>4, <1>5, RetiredWith
<1>7. PendingWith("error")' = PendingWith("error") \cup {Pending[k]}
  BY <1>2, <1>4, <1>5, RetiredWith
<1>8. Abstract!Turn(k) /\ Open(r) /\ Pending' = Pending
  BY <1>2, <1>3, TurnAt DEF Retires
<1>9. stranded' = stranded \/ (stranded' /\ \E p, q \in Abstract!Waiting : p # q)
  <2> SUFFICES ASSUME stranded' # stranded
               PROVE  stranded' /\ \E p, q \in Abstract!Waiting : p # q
    OBVIOUS
  <2>1. stranded' /\ Unfinished(Queued \ {hw.cur[1]}) # {}
    BY <1>1 DEF TypeOK
  <2>2. PICK q \in Queued : q # hw.cur[1] /\ Open(q)
    BY <2>1 DEF Unfinished, Open
  <2>3. hw.cur[1] = r
    BY <1>2, <1>3 DEF Retires
  <2>4. q \in Members(Pending)
    BY ListedNow, Indices DEF Queued, Members
  <2>5. r \in Members(Pending)
    BY <1>2, <1>3 DEF Members
  <2>6. q \in Abstract!Waiting /\ r \in Abstract!Waiting
    BY <1>8, <2>2, <2>4, <2>5, WaitingOpen
  <2> QED
    BY <2>1, <2>2, <2>3, <2>6
<1> QED
  BY <1>1, <1>2, <1>6, <1>7, <1>8, <1>9 DEF Abstract!Fail

\* A request that is taken off the list leaves the abstract queue.
LEMMA AbstractLeaves ==
    ASSUME IInv, ~overtaken, NEW k \in DOMAIN queue, Takes(k), NEW s,
           status' = [status EXCEPT ![queue[k]] = s]
    PROVE  Abstract!Leaves(k, s) /\ Pending = queue /\ Pending' = queue'
<1> USE DEF IInv, Safe
<1>1. Pending = queue /\ Pending' = queue' /\ queue' = RemoveAt(queue, k)
  BY DEF Takes, Pending
<1>2. /\ Len(queue) \in Nat /\ k \in 1 .. Len(queue) /\ DOMAIN queue = 1 .. Len(queue)
      /\ Len(queue') = Len(queue) - 1 /\ DOMAIN queue' = 1 .. Len(queue')
  BY <1>1, StillDistinct
<1>3. \A m \in DOMAIN queue' :
         /\ Shift(k, m) \in DOMAIN queue /\ Shift(k, m) # k /\ queue'[m] = queue[Shift(k, m)]
         /\ process_ep_req(queue[m])' = process_ep_req(queue[Shift(k, m)])
  BY TakeStep
<1>4. \A l \in DOMAIN queue : l # k => \E m \in DOMAIN queue' : Shift(k, m) = l
  <2> SUFFICES ASSUME NEW l \in DOMAIN queue, l # k PROVE \E m \in DOMAIN queue' : Shift(k, m) = l
    OBVIOUS
  <2>1. CASE l < k
    <3>1. l \in DOMAIN queue' /\ Shift(k, l) = l
      BY <1>2, <2>1 DEF Shift
    <3> QED
      BY <3>1
  <2>2. CASE l > k
    <3>1. l - 1 \in DOMAIN queue' /\ Shift(k, l - 1) = l
      BY <1>2, <2>2 DEF Shift
    <3> QED
      BY <3>1
  <2> QED
    BY <1>2, <2>1, <2>2
<1>5. \A i, j \in DOMAIN queue : queue[i] = queue[j] => i = j
  BY DEF TypeOK
<1>6. ASSUME NEW st PROVE PendingWith(st)' = PendingWith(st) \ {queue[k]}
  <2>1. \A r : r \in PendingWith(st) <=> \E m \in DOMAIN queue : queue[m] = r /\ process_ep_req(queue[m]) = st
    BY <1>1 DEF PendingWith
  <2>2. \A r : r \in PendingWith(st)' <=> \E m \in DOMAIN queue' : queue'[m] = r /\ process_ep_req(queue[m])' = st
    <3>1. PendingWith(st)' = {r \in {queue'[m] : m \in DOMAIN queue'} : process_ep_req(r)' = st}
      BY <1>1 DEF PendingWith
    <3> QED
      BY <3>1
  <2>3. ASSUME NEW r \in PendingWith(st)' PROVE r \in PendingWith(st) \ {queue[k]}
    <3>1. PICK m \in DOMAIN queue' : queue'[m] = r /\ process_ep_req(queue[m])' = st
      BY <2>2
    <3>2. PICK l \in DOMAIN queue : l # k /\ queue[l] = r /\ process_ep_req(queue[l]) = st
      BY <1>3, <3>1
    <3> QED
      BY <1>5, <2>1, <3>2
  <2>4. ASSUME NEW r \in PendingWith(st) \ {queue[k]} PROVE r \in PendingWith(st)'
    <3>1. PICK l \in DOMAIN queue : l # k /\ queue[l] = r /\ process_ep_req(queue[l]) = st
      BY <2>1
    <3>2. PICK m \in DOMAIN queue' : Shift(k, m) = l
      BY <1>4, <3>1
    <3> QED
      BY <1>3, <2>2, <3>1, <3>2
  <2> QED
    BY <2>3, <2>4
<1> QED
  BY <1>1, <1>6, SameRemoval DEF Abstract!Leaves

\* dtd_complete_irq returns a request.
LEMMA AbstractReturn ==
    ASSUME IInv, ~overtaken, dtd_complete_irq, cpu.pc = "irq", cpu.next # NoReq, ~Open(cpu.next), TypeOK'
    PROVE  Abstract!Return
<1> USE DEF IInv, Safe
<1>1. 1 \in DOMAIN queue /\ Takes(1)
  BY CompletionStep
<1>2. queue # <<>> /\ cpu.next = queue[1] /\ Head(queue) = queue[1] /\ queue[1] \in Reqs
  BY <1>1, Ends DEF Driving
<1>3. /\ done(queue[1], process_ep_req(queue[1]))
      /\ stranded' = (stranded /\ queue' # <<>>)
  BY <1>2 DEF dtd_complete_irq, Open
<1>4. PICK st \in {"ok", "error"} : process_ep_req(queue[1]) = st
  BY <1>2 DEF process_ep_req, Open
<1>5. Abstract!Leaves(1, st) /\ Pending = queue /\ Pending' = queue'
  <2>1. status' = [status EXCEPT ![queue[1]] = st]
    BY <1>3, <1>4 DEF done
  <2> QED
    BY <1>1, <2>1, AbstractLeaves
<1>6. queue[1] \in PendingWith(st)
  BY <1>1, <1>4, <1>5 DEF PendingWith
<1>7. (~stranded)' = (~stranded \/ Pending' = <<>>)
  BY <1>3, <1>5, Zenon
<1>8. Pending # <<>> /\ Head(Pending) \in PendingWith(st)
  BY <1>2, <1>5, <1>6
<1> QED
  BY <1>4, <1>5, <1>7, <1>8, Zenon DEF Abstract!Return

\* fsl_ep_dequeue cancels a request,
LEMMA AbstractCancel ==
    ASSUME IInv, ~overtaken, Dequeued
    PROVE  Abstract!Cancel
<1> USE DEF IInv, Safe
<1>1. PICK k \in DOMAIN queue : cpu.req = queue[k] /\ Takes(k) /\ (k = 1 <=> queue[k] = Head(queue))
  BY DequeueTakes
<1>2. Unlink(queue[k]) /\ done(queue[k], "gone")
  BY <1>1 DEF Dequeued
<1>3. Abstract!Leaves(k, "gone") /\ Pending = queue /\ Pending' = queue'
  BY <1>1, <1>2, AbstractLeaves DEF done
<1>4. /\ Len(queue) \in Nat /\ k \in 1 .. Len(queue) /\ DOMAIN queue = 1 .. Len(queue)
      /\ Len(queue') = Len(queue) - 1 /\ queue' \in Seq(Reqs)
  BY <1>1, StillDistinct DEF Takes
<1>5. queue' = <<>> <=> Len(queue) = 1
  BY <1>4, EmptySeq
<1>6. CASE k = 1
  <2>1. stranded' = (Queued # {queue[k]} /\ (stranded \/ Unfinished(Queued \ {queue[k]}) # {}))
    BY <1>1, <1>2, <1>6 DEF Unlink
  <2>2. Queued = {queue[1]} <=> Len(queue) = 1
    <3>1. CASE Len(queue) = 1
      BY <1>4, <3>1 DEF Queued
    <3>2. CASE Len(queue) # 1
      <4>1. 2 \in DOMAIN queue /\ 1 \in DOMAIN queue
        BY <1>4, <3>2
      <4>2. queue[2] # queue[1] /\ queue[2] \in Queued
        BY <4>1 DEF TypeOK, Queued
      <4> QED
        BY <3>2, <4>2
    <3> QED
      BY <3>1, <3>2
  <2>3. Abstract!Waiting \subseteq {Pending[1]} <=> Unfinished(Queued \ {queue[1]}) = {}
    <3>1. Abstract!Waiting = {r \in Queued : Open(r)}
      BY <1>3, WaitingOpen DEF Members, Queued
    <3> QED
      BY <1>3, <3>1 DEF Unfinished, Open
  <2>4. (~stranded)' = (Pending' = <<>> \/ (~stranded /\ (k = 1 => Abstract!Waiting \subseteq {Pending[1]})))
    BY <1>3, <1>5, <1>6, <2>1, <2>2, <2>3
  <2>5. k \in DOMAIN Pending
    BY <1>3
  <2> QED
    BY <1>3, <2>4, <2>5, Zenon DEF Abstract!Cancel
<1>7. CASE k # 1
  <2>1. stranded' = stranded
    BY <1>1, <1>2, <1>7 DEF Unlink
  <2>2. Pending' # <<>>
    BY <1>3, <1>4, <1>5, <1>7
  <2>3. (~stranded)' = (Pending' = <<>> \/ (~stranded /\ (k = 1 => Abstract!Waiting \subseteq {Pending[1]})))
    BY <1>7, <2>1, <2>2
  <2>4. k \in DOMAIN Pending
    BY <1>3
  <2> QED
    BY <1>3, <2>3, <2>4, Zenon DEF Abstract!Cancel
<1> QED
  BY <1>6, <1>7

\* and nuke all of them.
LEMMA AbstractCancelAll ==
    ASSUME IInv, ~overtaken, nuke, ~Linking, ~Linking'
    PROVE  Abstract!CancelAll \/ UNCHANGED Abstract!vars
<1> USE DEF IInv, Safe
<1>1. /\ queue' = <<>> /\ stranded' = FALSE
      /\ status' = [r \in Reqs |-> IF r \in Queued THEN "gone" ELSE status[r]]
  BY DEF nuke, AllDone
<1>2. Pending = queue /\ Pending' = <<>>
  BY <1>1 DEF Pending
<1>3. \A st : PendingWith(st)' = {}
  BY <1>2 DEF PendingWith
<1>4. status' = [r \in Reqs |-> IF \E k \in DOMAIN Pending : Pending[k] = r THEN "gone" ELSE status[r]]
  <2>1. \A r : r \in Queued <=> \E k \in DOMAIN Pending : Pending[k] = r
    BY <1>2 DEF Queued
  <2> QED
    BY <1>1, <2>1
<1>5. CASE queue # <<>>
  BY <1>1, <1>2, <1>3, <1>4, <1>5 DEF Abstract!CancelAll
<1>6. CASE queue = <<>>
  <2>1. stranded = FALSE
    BY <1>6 DEF Driving, TypeOK
  <2>2. status' = status
    <3>1. Queued = {}
      BY <1>6 DEF Queued
    <3> QED
      BY <1>1, <3>1 DEF TypeOK
  <2>3. \A st : PendingWith(st) = {}
    BY <1>2, <1>6 DEF PendingWith
  <2> QED
    BY <1>1, <1>2, <1>3, <1>6, <2>1, <2>2, <2>3 DEF Abstract!vars
<1> QED
  BY <1>5, <1>6

\* fsl_ep_queue submits a request.
LEMMA AbstractSubmit ==
    ASSUME IInv, ~overtaken, NEW r \in Reqs, NEW m \in {1, 2}, cpu.pc \in {"idle", "irq"}, Submits(r, m)
    PROVE  Abstract!Submit(r)
<1> USE DEF IInv, Safe, ghost
<1>1. Adds(r, m)
  BY QueueAdds
<1>2. PICK n \in Nat : n = Len(queue)
  BY Ends
<1>3. /\ DOMAIN Pending' = 1 .. n + 1 /\ DOMAIN queue = 1 .. n
      /\ Pending'[n + 1] = r /\ process_ep_req(r)' = "uncomplete"
      /\ \A k \in DOMAIN queue : /\ Pending'[k] = queue[k]
                                  /\ process_ep_req(Pending[k])' = process_ep_req(queue[k])
  BY <1>1, <1>2, AddStep
<1>4. Pending = queue /\ Pending' = Append(Pending, r) /\ \A k \in DOMAIN Pending : Pending[k] # r
  BY <1>1 DEF Adds, Members
<1>5. stranded' = stranded /\ status' = [status EXCEPT ![r] = "inprogress"]
  BY DEF Submits, fsl_ep_queue
<1>6. ASSUME NEW st, st # "uncomplete" PROVE PendingWith(st)' = PendingWith(st)
  <2>1. \A q : q \in PendingWith(st) <=> \E k \in DOMAIN queue : queue[k] = q /\ process_ep_req(queue[k]) = st
    BY <1>4 DEF PendingWith
  <2>2. \A q : q \in PendingWith(st)' <=> \E k \in DOMAIN Pending' : Pending'[k] = q /\ process_ep_req(Pending[k])' = st
    BY DEF PendingWith
  <2>3. \A k : k \in DOMAIN Pending' <=> k \in DOMAIN queue \/ k = n + 1
    BY <1>3
  <2>4. process_ep_req(Pending[n + 1])' = "uncomplete"
    BY <1>3
  <2>5. ASSUME NEW q \in PendingWith(st)' PROVE q \in PendingWith(st)
    <3>1. PICK k \in DOMAIN Pending' : Pending'[k] = q /\ process_ep_req(Pending[k])' = st
      BY <2>2
    <3>2. k \in DOMAIN queue
      BY <1>6, <2>3, <2>4, <3>1
    <3> QED
      BY <1>3, <2>1, <3>1, <3>2
  <2>6. ASSUME NEW q \in PendingWith(st) PROVE q \in PendingWith(st)'
    BY <1>3, <2>1, <2>2, <2>3
  <2> QED
    BY <2>5, <2>6
<1> QED
  BY <1>4, <1>5, <1>6 DEF Abstract!Submit

\* One for which there is no memory is refused.
LEMMA AbstractRefuse ==
    ASSUME NEW r \in Reqs, Refused(r)
    PROVE  Abstract!Refuse(r)
<1>1. UNCHANGED <<queue, count, td, cpu, stranded>> /\ cpu.pc \in {"idle", "irq"}
  BY DEF Refused, NoMemory, ghost
<1>2. Pending = queue /\ Pending' = Pending
  BY <1>1 DEF Pending, Linking
<1>3. \A k \in DOMAIN Pending : Pending[k] # r
  BY <1>2 DEF Refused, NoMemory, Bogus, Queued
<1>4. PendingWith("ok")' = PendingWith("ok") /\ PendingWith("error")' = PendingWith("error")
  BY <1>1, <1>2 DEF PendingWith, process_ep_req
<1> QED
  BY <1>1, <1>2, <1>3, <1>4 DEF Abstract!Refuse, Refused, NoMemory

\* Every step is a step of EndpointQueue, or none.
LEMMA AbstractStep == IInv /\ [Next]_vars => [Abstract!Next]_(Abstract!vars)
<1> SUFFICES ASSUME IInv, [Next]_vars PROVE Abstract!Next \/ UNCHANGED Abstract!vars
  OBVIOUS
<1> USE DEF Abstract!Next
<1>0. CASE UNCHANGED vars
  BY <1>0, SameAbstract DEF vars, reqs, ghost, Pending, Linking
<1>t. TypeOK'
  BY TypeStep
<1>1. CASE ~overtaken /\ TestPrime
  BY <1>1, QuietSame, EnqueueStep, SameAbstract
<1>2. CASE ~overtaken /\ (SetTripwire \/ ReadStat)
  BY <1>2, QuietSame, SameAbstract
<1>3. CASE ~overtaken /\ CheckTripwire
  BY <1>3, QuietSame, EnqueueStep, SameAbstract
<1>4. CASE ~overtaken /\ dtd_complete_irq
  BY <1>t, <1>4, QuietSame, AbstractReturn, SameAbstract
<1>5. CASE ~overtaken /\ Dequeued
  BY <1>5, AbstractCancel
<1>6. CASE ~overtaken /\ ResetQueues
  BY <1>6, AbstractCancelAll DEF ResetQueues, Linking, Idle
<1>7. ASSUME ~overtaken, NEW r \in Reqs, NEW m \in {1, 2}, cpu.pc \in {"idle", "irq"}, Submits(r, m)
      PROVE  Abstract!Next
  BY <1>7, AbstractSubmit
<1>8. CASE ~overtaken /\ \E r \in Reqs : fsl_ep_dequeue(r)
  BY <1>8, QuietSame, SameAbstract
<1>9. CASE ~overtaken /\ fsl_ep_disable
  <2>1. CASE enabled
    BY <1>9, <2>1, QuietSame, SameAbstract
  <2>2. CASE ~enabled
    BY <1>9, <2>2, AbstractCancelAll DEF fsl_ep_disable, Linking
  <2> QED
    BY <2>1, <2>2
<1>10. CASE ~overtaken /\ (fsl_ep_enable \/ reset_irq \/ HwStarts \/ HwAdvances)
  BY <1>10, QuietSame, SameAbstract
<1>11. CASE ~overtaken /\ HwMoves
  BY <1>11, AbstractMove
<1>12. CASE ~overtaken /\ HwFails
  BY <1>12, AbstractFail
<1>13. ASSUME ~overtaken, NEW r \in Reqs, Refused(r) PROVE Abstract!Next
  BY <1>13, AbstractRefuse
<1> QED
  BY <1>0, <1>1, <1>2, <1>3, <1>4, <1>5, <1>6, <1>7, <1>8, <1>9, <1>10, <1>11, <1>12, <1>13, GadgetDoes
  DEF Next, Driver, Controller, Bus, Undefined

\* The driver and the controller together are the queue a gadget driver expects:
\* requests are carried out and given back in the order of fsl_ep_queue, each with
\* the outcome it had, but for what fsl_ep_dequeue or a halt leaves behind.
THEOREM Refinement == Spec => ImplementsEndpointQueue
  BY AbstractInit, AbstractStep, Inductive, PTL DEF Spec, ImplementsEndpointQueue, Abstract!Spec
=============================================================================
