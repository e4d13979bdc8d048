------------------------- MODULE FsgMedium_proofs -------------------------
(***************************************************************************)
(* Proofs about FsgMedium, for any number of LUNs and of sysfs writers,    *)
(* any backing files, any commands and any bounds.                         *)
(***************************************************************************)
EXTENDS FsgMedium, SequenceTheorems, NaturalsInduction, WellFoundedInduction, TLAPS

\* Who may hold, or wait for, filesem: for reading, and for writing.
MayRead == {p \in Procs : \/ p = "thread" /\ pc \in {"wait", "exec", "reread", "oops"}
                          \/ p \in Writers /\ store[p].at = "down_read"}
MayWrite == {p \in Procs : \/ p = "thread" /\ pc = "eject"
                           \/ p \in Writers /\ store[p].at \in {"down_write", "open", "load"}}

\* The wait list q: each process waits once, for what it wants (R may read, W
\* may write) and has not got (r are the readers, w is the writer).
Wanted(q, R, W)  == \A j \in 1 .. Len(q) : q[j].proc \in (IF q[j].mode = "read" THEN R ELSE W)
Waiting(q, r, w) == \A j \in 1 .. Len(q) : q[j].proc \notin r \cup {w}
Once(q)          == \A j, k \in 1 .. Len(q) : q[j].proc = q[k].proc => j = k

\* A semaphore in order: somebody holds it while somebody waits, and readers
\* wait behind a writer if readers hold it.
GoodSem(s, R, W) ==
    /\ s.readers = {} \/ s.writer = "nobody"
    /\ s.readers \subseteq R /\ s.writer \in W \cup {"nobody"}
    /\ s.queue # <<>> => s.readers # {} \/ s.writer # "nobody"
    /\ s.queue # <<>> /\ s.readers # {} => s.queue[1].mode = "write"
    /\ Wanted(s.queue, R, W) /\ Waiting(s.queue, s.readers, s.writer) /\ Once(s.queue)

\* Who is past its down_read or down_write has the semaphore.
Critical ==
    /\ pc \in {"exec", "oops"} => "thread" \in filesem.readers
    /\ \A w \in Writers : store[w].at \in {"open", "load"} => filesem.writer = w

Semaphore == GoodSem(filesem, MayRead, MayWrite) /\ Critical

-----------------------------------------------------------------------------
(* The semaphore's operations keep it in order.                            *)

\* There is a first writer in the wait list, or only readers wait.
LEMMA Leading ==
    ASSUME NEW q \in Seq(WaiterType)
    PROVE  /\ LeadingReaders(q) \in 0 .. Len(q)
           /\ \A j \in 1 .. LeadingReaders(q) : q[j].mode = "read"
           /\ LeadingReaders(q) < Len(q) => q[LeadingReaders(q) + 1].mode = "write"
<1> DEFINE T == {j \in Nat : j \in 1 .. Len(q) /\ q[j].mode = "write"}
           P(k) == /\ \A j \in 1 .. k : q[j].mode = "read"
                   /\ k < Len(q) => q[k + 1].mode = "write"
<1>1. Len(q) \in Nat /\ \A j \in 1 .. Len(q) : q[j].mode \in {"read", "write"}
  <2>1. \A j \in 1 .. Len(q) : q[j] \in WaiterType
    BY ElementOfSeq
  <2> QED
    BY <2>1 DEF WaiterType
<1>2. \E k \in 0 .. Len(q) : P(k)
  <2>1. CASE T = {}
    <3>1. P(Len(q))
      BY <1>1, <2>1
    <3> QED
      BY <1>1, <3>1
  <2>2. CASE T # {}
    <3>1. PICK m \in T : \A j \in T : ~(<<j, m>> \in OpToRel(<, Nat))
      BY <2>2, NatLessThanWellFounded, WFMin
    <3>2. \A j \in T : ~(j < m)
      BY <3>1 DEF OpToRel
    <3>3. m - 1 \in 0 .. Len(q) /\ P(m - 1)
      BY <1>1, <3>2
    <3> QED
      BY <3>3
  <2> QED
    BY <2>1, <2>2
<1> HIDE DEF P
<1>3. LeadingReaders(q) \in 0 .. Len(q) /\ P(LeadingReaders(q))
  BY <1>2 DEF LeadingReaders, P
<1> QED
  BY <1>3 DEF P

\* What is left of a wait list when its first k processes are taken away.
IsRest(t, q, k) == k <= Len(q) /\ Len(t) = Len(q) - k /\ \A j \in 1 .. Len(t) : t[j] = q[k + j]

\* It is a wait list of the others.
LEMMA RestGood ==
    ASSUME NEW q \in Seq(WaiterType), NEW R, NEW W, Wanted(q, R, W), Once(q),
           NEW t \in Seq(WaiterType), NEW k \in Nat, IsRest(t, q, k)
    PROVE  /\ Wanted(t, R, W) /\ Once(t)
           /\ \A j \in 1 .. Len(t), b \in 1 .. k : t[j].proc # q[b].proc
<1>1. PICK m \in Nat : m = Len(q)
  OBVIOUS
<1>2. k <= m /\ \A j \in 1 .. Len(t) : k + j \in 1 .. m /\ t[j] = q[k + j]
  BY <1>1 DEF IsRest
<1>3. Wanted(t, R, W)
  BY <1>1, <1>2 DEF Wanted
<1>4. Once(t)
  <2> SUFFICES ASSUME NEW a \in 1 .. Len(t), NEW b \in 1 .. Len(t), t[a].proc = t[b].proc
               PROVE  a = b
    BY DEF Once
  <2>1. k + a \in 1 .. m /\ k + b \in 1 .. m /\ q[k + a].proc = q[k + b].proc
    BY <1>2
  <2>2. k + a = k + b
    BY <1>1, <2>1 DEF Once
  <2> QED
    BY <2>2
<1>5. ASSUME NEW j \in 1 .. Len(t), NEW b \in 1 .. k, t[j].proc = q[b].proc PROVE FALSE
  <2>1. k + j \in 1 .. m /\ q[k + j].proc = q[b].proc
    BY <1>2, <1>5
  <2>3. b \in 1 .. m
    BY <1>2
  <2>2. k + j = b
    BY <1>1, <2>1, <2>3 DEF Once
  <2> QED
    BY <2>2
<1> QED
  BY <1>3, <1>4, <1>5

\* The head of a wait list is handed the semaphore for writing.
LEMMA HandWriterGood ==
    ASSUME NEW s \in SemType, NEW R \in SUBSET Procs, NEW W \in SUBSET Procs,
           s.queue # <<>>, s.queue[1].mode = "write", Wanted(s.queue, R, W), Once(s.queue)
    PROVE  /\ HandWriter(s) \in SemType /\ GoodSem(HandWriter(s), R, W)
           /\ HandWriter(s).readers = {}
<1>1. PICK q \in Seq(WaiterType) : q = s.queue
  BY DEF SemType
<1>2. PICK m \in Nat : m = Len(q)
  BY <1>1
<1>3. PICK t \in Seq(WaiterType) : t = Tail(q)
  BY <1>1, HeadTailProperties
<1>4. m > 0 /\ Head(q) = q[1] /\ Len(t) = m - 1 /\ \A j \in 1 .. Len(t) : t[j] = q[1 + j]
  BY <1>1, <1>2, <1>3
<1>5. q[1] \in WaiterType
  BY <1>2, <1>4, ElementOfSeq
<1>6. PICK p \in Procs : p = q[1].proc
  BY <1>5 DEF WaiterType
<1>7. p \in W
  BY <1>1, <1>2, <1>4, <1>6 DEF Wanted
<1>8. p # "nobody"
  BY <1>6, NamesAssumption DEF Procs
<1>9. /\ Wanted(t, R, W) /\ Once(t)
      /\ \A j \in 1 .. Len(t), b \in 1 .. 1 : t[j].proc # q[b].proc
  <2>1. PICK k \in Nat : k = 1
    OBVIOUS
  <2>2. k <= Len(q) /\ Len(t) = Len(q) - k
    BY <1>2, <1>4, <2>1
  <2>3. Wanted(q, R, W) /\ Once(q)
    BY <1>1
  <2>4. IsRest(t, q, k)
    BY <1>4, <2>1, <2>2 DEF IsRest
  <2>5. /\ Wanted(t, R, W) /\ Once(t)
        /\ \A j \in 1 .. Len(t), b \in 1 .. k : t[j].proc # q[b].proc
    BY <2>3, <2>4, RestGood
  <2> QED
    BY <2>1, <2>5
<1>10. Waiting(t, {}, p)
  BY <1>6, <1>9 DEF Waiting
<1>11. PICK h : h = HandWriter(s)
  OBVIOUS
<1>12. h = [readers |-> {}, writer |-> p, queue |-> t]
  BY <1>1, <1>3, <1>4, <1>6, <1>11 DEF HandWriter
<1>13. h \in SemType
  BY <1>12 DEF SemType
<1>14. h.readers = {} /\ h.writer = p /\ h.queue = t
  BY <1>12
<1>15. GoodSem(h, R, W)
  BY <1>7, <1>8, <1>9, <1>10, <1>14 DEF GoodSem
<1> QED
  BY <1>11, <1>13, <1>14, <1>15

\* A process that wanted nothing of the semaphore has to wait for it.
MustWait(s, p, m, R, W, R2, W2) ==
    /\ s \in SemType /\ GoodSem(s, R, W)
    /\ p \in Procs /\ p \notin R \cup W /\ m \in {"read", "write"}
    /\ R \subseteq R2 /\ W \subseteq W2
    /\ m = "read" => p \in R2
    /\ m = "write" => p \in W2
    /\ s.queue = <<>> => s.writer # "nobody" \/ (s.readers # {} /\ m = "write")

\* It joins the wait list.
LEMMA WaitsGood ==
    ASSUME NEW s, NEW p, NEW m, NEW R, NEW W, NEW R2, NEW W2, MustWait(s, p, m, R, W, R2, W2)
    PROVE  /\ Waits(s, p, m) \in SemType /\ GoodSem(Waits(s, p, m), R2, W2)
           /\ Waits(s, p, m).readers = s.readers /\ Waits(s, p, m).writer = s.writer
<1> USE DEF MustWait
<1>1. PICK q \in Seq(WaiterType) : q = s.queue
  BY DEF SemType
<1>2. PICK l \in Nat : l = Len(q)
  BY <1>1
<1>3. PICK e \in WaiterType : e = [proc |-> p, mode |-> m]
  BY DEF WaiterType
<1>4. PICK t \in Seq(WaiterType) : t = Append(q, e)
  BY <1>1, <1>3, AppendProperties
<1>5. Len(t) = l + 1 /\ t[l + 1] = e /\ \A j \in 1 .. l : t[j] = q[j]
  BY <1>2, <1>3, <1>4
<1>6. e.proc = p /\ e.mode = m
  BY <1>3
<1>7. \A j \in 1 .. l : q[j].proc \in R \cup W
  BY <1>1, <1>2 DEF GoodSem, Wanted
<1>8. Wanted(t, R2, W2)
  <2> SUFFICES ASSUME NEW j \in 1 .. l + 1
               PROVE  t[j].proc \in (IF t[j].mode = "read" THEN R2 ELSE W2)
    BY <1>5 DEF Wanted
  <2>1. CASE j \in 1 .. l
    <3>1. q[j].proc \in (IF q[j].mode = "read" THEN R ELSE W)
      BY <1>1, <1>2, <2>1 DEF GoodSem, Wanted
    <3> QED
      BY <1>5, <2>1, <3>1
  <2>2. CASE j = l + 1
    BY <1>5, <1>6, <2>2
  <2> QED
    BY <2>1, <2>2
<1>9. Waiting(t, s.readers, s.writer)
  <2> SUFFICES ASSUME NEW j \in 1 .. l + 1 PROVE t[j].proc \notin s.readers \cup {s.writer}
    BY <1>5 DEF Waiting
  <2>1. CASE j \in 1 .. l
    BY <1>1, <1>2, <1>5, <2>1 DEF GoodSem, Waiting
  <2>2. CASE j = l + 1
    <3>1. p # s.writer /\ p \notin s.readers
      BY NamesAssumption DEF GoodSem, Procs
    <3> QED
      BY <1>5, <1>6, <2>2, <3>1
  <2> QED
    BY <2>1, <2>2
<1>10. Once(t)
  <2>1. \A j, k \in 1 .. l : t[j].proc = t[k].proc => j = k
    BY <1>1, <1>2, <1>5 DEF GoodSem, Once
  <2>2. \A j \in 1 .. l : t[j].proc # p
    BY <1>5, <1>7
  <2>3. t[l + 1].proc = p
    BY <1>5, <1>6
  <2>4. \A j, k \in 1 .. l + 1 : t[j].proc = t[k].proc => j = k
    BY <2>1, <2>2, <2>3
  <2> QED
    BY <1>5, <2>4 DEF Once
<1>11. s.readers # {} \/ s.writer # "nobody"
  BY DEF GoodSem
<1>12. s.readers # {} => t[1].mode = "write"
  <2>1. CASE q = <<>>
    <3>1. l = 0
      BY <1>2, <2>1
    <3> QED
      BY <1>1, <1>5, <1>6, <2>1, <3>1 DEF GoodSem
  <2>2. CASE q # <<>>
    <3>1. l > 0
      BY <1>1, <1>2, <2>2
    <3>2. t[1] = q[1]
      BY <1>5, <3>1
    <3> QED
      BY <1>1, <2>2, <3>2 DEF GoodSem
  <2> QED
    BY <2>1, <2>2
<1>13. PICK h : h = Waits(s, p, m)
  OBVIOUS
<1>14. h = [readers |-> s.readers, writer |-> s.writer, queue |-> t]
  <2>1. s = [readers |-> s.readers, writer |-> s.writer, queue |-> q]
    BY <1>1 DEF SemType
  <2>2. h = [s EXCEPT !.queue = t]
    BY <1>1, <1>3, <1>4, <1>13 DEF Waits
  <2> QED
    BY <2>1, <2>2
<1>15. h \in SemType
  BY <1>14 DEF SemType
<1>16. h.readers = s.readers /\ h.writer = s.writer /\ h.queue = t
  BY <1>14
<1>17. s.readers \subseteq R2 /\ s.writer \in W2 \cup {"nobody"} /\ (s.readers = {} \/ s.writer = "nobody")
  BY DEF GoodSem
<1>18. GoodSem(h, R2, W2)
  BY <1>8, <1>9, <1>10, <1>11, <1>12, <1>16, <1>17 DEF GoodSem
<1> QED
  BY <1>13, <1>15, <1>16, <1>18

\* Who else may read or write makes no difference to a semaphore in order.
LEMMA GoodSemGrows ==
    ASSUME NEW s \in SemType, NEW R, NEW W, GoodSem(s, R, W), NEW R2, NEW W2,
           R \subseteq R2, W \subseteq W2
    PROVE  GoodSem(s, R2, W2)
<1>1. Wanted(s.queue, R2, W2)
  BY DEF GoodSem, Wanted
<1> QED
  BY <1>1 DEF GoodSem

\* __down_read keeps the semaphore in order and takes it from nobody.
LEMMA DownReadGood ==
    ASSUME NEW s \in SemType, NEW R \in SUBSET Procs, NEW W \in SUBSET Procs, GoodSem(s, R, W),
           NEW p \in Procs, p \notin R \cup W
    PROVE  /\ DownRead(s, p) \in SemType /\ GoodSem(DownRead(s, p), R \cup {p}, W)
           /\ s.readers \subseteq DownRead(s, p).readers /\ DownRead(s, p).writer = s.writer
<1>0. PICK R2 \in SUBSET Procs : R2 = R \cup {p}
  OBVIOUS
<1>1. CASE s.writer = "nobody" /\ s.queue = <<>>
  <2>1. DownRead(s, p) = [readers |-> s.readers \cup {p}, writer |-> "nobody", queue |-> <<>>]
    BY <1>1 DEF DownRead, SemType
  <2>2. DownRead(s, p) \in SemType
    BY <2>1 DEF SemType
  <2>3. PICK h \in SemType : h = DownRead(s, p)
    BY <2>2
  <2>4. h.readers = s.readers \cup {p} /\ h.writer = "nobody" /\ h.queue = <<>>
    BY <2>1, <2>3
  <2>5. GoodSem(h, R2, W)
    BY <1>0, <2>4 DEF GoodSem, Wanted, Waiting, Once
  <2> QED
    BY <1>0, <1>1, <2>3, <2>4, <2>5
<1>2. CASE ~(s.writer = "nobody" /\ s.queue = <<>>)
  <2>1. DownRead(s, p) = Waits(s, p, "read")
    BY <1>2 DEF DownRead
  <2>2. PICK m \in {"read", "write"} : m = "read"
    OBVIOUS
  <2>3. (m = "read" => p \in R2) /\ (m = "write" => p \in W) /\ R \subseteq R2 /\ W \subseteq W
    BY <1>0, <2>2
  <2>4. s.queue = <<>> => s.writer # "nobody" \/ (s.readers # {} /\ m = "write")
    BY <1>2
  <2>6. MustWait(s, p, m, R, W, R2, W)
    BY <2>3, <2>4 DEF MustWait
  <2>5. /\ Waits(s, p, m) \in SemType /\ GoodSem(Waits(s, p, m), R2, W)
        /\ Waits(s, p, m).readers = s.readers /\ Waits(s, p, m).writer = s.writer
    BY <2>6, WaitsGood
  <2> QED
    BY <1>0, <2>1, <2>2, <2>5
<1> QED
  BY <1>1, <1>2

\* __down_write keeps the semaphore in order and takes it from nobody.
LEMMA DownWriteGood ==
    ASSUME NEW s \in SemType, NEW R \in SUBSET Procs, NEW W \in SUBSET Procs, GoodSem(s, R, W),
           NEW p \in Procs, p \notin R \cup W
    PROVE  /\ DownWrite(s, p) \in SemType /\ GoodSem(DownWrite(s, p), R, W \cup {p})
           /\ s.readers \subseteq DownWrite(s, p).readers
           /\ s.writer # "nobody" => DownWrite(s, p).writer = s.writer
<1>0. PICK W2 \in SUBSET Procs : W2 = W \cup {p}
  OBVIOUS
<1>1. CASE s.writer = "nobody" /\ s.readers = {} /\ s.queue = <<>>
  <2>1. DownWrite(s, p) = [readers |-> {}, writer |-> p, queue |-> <<>>]
    BY <1>1 DEF DownWrite, SemType
  <2>2. DownWrite(s, p) \in SemType
    BY <2>1 DEF SemType
  <2>3. PICK h \in SemType : h = DownWrite(s, p)
    BY <2>2
  <2>4. h.readers = {} /\ h.writer = p /\ h.queue = <<>>
    BY <2>1, <2>3
  <2>5. GoodSem(h, R, W2)
    BY <1>0, <2>4 DEF GoodSem, Wanted, Waiting, Once
  <2> QED
    BY <1>0, <1>1, <2>3, <2>4, <2>5
<1>2. CASE ~(s.writer = "nobody" /\ s.readers = {} /\ s.queue = <<>>)
  <2>1. DownWrite(s, p) = Waits(s, p, "write")
    BY <1>2 DEF DownWrite
  <2>2. PICK m \in {"read", "write"} : m = "write"
    OBVIOUS
  <2>3. (m = "read" => p \in R) /\ (m = "write" => p \in W2) /\ R \subseteq R /\ W \subseteq W2
    BY <1>0, <2>2
  <2>4. s.queue = <<>> => s.writer # "nobody" \/ (s.readers # {} /\ m = "write")
    BY <1>2, <2>2
  <2>6. MustWait(s, p, m, R, W, R, W2)
    BY <2>3, <2>4 DEF MustWait
  <2>5. /\ Waits(s, p, m) \in SemType /\ GoodSem(Waits(s, p, m), R, W2)
        /\ Waits(s, p, m).readers = s.readers /\ Waits(s, p, m).writer = s.writer
    BY <2>6, WaitsGood
  <2> QED
    BY <1>0, <2>1, <2>2, <2>5
<1> QED
  BY <1>1, <1>2

\* A process without the semaphore that does not wait for it may lose interest.
LEMMA WantedWithout ==
    ASSUME NEW q, NEW R, NEW W, Wanted(q, R, W), NEW p,
           \A j \in 1 .. Len(q) : q[j].proc # p
    PROVE  Wanted(q, R \ {p}, W) /\ Wanted(q, R, W \ {p})
  BY DEF Wanted

\* __up_read keeps the semaphore in order and takes it from nobody else.
LEMMA UpReadGood ==
    ASSUME NEW s \in SemType, NEW R \in SUBSET Procs, NEW W \in SUBSET Procs, GoodSem(s, R, W),
           NEW p \in s.readers
    PROVE  /\ UpRead(s, p) \in SemType /\ GoodSem(UpRead(s, p), R \ {p}, W)
           /\ s.readers \ {p} \subseteq UpRead(s, p).readers
           /\ s.writer = "nobody"
<1>0. PICK R2 \in SUBSET Procs : R2 = R \ {p}
  OBVIOUS
<1>1. s.writer = "nobody" /\ s.readers # {} /\ Once(s.queue)
  BY DEF GoodSem
<1>2. \A j \in 1 .. Len(s.queue) : s.queue[j].proc # p
  BY DEF GoodSem, Waiting
<1>3. Wanted(s.queue, R2, W)
  BY <1>0, <1>2, WantedWithout DEF GoodSem
<1>4. CASE s.readers \ {p} = {} /\ s.queue # <<>>
  <2>1. UpRead(s, p) = HandWriter(s)
    BY <1>4 DEF UpRead
  <2>2. s.queue[1].mode = "write"
    BY <1>1, <1>4 DEF GoodSem
  <2>3. /\ HandWriter(s) \in SemType /\ GoodSem(HandWriter(s), R2, W)
        /\ HandWriter(s).readers = {}
    BY <1>1, <1>3, <1>4, <2>2, HandWriterGood
  <2> QED
    BY <1>0, <1>1, <1>4, <2>1, <2>3
<1>5. CASE ~(s.readers \ {p} = {} /\ s.queue # <<>>)
  <2>1. UpRead(s, p) = [readers |-> s.readers \ {p}, writer |-> "nobody", queue |-> s.queue]
    BY <1>1, <1>5 DEF UpRead, SemType
  <2>2. UpRead(s, p) \in SemType
    BY <2>1 DEF SemType
  <2>3. PICK h \in SemType : h = UpRead(s, p)
    BY <2>2
  <2>4. h.readers = s.readers \ {p} /\ h.writer = "nobody" /\ h.queue = s.queue
    BY <2>1, <2>3
  <2>5. Waiting(s.queue, s.readers \ {p}, "nobody")
    BY <1>1 DEF GoodSem, Waiting
  <2>6. s.queue # <<>> => s.readers \ {p} # {} /\ s.queue[1].mode = "write"
    BY <1>1, <1>5 DEF GoodSem
  <2>7. s.readers \ {p} \subseteq R2
    BY <1>0 DEF GoodSem
  <2>8. GoodSem(h, R2, W)
    BY <1>1, <1>3, <2>4, <2>5, <2>6, <2>7 DEF GoodSem
  <2> QED
    BY <1>0, <1>1, <2>3, <2>4, <2>8
<1> QED
  BY <1>4, <1>5

\* __up_write keeps the semaphore in order.
LEMMA UpWriteGood ==
    ASSUME NEW s \in SemType, NEW R \in SUBSET Procs, NEW W \in SUBSET Procs, GoodSem(s, R, W),
           NEW p \in Procs, s.writer = p
    PROVE  UpWrite(s) \in SemType /\ GoodSem(UpWrite(s), R, W \ {p})
<1>1. PICK q \in Seq(WaiterType) : q = s.queue
  BY DEF SemType
<1>2. PICK m \in Nat : m = Len(q)
  BY <1>1
<1>3. PICK k \in 0 .. m : k = LeadingReaders(q)
  BY <1>1, <1>2, Leading
<1>4. /\ \A j \in 1 .. k : q[j].mode = "read"
      /\ k < m => q[k + 1].mode = "write"
  BY <1>1, <1>2, <1>3, Leading
<1>5. PICK W2 \in SUBSET Procs : W2 = W \ {p}
  OBVIOUS
<1>6. Once(q) /\ Wanted(q, R, W2)
  <2>1. \A j \in 1 .. Len(q) : q[j].proc # p
    BY <1>1 DEF GoodSem, Waiting
  <2> QED
    BY <1>1, <1>5, <2>1, WantedWithout DEF GoodSem
<1>7. CASE k = 0 /\ q # <<>>
  <2>1. UpWrite(s) = HandWriter(s)
    BY <1>1, <1>3, <1>7 DEF UpWrite
  <2>2. m > 0
    BY <1>1, <1>2, <1>7
  <2>3. q[1].mode = "write"
    BY <1>4, <1>7, <2>2
  <2>4. HandWriter(s) \in SemType /\ GoodSem(HandWriter(s), R, W2)
    BY <1>1, <1>6, <1>7, <2>3, HandWriterGood
  <2> QED
    BY <1>5, <2>1, <2>4
<1>8. CASE ~(k = 0 /\ q # <<>>)
  <2>1. PICK front : front = {q[j].proc : j \in 1 .. k}
    OBVIOUS
  <2>2. PICK t \in Seq(WaiterType) : t = SubSeq(q, k + 1, m)
    <3>1. \A j \in k + 1 .. m : q[j] \in WaiterType
      <4> SUFFICES ASSUME NEW j \in k + 1 .. m PROVE q[j] \in WaiterType
        OBVIOUS
      <4>1. j \in 1 .. Len(q)
        BY <1>2
      <4> QED
        BY <4>1, ElementOfSeq
    <3>2. k + 1 \in Int /\ m \in Int
      OBVIOUS
    <3>3. SubSeq(q, k + 1, m) \in Seq(WaiterType)
      BY <3>1, <3>2, SubSeqProperties
    <3> QED
      BY <3>3
  <2>3. Len(t) = m - k /\ \A j \in 1 .. m - k : t[j] = q[k + j]
    BY <1>2, <2>2
  <2>4. /\ Wanted(t, R, W2) /\ Once(t)
        /\ \A j \in 1 .. Len(t), b \in 1 .. k : t[j].proc # q[b].proc
    <3>1. k \in Nat /\ k <= Len(q) /\ Len(t) = Len(q) - k
      BY <1>2, <2>3
    <3>2. IsRest(t, q, k)
      BY <2>3, <3>1 DEF IsRest
    <3> QED
      BY <1>6, <3>1, <3>2, RestGood
  <2>5. front \subseteq R
    <3> SUFFICES ASSUME NEW j \in 1 .. k PROVE q[j].proc \in R
      BY <2>1
    <3>1. j \in 1 .. Len(q) /\ q[j].mode = "read"
      BY <1>2, <1>4
    <3> QED
      BY <1>6, <3>1 DEF Wanted
  <2>6. Waiting(t, front, "nobody")
    <3> SUFFICES ASSUME NEW j \in 1 .. Len(t) PROVE t[j].proc \notin front \cup {"nobody"}
      BY DEF Waiting
    <3>1. t[j] \in WaiterType
      BY ElementOfSeq
    <3>2. t[j].proc # "nobody"
      BY <3>1, NamesAssumption DEF WaiterType, Procs
    <3> QED
      BY <2>1, <2>4, <3>2
  <2>7. t # <<>> => front # {} /\ t[1].mode = "write"
    <3> SUFFICES ASSUME t # <<>> PROVE front # {} /\ t[1].mode = "write"
      OBVIOUS
    <3>1. Len(t) > 0
      OBVIOUS
    <3>2. k < m
      BY <2>3, <3>1
    <3>3. t[1].mode = "write"
      BY <1>4, <2>3, <3>2
    <3>4. k # 0
      BY <1>2, <1>8, <3>2
    <3>5. q[1].proc \in front
      BY <2>1, <3>4
    <3> QED
      BY <3>3, <3>5
  <2>8. UpWrite(s) = [readers |-> front, writer |-> "nobody", queue |-> t]
    BY <1>1, <1>2, <1>3, <1>8, <2>1, <2>2 DEF UpWrite
  <2>9. PICK h : h = UpWrite(s)
    OBVIOUS
  <2>10. h.readers = front /\ h.writer = "nobody" /\ h.queue = t
    BY <2>8, <2>9
  <2>11. h \in SemType
    BY <2>5, <2>8, <2>9 DEF SemType
  <2>12. GoodSem(h, R, W2)
    BY <2>4, <2>5, <2>6, <2>7, <2>10 DEF GoodSem
  <2> QED
    BY <1>5, <2>9, <2>11, <2>12
<1> QED
  BY <1>7, <1>8

-----------------------------------------------------------------------------
(* The steps of the thread and of the sysfs writers keep it in order.      *)

\* What the thread relies on in the middle of a command.
Working ==
    /\ pc = "exec" => curlun \in Luns /\ using = curlun /\ cmnd.op \in {"READ", "WRITE", "ALLOW"}
    /\ pc = "exec" /\ cmnd.op # "ALLOW" => backing_file_is_open(curlun) /\ ua[curlun] = "NO_SENSE"
    /\ pc = "eject" => curlun \in Luns /\ curlun \notin prevent
    /\ using # NULL => pc \in {"exec", "sync"}
    /\ pc = "sync" /\ using # NULL => i < NLuns

\* The host will learn, has learnt or cannot learn that LUN l has changed.
Noticed(l) ==
    \/ ua[l] # "NO_SENSE"
    \/ l \in wiped
    \/ pc = "status" /\ curlun = l /\ ~phase_error /\ sense[l] \in Notices

\* So it is with write protection as with the medium itself.
ProtectionPending ==
    \A l \in Luns :
        backing_file_is_open(l) /\ wp[l] # Unknown /\ ~(wp[l] = "ro" <=> l \in ro) => Noticed(l)

Safe == Working /\ ChangePending /\ ProtectionPending
IInv == TypeOK /\ Semaphore /\ Safe

-----------------------------------------------------------------------------
USE DEF state, flow, host, excs, NULL, Empty, NoStore, backing_file_is_open

\* The two sets are sets of processes, the thread is none of the writers, and
\* who writes excludes everybody else.
LEMMA SemFacts ==
    ASSUME IInv
    PROVE  /\ filesem \in SemType /\ GoodSem(filesem, MayRead, MayWrite)
           /\ MayRead \in SUBSET Procs /\ MayWrite \in SUBSET Procs
           /\ "thread" \in Procs /\ "thread" \notin Writers /\ "nobody" \notin Procs
           /\ \A w \in Writers : w \in Procs
<1>1. filesem \in SemType /\ GoodSem(filesem, MayRead, MayWrite)
  BY DEF IInv, TypeOK, Semaphore
<1>2. MayRead \in SUBSET Procs /\ MayWrite \in SUBSET Procs
  BY DEF MayRead, MayWrite
<1>3. "thread" \in Procs /\ "thread" \notin Writers /\ "nobody" \notin Procs
  BY NamesAssumption DEF Procs
<1> QED
  BY <1>1, <1>2, <1>3 DEF Procs

\* While readers hold the semaphore, or the thread writes, no store_file is past
\* its down_write; one writer excludes the other and the thread.
LEMMA Exclusive ==
    ASSUME IInv
    PROVE  /\ filesem.writer \in {"nobody", "thread"} =>
                 \A w \in Writers : store[w].at \notin {"open", "load"}
           /\ filesem.readers # {} => filesem.writer = "nobody"
           /\ \A w \in Writers : store[w].at \in {"open", "load"} => filesem.writer = w
           /\ \A w \in Writers : filesem.writer = w => pc \notin {"exec", "oops"}
<1>1. \A w \in Writers : store[w].at \in {"open", "load"} => filesem.writer = w
  BY DEF IInv, Semaphore, Critical
<1>2. filesem.readers # {} => filesem.writer = "nobody"
  BY DEF IInv, Semaphore, GoodSem
<1>3. \A w \in Writers : w # "nobody" /\ w # "thread"
  BY NamesAssumption
<1>4. pc \in {"exec", "oops"} => filesem.readers # {}
  BY DEF IInv, Semaphore, Critical
<1> QED
  BY <1>1, <1>2, <1>3, <1>4

\* The semaphore at the beginning of a command.
LEMMA HeldGood ==
    ASSUME IInv, NEW c, Begins(c)
    PROVE  /\ Held \in SemType /\ GoodSem(Held, MayRead \cup {"thread"}, MayWrite)
           /\ "thread" \in Held.readers /\ "thread" \notin MayWrite
           /\ filesem.writer = "nobody"
<1>1. "thread" \notin MayWrite
  BY SemFacts DEF Begins, Arrives, MayWrite
<1>2. Held = [readers |-> filesem.readers \cup {"thread"}, writer |-> filesem.writer,
              queue |-> filesem.queue]
  <2>1. filesem = [readers |-> filesem.readers, writer |-> filesem.writer, queue |-> filesem.queue]
    BY SemFacts DEF SemType
  <2> QED
    BY <2>1 DEF Held
<1>3. CASE Arrives /\ Free
  <2>1. "thread" \notin MayRead
    BY <1>3, SemFacts DEF Arrives, MayRead
  <2>2. DownRead(filesem, "thread") = Held /\ filesem.writer = "nobody"
    BY <1>3 DEF DownRead, Held, Free
  <2>3. /\ DownRead(filesem, "thread") \in SemType
        /\ GoodSem(DownRead(filesem, "thread"), MayRead \cup {"thread"}, MayWrite)
    BY <1>1, <2>1, SemFacts, DownReadGood
  <2>4. "thread" \in Held.readers
    BY <1>2
  <2> QED
    BY <1>1, <2>2, <2>3, <2>4
<1>4. CASE pc = "wait" /\ "thread" \in filesem.readers
  <2>1. MayRead \cup {"thread"} = MayRead
    BY <1>4, SemFacts DEF GoodSem
  <2>2. filesem.readers \cup {"thread"} = filesem.readers
    BY <1>4
  <2>3. filesem = [readers |-> filesem.readers, writer |-> filesem.writer, queue |-> filesem.queue]
    BY SemFacts DEF SemType
  <2>4. Held = filesem
    BY <1>2, <2>2, <2>3
  <2>5. filesem.writer = "nobody"
    BY <1>4, Exclusive
  <2> QED
    BY <1>1, <1>4, <2>1, <2>4, <2>5, SemFacts
<1> QED
  BY <1>3, <1>4 DEF Begins

\* A command that ends at once gives the semaphore back.
LEMMA ShortCommand ==
    ASSUME IInv, NEW c, Begins(c), filesem' = UpRead(Held, "thread"), pc' = "status"
    PROVE  filesem' \in SemType /\ Semaphore'
<1>1. PICK R \in SUBSET Procs : R = MayRead \cup {"thread"}
  BY SemFacts
<1>2. /\ Held \in SemType /\ GoodSem(Held, R, MayWrite) /\ MayWrite \in SUBSET Procs
      /\ "thread" \in Held.readers
  BY <1>1, HeldGood, SemFacts
<1>3. filesem' \in SemType /\ GoodSem(filesem', R \ {"thread"}, MayWrite)
  BY <1>2, UpReadGood
<1>4. store' = store
  BY DEF Begins
<1>5. MayRead' = R \ {"thread"} /\ MayWrite' = MayWrite
  BY <1>1, <1>4, SemFacts, HeldGood DEF MayRead, MayWrite, Begins, Arrives
<1>6. Critical'
  BY <1>4, HeldGood, Exclusive DEF Critical
<1> QED
  BY <1>3, <1>5, <1>6 DEF Semaphore

\* A command that sleeps, or dies, keeps it.
LEMMA LongCommand ==
    ASSUME IInv, NEW c, Begins(c), filesem' = Held, pc' \in {"exec", "oops"}
    PROVE  filesem' \in SemType /\ Semaphore'
<1>1. store' = store
  BY DEF Begins
<1>2. MayRead' = MayRead \cup {"thread"} /\ MayWrite' = MayWrite
  BY <1>1, SemFacts, HeldGood DEF MayRead, MayWrite, Begins, Arrives
<1>3. Critical'
  BY <1>1, HeldGood, Exclusive DEF Critical
<1>4. Held \in SemType /\ GoodSem(Held, MayRead \cup {"thread"}, MayWrite)
  BY HeldGood
<1> QED
  BY <1>2, <1>3, <1>4 DEF Semaphore

\* An eject gives it back and wants it for writing.
LEMMA EjectCommand ==
    ASSUME IInv, NEW c, Begins(c), pc' = "eject",
           filesem' = DownWrite(UpRead(Held, "thread"), "thread")
    PROVE  filesem' \in SemType /\ Semaphore'
<1>1. PICK R \in SUBSET Procs : R = MayRead \cup {"thread"}
  BY SemFacts
<1>2. /\ Held \in SemType /\ GoodSem(Held, R, MayWrite) /\ MayWrite \in SUBSET Procs
      /\ "thread" \in Held.readers
  BY <1>1, HeldGood, SemFacts
<1>3. PICK R2 \in SUBSET Procs : R2 = R \ {"thread"}
  OBVIOUS
<1>4. PICK h : h = UpRead(Held, "thread")
  OBVIOUS
<1>5. h \in SemType /\ GoodSem(h, R2, MayWrite)
  BY <1>2, <1>3, <1>4, UpReadGood
<1>6. "thread" \in Procs /\ "thread" \notin R2 \cup MayWrite
  BY <1>3, SemFacts, HeldGood
<1>7. filesem' \in SemType /\ GoodSem(filesem', R2, MayWrite \cup {"thread"})
  BY <1>2, <1>4, <1>5, <1>6, DownWriteGood
<1>8. store' = store
  BY DEF Begins
<1>9. MayRead' = R2 /\ MayWrite' = MayWrite \cup {"thread"}
  BY <1>1, <1>3, <1>8, SemFacts DEF MayRead, MayWrite, Begins, Arrives
<1>10. Critical'
  BY <1>8, HeldGood, Exclusive DEF Critical
<1> QED
  BY <1>7, <1>9, <1>10 DEF Semaphore

\* Only the place of the thread changes, and the semaphore is not its concern.
LEMMA Elsewhere ==
    ASSUME IInv, UNCHANGED <<filesem, store>>,
           \/ pc' = pc
           \/ {pc, pc'} \subseteq {"idle", "status", "handle", "setif", "sync"}
    PROVE  filesem' \in SemType /\ Semaphore'
<1>1. MayRead' = MayRead /\ MayWrite' = MayWrite
  BY DEF MayRead, MayWrite
<1>2. Critical'
  BY DEF IInv, Semaphore, Critical
<1> QED
  BY <1>1, <1>2, SemFacts DEF Semaphore

\* Every step keeps the semaphore in order.
LEMMA SemStep == IInv /\ [Next]_vars => filesem' \in SemType /\ Semaphore'
<1> SUFFICES ASSUME IInv, [Next]_vars PROVE filesem' \in SemType /\ Semaphore'
  OBVIOUS
<1>1. ASSUME NEW c \in Commands, CommandWaits(c) PROVE filesem' \in SemType /\ Semaphore'
  <2>1. "thread" \notin MayRead \cup MayWrite
    BY <1>1, SemFacts DEF CommandWaits, Arrives, MayRead, MayWrite
  <2>2. /\ filesem' \in SemType /\ GoodSem(filesem', MayRead \cup {"thread"}, MayWrite)
        /\ filesem'.writer = filesem.writer
    BY <1>1, <2>1, SemFacts, DownReadGood DEF CommandWaits
  <2>3. MayRead' = MayRead \cup {"thread"} /\ MayWrite' = MayWrite
    BY <1>1, SemFacts DEF CommandWaits, Arrives, MayRead, MayWrite
  <2>4. Critical'
    BY <1>1, <2>2, Exclusive DEF CommandWaits, Critical
  <2> QED
    BY <2>2, <2>3, <2>4 DEF Semaphore
<1>2. ASSUME NEW c \in Commands, CommandOops(c) PROVE filesem' \in SemType /\ Semaphore'
  BY <1>2, LongCommand DEF CommandOops
<1>3. ASSUME NEW c \in Commands, CommandRefused(c) PROVE filesem' \in SemType /\ Semaphore'
  BY <1>3, ShortCommand DEF CommandRefused
<1>4. ASSUME NEW c \in Commands, CommandAtOnce(c) PROVE filesem' \in SemType /\ Semaphore'
  BY <1>4, ShortCommand DEF CommandAtOnce, Accepted
<1>5. ASSUME NEW c \in Commands, CommandSleeps(c) PROVE filesem' \in SemType /\ Semaphore'
  BY <1>5, LongCommand, EjectCommand DEF CommandSleeps, Accepted
<1>6. ASSUME CommandEnds \/ EjectEnds PROVE filesem' \in SemType /\ Semaphore'
  <2>1. /\ filesem' = UpRead(filesem, "thread") /\ "thread" \in filesem.readers
        /\ pc' = "status" /\ pc \in {"exec", "reread"} /\ store' = store
    BY <1>6 DEF CommandEnds, EjectEnds, IInv, Semaphore, Critical
  <2>2. filesem' \in SemType /\ GoodSem(filesem', MayRead \ {"thread"}, MayWrite)
    BY <2>1, SemFacts, UpReadGood
  <2>3. MayRead' = MayRead \ {"thread"} /\ MayWrite' = MayWrite
    BY <2>1, SemFacts DEF MayRead, MayWrite
  <2>4. Critical'
    BY <2>1, Exclusive DEF Critical
  <2> QED
    BY <2>2, <2>3, <2>4 DEF Semaphore
<1>7. ASSUME EjectCloses PROVE filesem' \in SemType /\ Semaphore'
  <2>1. /\ filesem' = DownRead(UpWrite(filesem), "thread") /\ filesem.writer = "thread"
        /\ pc' = "reread" /\ pc = "eject" /\ store' = store
    BY <1>7 DEF EjectCloses
  <2>2. PICK h : h = UpWrite(filesem)
    OBVIOUS
  <2>3. PICK W \in SUBSET Procs : W = MayWrite \ {"thread"}
    BY SemFacts
  <2>4. h \in SemType /\ GoodSem(h, MayRead, W)
    BY <2>1, <2>2, <2>3, SemFacts, UpWriteGood
  <2>5. "thread" \notin MayRead \cup W
    BY <2>1, <2>3, SemFacts DEF MayRead
  <2>6. filesem' \in SemType /\ GoodSem(filesem', MayRead \cup {"thread"}, W)
    BY <2>1, <2>2, <2>4, <2>5, SemFacts, DownReadGood
  <2>7. MayRead' = MayRead \cup {"thread"} /\ MayWrite' = W
    BY <2>1, <2>3, SemFacts DEF MayRead, MayWrite
  <2>8. Critical'
    BY <2>1, Exclusive DEF Critical
  <2> QED
    BY <2>6, <2>7, <2>8 DEF Semaphore
<1>8. ASSUME NEW w \in Writers, StoreRoEnds(w) PROVE filesem' \in SemType /\ Semaphore'
  <2>1. /\ filesem' = UpRead(filesem, w) /\ w \in filesem.readers /\ pc' = pc
        /\ store' = [store EXCEPT ![w] = NoStore] /\ w # "thread"
    BY <1>8, SemFacts DEF StoreRoEnds
  <2>2. /\ filesem' \in SemType /\ GoodSem(filesem', MayRead \ {w}, MayWrite)
        /\ filesem.readers \ {w} \subseteq filesem'.readers
    BY <2>1, SemFacts, UpReadGood
  <2>3. store'[w].at = "none" /\ \A v \in Writers \ {w} : store'[v] = store[v]
    BY <2>1 DEF IInv, TypeOK
  <2>4. w \notin MayWrite
    BY <1>8, <2>1 DEF StoreRoEnds, MayWrite
  <2>5. MayRead' = MayRead \ {w} /\ MayWrite' = MayWrite
    BY <2>1, <2>3, <2>4 DEF MayRead, MayWrite
  <2>6. Critical'
    <3>1. pc \in {"exec", "oops"} => "thread" \in filesem'.readers
      BY <2>1, <2>2 DEF IInv, Semaphore, Critical
    <3>2. \A v \in Writers : store'[v].at \notin {"open", "load"}
      BY <2>1, <2>3, Exclusive
    <3> QED
      BY <2>1, <3>1, <3>2 DEF Critical
  <2> QED
    BY <2>2, <2>5, <2>6 DEF Semaphore
<1>9. ASSUME NEW w \in Writers, NEW l \in Luns, NEW v \in BOOLEAN, store_ro(w, l, v)
      PROVE  filesem' \in SemType /\ Semaphore'
  <2>1. CASE Free
    BY <1>9, <2>1, Elsewhere DEF store_ro
  <2>2. CASE ~Free
    <3>1. /\ filesem' = DownRead(filesem, w) /\ store[w] = NoStore /\ pc' = pc /\ w # "thread"
          /\ store'[w].at = "down_read" /\ \A u \in Writers \ {w} : store'[u] = store[u]
      BY <1>9, <2>2, SemFacts DEF store_ro, Writing, IInv, TypeOK
    <3>2. w \in Procs /\ w \notin MayRead \cup MayWrite
      BY <3>1, SemFacts DEF MayRead, MayWrite
    <3>3. /\ filesem' \in SemType /\ GoodSem(filesem', MayRead \cup {w}, MayWrite)
          /\ filesem.readers \subseteq filesem'.readers /\ filesem'.writer = filesem.writer
      <4>1. PICK R \in SUBSET Procs, W \in SUBSET Procs : R = MayRead /\ W = MayWrite
        BY SemFacts
      <4>2. filesem \in SemType /\ GoodSem(filesem, R, W) /\ w \in Procs /\ w \notin R \cup W
        BY <3>2, <4>1, SemFacts
      <4>3. PICK h : h = DownRead(filesem, w)
        OBVIOUS
      <4>4. /\ h \in SemType /\ GoodSem(h, R \cup {w}, W)
            /\ filesem.readers \subseteq h.readers /\ h.writer = filesem.writer
        BY <4>2, <4>3, DownReadGood
      <4> QED
        BY <3>1, <4>1, <4>3, <4>4
    <3>4. MayRead' = MayRead \cup {w} /\ MayWrite' = MayWrite
      BY <3>1, <3>2 DEF MayRead, MayWrite
    <3>5. Critical'
      BY <3>1, <3>3 DEF IInv, Semaphore, Critical
    <3> QED
      BY <3>3, <3>4, <3>5 DEF Semaphore
  <2> QED
    BY <2>1, <2>2
<1>10. ASSUME NEW w \in Writers, NEW l \in Luns, NEW f \in Files \cup {NoFile}, store_file(w, l, f)
       PROVE  filesem' \in SemType /\ Semaphore'
  <2>1. /\ filesem' = DownWrite(filesem, w) /\ store[w] = NoStore /\ pc' = pc /\ w # "thread"
        /\ store'[w].at = "down_write" /\ \A u \in Writers \ {w} : store'[u] = store[u]
    BY <1>10, SemFacts DEF store_file, Writing, IInv, TypeOK
  <2>2. w \in Procs /\ w \notin MayRead \cup MayWrite
    BY <2>1, SemFacts DEF MayRead, MayWrite
  <2>3. /\ filesem' \in SemType /\ GoodSem(filesem', MayRead, MayWrite \cup {w})
        /\ filesem.readers \subseteq filesem'.readers
        /\ filesem.writer # "nobody" => filesem'.writer = filesem.writer
    <3>1. PICK R \in SUBSET Procs, W \in SUBSET Procs : R = MayRead /\ W = MayWrite
      BY SemFacts
    <3>2. filesem \in SemType /\ GoodSem(filesem, R, W) /\ w \in Procs /\ w \notin R \cup W
      BY <2>2, <3>1, SemFacts
    <3>3. PICK h : h = DownWrite(filesem, w)
      OBVIOUS
    <3>4. /\ h \in SemType /\ GoodSem(h, R, W \cup {w})
          /\ filesem.readers \subseteq h.readers
          /\ filesem.writer # "nobody" => h.writer = filesem.writer
      BY <3>2, <3>3, DownWriteGood
    <3> QED
      BY <2>1, <3>1, <3>3, <3>4
  <2>4. MayRead' = MayRead /\ MayWrite' = MayWrite \cup {w}
    BY <2>1, <2>2 DEF MayRead, MayWrite
  <2>5. Critical'
    <3>1. pc \in {"exec", "oops"} => "thread" \in filesem'.readers
      BY <2>3 DEF IInv, Semaphore, Critical
    <3>2. ASSUME NEW u \in Writers, store'[u].at \in {"open", "load"} PROVE filesem'.writer = u
      <4>1. filesem.writer = u /\ u # "nobody"
        BY <2>1, <3>2, Exclusive, SemFacts
      <4> QED
        BY <2>3, <4>1
    <3> QED
      BY <2>1, <3>1, <3>2 DEF Critical
  <2> QED
    BY <2>3, <2>4, <2>5 DEF Semaphore
<1>11. ASSUME NEW w \in Writers, filesem.writer = w, Unlocked(w), pc' = pc
       PROVE  filesem' \in SemType /\ Semaphore'
  <2>1. /\ filesem' = UpWrite(filesem) /\ w # "thread" /\ w \in Procs
        /\ store'[w].at = "none" /\ \A u \in Writers \ {w} : store'[u] = store[u]
    BY <1>11, SemFacts DEF Unlocked, IInv, TypeOK
  <2>2. filesem' \in SemType /\ GoodSem(filesem', MayRead, MayWrite \ {w})
    BY <1>11, <2>1, SemFacts, UpWriteGood
  <2>3. w \notin MayRead
    BY <1>11, <2>1, SemFacts DEF GoodSem, MayRead, MayWrite
  <2>4. MayRead' = MayRead /\ MayWrite' = MayWrite \ {w}
    BY <1>11, <2>1, <2>3 DEF MayRead, MayWrite
  <2>5. Critical'
    <3>1. pc \notin {"exec", "oops"}
      BY <1>11, Exclusive
    <3>2. \A u \in Writers : store'[u].at \notin {"open", "load"}
      BY <1>11, <2>1, Exclusive
    <3> QED
      BY <1>11, <3>1, <3>2 DEF Critical
  <2> QED
    BY <2>2, <2>4, <2>5 DEF Semaphore
<1>12. ASSUME NEW w \in Writers, filesem.writer = w, UNCHANGED <<filesem, pc>>,
              store[w].at \in {"down_write", "open"}, store'[w].at \in {"open", "load"},
              \A u \in Writers \ {w} : store'[u] = store[u]
       PROVE  filesem' \in SemType /\ Semaphore'
  <2>1. MayRead' = MayRead /\ MayWrite' = MayWrite
    BY <1>12 DEF MayRead, MayWrite
  <2>2. Critical'
    BY <1>12 DEF Critical, IInv, Semaphore
  <2> QED
    BY <1>12, <2>1, <2>2, SemFacts DEF Semaphore
<1>13. ASSUME NEW w \in Writers, StoreEjects(w) PROVE filesem' \in SemType /\ Semaphore'
  <2>1. CASE store[w].file = NoFile
    BY <1>11, <1>13, <2>1 DEF StoreEjects
  <2>2. CASE store[w].file # NoFile
    <3>1. store' = [store EXCEPT ![w].at = "open"] /\ store \in [Writers -> StoreType]
      BY <1>13, <2>2 DEF StoreEjects, IInv, TypeOK
    <3>2. store'[w].at = "open" /\ \A u \in Writers \ {w} : store'[u] = store[u]
      BY <3>1 DEF StoreType
    <3>3. filesem.writer = w /\ UNCHANGED <<filesem, pc>> /\ store[w].at = "down_write"
      BY <1>13, <2>2 DEF StoreEjects
    <3> QED
      BY <1>12, <3>2, <3>3
  <2> QED
    BY <2>1, <2>2
<1>14. ASSUME NEW w \in Writers, StoreOpens(w) PROVE filesem' \in SemType /\ Semaphore'
  <2>1. store[w].at = "open" /\ filesem.writer = w /\ UNCHANGED <<filesem, pc>>
    BY <1>14, Exclusive DEF StoreOpens
  <2>2. store'[w].at = "load" /\ \A u \in Writers \ {w} : store'[u] = store[u]
    BY <1>14 DEF StoreOpens, IInv, TypeOK
  <2> QED
    BY <1>12, <2>1, <2>2
<1>15. ASSUME NEW w \in Writers, StoreLoads(w) PROVE filesem' \in SemType /\ Semaphore'
  BY <1>11, <1>15, Exclusive DEF StoreLoads
<1>16. ASSUME \/ SendStatus \/ HandleException \/ UNCHANGED vars
              \/ \E e \in {"RESET", "CONFIG", "DISCONNECT"} : raise_exception(e)
       PROVE  filesem' \in SemType /\ Semaphore'
  BY <1>16, Elsewhere DEF SendStatus, HandleException, HandleBegins, HandleResets, do_set_interface,
     SyncBegins, SyncEnds, raise_exception, vars
<1> QED
  BY <1>1, <1>2, <1>3, <1>4, <1>5, <1>6, <1>7, <1>8, <1>9, <1>10, <1>13, <1>14, <1>15, <1>16
     DEF Next, Executes, Handlers, StoreSteps

-----------------------------------------------------------------------------
(* The notices: every step preserves the rest of the inductive invariant.  *)

\* What a command that is carried out finds.
LEMMA AcceptedFacts ==
    ASSUME IInv, NEW c \in Commands, Accepted(c)
    PROVE  /\ c.lun \in Luns /\ c \in CommandType /\ pc \in {"idle", "wait"}
           /\ Dispatched(c) \in NeedsMedium => backing_file_is_open(c.lun) /\ ua[c.lun] = "NO_SENSE"
<1>1. c.lun \in Luns /\ c \in CommandType /\ Verdict(Dispatched(c), c) = "OK" /\ pc \in {"idle", "wait"}
  BY MediumAssumption DEF Accepted, Begins, Arrives
<1>2. ua[c.lun] \in Notices \cup {"NO_SENSE"} /\ "OK" \notin Notices \cup {"NO_SENSE"}
  BY <1>1 DEF IInv, TypeOK, Notices
<1>3. Dispatched(c) \in NeedsMedium => Dispatched(c) \notin Exempt /\ Dispatched(c) # "UNKNOWN"
  BY DEF NeedsMedium, Exempt
<1> QED
  BY <1>1, <1>2, <1>3 DEF Verdict

\* Every step preserves the notices and what the thread relies on.
LEMMA SafeStep == IInv /\ [Next]_vars => Safe'
<1> SUFFICES ASSUME IInv, [Next]_vars PROVE Safe'
  OBVIOUS
<1> USE DEF Safe, Working, ChangePending, Noticed, ProtectionPending
<1>0. Safe /\ TypeOK
  BY DEF IInv
<1>1. ASSUME NEW c \in Commands, CommandWaits(c) PROVE Safe'
  BY <1>0, <1>1 DEF CommandWaits, Arrives, TypeOK
<1>2. ASSUME NEW c \in Commands, CommandOops(c) PROVE Safe'
  BY <1>0, <1>2 DEF CommandOops, Begins, Arrives, TypeOK
<1>3. ASSUME NEW c \in Commands, CommandRefused(c) PROVE Safe'
  <2>1. PICK op, v : op = Dispatched(c) /\ v = Verdict(op, c)
    OBVIOUS
  <2>2. /\ Checked(op, c, v) /\ pc' = "status" /\ pc \in {"idle", "wait"}
        /\ UNCHANGED <<filp, ro, prevent, using, i, known, wp, wiped>>
    BY <1>3, <2>1 DEF CommandRefused, Begins, Arrives
  <2>3. Working'
    BY <1>0, <2>2
  <2>4. ASSUME NEW l \in Luns, Noticed(l) PROVE Noticed(l)'
    <3>1. CASE ua[l] = "NO_SENSE" \/ l # c.lun \/ v = "PHASE_ERROR" \/ op \in Exempt
      BY <1>0, <2>2, <2>4, <3>1 DEF Checked, TypeOK
    <3>2. CASE ua[l] # "NO_SENSE" /\ l = c.lun /\ v # "PHASE_ERROR" /\ op \notin Exempt
      <4>1. v = ua[l] /\ v \in Notices
        BY <1>0, <2>1, <3>2 DEF Verdict, TypeOK
      <4>2. v # "OK"
        BY <4>1 DEF Notices
      <4>3. sense'[l] = v /\ curlun' = l /\ ~phase_error'
        BY <1>0, <2>2, <3>2, <4>2 DEF Checked, TypeOK
      <4> QED
        BY <2>2, <4>1, <4>3
    <3> QED
      BY <3>1, <3>2
  <2>5. ChangePending' /\ ProtectionPending'
    BY <1>0, <2>2, <2>4
  <2> QED
    BY <2>3, <2>5
<1>4. ASSUME NEW c \in Commands, CommandAtOnce(c) PROVE Safe'
  <2>1. Accepted(c) /\ pc' = "status"
    BY <1>4 DEF CommandAtOnce
  <2> QED
    BY <1>0, <1>4, <2>1, AcceptedFacts DEF CommandAtOnce, Accepted, Begins, TypeOK, NeedsMedium
<1>5. ASSUME NEW c \in Commands, CommandSleeps(c) PROVE Safe'
  <2> DEFINE op == Dispatched(c)
  <2>1. /\ pc \in {"idle", "wait"} /\ curlun' = c.lun /\ c.lun \in Luns
        /\ cmnd'.op = op /\ UNCHANGED <<filp, ro, ua, prevent, known, wp, wiped>>
    BY <1>5, AcceptedFacts DEF CommandSleeps, Accepted, Begins, CommandType
  <2>2. op \in {"READ", "WRITE", "EJECT", "ALLOW"}
    BY <1>5 DEF CommandSleeps, Sleeps
  <2>3. /\ op = "EJECT" => c.lun \notin prevent
        /\ op \in {"READ", "WRITE"} => backing_file_is_open(c.lun) /\ ua[c.lun] = "NO_SENSE"
    <3>1. op = "EJECT" => c.lun \notin prevent
      BY <1>5 DEF CommandSleeps, Sleeps, Outcome
    <3>2. op \in {"READ", "WRITE"} => op \in NeedsMedium
      BY DEF NeedsMedium
    <3> QED
      BY <1>5, <3>1, <3>2, AcceptedFacts DEF CommandSleeps
  <2>4. IF op = "EJECT" THEN pc' = "eject" /\ UNCHANGED using ELSE pc' = "exec" /\ using' = c.lun
    BY <1>5 DEF CommandSleeps
  <2> HIDE DEF op
  <2>5. Working'
    BY <1>0, <2>1, <2>2, <2>3, <2>4, MediumAssumption DEF Luns
  <2>6. ChangePending' /\ ProtectionPending'
    BY <1>0, <2>1, <2>4
  <2> QED
    BY <2>5, <2>6
<1>6. CASE CommandEnds
  BY <1>0, <1>6 DEF CommandEnds, TypeOK
<1>7. CASE EjectCloses
  BY <1>0, <1>7 DEF EjectCloses, TypeOK
<1>8. CASE EjectEnds
  BY <1>0, <1>8 DEF EjectEnds, TypeOK
<1>9. CASE SendStatus
  <2>2. Working'
    BY <1>0, <1>9 DEF SendStatus, TypeOK
  <2>4. ASSUME NEW l \in Luns
        PROVE  \/ known'[l] = Unknown /\ wp'[l] = Unknown
               \/ known'[l] \in {Unknown, known[l]} /\ wp'[l] = wp[l] /\ (Noticed(l) => Noticed(l)')
    <3> DEFINE told == curlun # NULL /\ ~phase_error /\ sense[curlun] \in Notices
    <3>1. CASE told /\ signal
      BY <1>0, <1>9, <3>1 DEF SendStatus, Notices, TypeOK
    <3>2. CASE told /\ ~signal
      <4>1. /\ known' = [known EXCEPT ![curlun] = Unknown]
            /\ wp' = [wp EXCEPT ![curlun] = Unknown]
            /\ wiped' = wiped \ {curlun}
            /\ UNCHANGED ua
        BY <1>9, <3>2 DEF SendStatus, Notices
      <4>2. CASE l = curlun
        <5>1. known'[l] = Unknown
          BY <1>0, <4>1, <4>2 DEF TypeOK
        <5>2. wp'[l] = Unknown
          BY <1>0, <4>1, <4>2 DEF TypeOK
        <5> QED
          BY <5>1, <5>2
      <4>3. CASE l # curlun
        BY <1>0, <4>1, <4>3 DEF TypeOK
      <4> QED
        BY <4>2, <4>3
    <3>3. CASE ~told
      <4>1. known' = known \/ (curlun # NULL /\ known' = [known EXCEPT ![curlun] = Unknown])
        BY <1>9, <3>3 DEF SendStatus
      <4>2. wp' = wp /\ wiped' = wiped /\ ua' = ua
        BY <1>9, <3>3 DEF SendStatus
      <4>3. known'[l] \in {Unknown, known[l]}
        BY <1>0, <4>1 DEF TypeOK
      <4>4. Noticed(l) => Noticed(l)'
        BY <3>3, <4>2, MediumAssumption DEF Luns
      <4> QED
        BY <4>2, <4>3, <4>4
    <3> QED
      BY <3>1, <3>2, <3>3
  <2>5. ChangePending' /\ ProtectionPending'
    BY <1>0, <1>9, <2>4 DEF SendStatus
  <2> QED
    BY <2>2, <2>4, <2>5
<1>10. CASE HandleBegins
  BY <1>0, <1>10 DEF HandleBegins, TypeOK
<1>11. CASE HandleResets
  BY <1>0, <1>11 DEF HandleResets, TypeOK
<1>12. CASE do_set_interface
  BY <1>0, <1>12 DEF do_set_interface, TypeOK
<1>13. CASE SyncBegins
  BY <1>0, <1>13 DEF SyncBegins, TypeOK
<1>14. CASE SyncEnds
  BY <1>0, <1>14 DEF SyncEnds, TypeOK
<1>15. ASSUME NEW w \in Writers, StoreEjects(w) PROVE Safe'
  <2>1. pc \notin {"exec", "oops"}
    BY <1>15, Exclusive DEF StoreEjects
  <2> QED
    BY <1>0, <1>15, <2>1 DEF StoreEjects, TypeOK
<1>16. ASSUME NEW w \in Writers, StoreOpens(w) PROVE Safe'
  BY <1>0, <1>16 DEF StoreOpens, TypeOK
<1>17. ASSUME NEW w \in Writers, StoreLoads(w) PROVE Safe'
  <2>1. pc \notin {"exec", "oops"}
    BY <1>17, Exclusive DEF StoreLoads
  <2> QED
    BY <1>0, <1>17, <2>1 DEF StoreLoads, Medium, Opens, TypeOK
<1>18. ASSUME NEW e \in {"RESET", "CONFIG", "DISCONNECT"}, raise_exception(e) PROVE Safe'
  BY <1>0, <1>18 DEF raise_exception, TypeOK
<1>19. ASSUME NEW l, NEW v, SetsRo(l, v),
              UNCHANGED <<filp, prevent, sense, ua, pc, flow, using, i, known, wp, wiped>>
       PROVE  Safe'
  BY <1>0, <1>19 DEF SetsRo, TypeOK
<1>20. ASSUME NEW w \in Writers, NEW l \in Luns, NEW v \in BOOLEAN, store_ro(w, l, v) PROVE Safe'
  <2>1. CASE Free
    BY <1>19, <1>20, <2>1 DEF store_ro
  <2>2. CASE ~Free
    BY <1>0, <1>20, <2>2 DEF store_ro, TypeOK
  <2> QED
    BY <2>1, <2>2
<1>21. ASSUME NEW w \in Writers, StoreRoEnds(w) PROVE Safe'
  BY <1>19, <1>21 DEF StoreRoEnds
<1>22. ASSUME NEW w \in Writers, NEW l \in Luns, NEW f \in Files \cup {NoFile}, store_file(w, l, f)
       PROVE  Safe'
  BY <1>0, <1>22 DEF store_file, TypeOK
<1>23. CASE UNCHANGED vars
  BY <1>0, <1>23 DEF vars
<1> HIDE DEF Safe, Working, ChangePending, Noticed, ProtectionPending
<1> QED
  BY <1>1, <1>2, <1>3, <1>4, <1>5, <1>6, <1>7, <1>8, <1>9, <1>10, <1>11, <1>12, <1>13, <1>14, <1>15,
     <1>16, <1>17, <1>18, <1>20, <1>21, <1>22, <1>23
     DEF Next, Executes, Handlers, HandleException, StoreSteps

-----------------------------------------------------------------------------
(* Types.                                                                  *)

\* A counter below its bound can be incremented.
LEMMA Counting ==
    ASSUME n \in CountType
    PROVE  /\ n.cmd < MaxCmd => [n EXCEPT !.cmd = @ + 1] \in CountType
           /\ n.exc < MaxExc => [n EXCEPT !.exc = @ + 1] \in CountType
           /\ n.store < MaxStore => [n EXCEPT !.store = @ + 1] \in CountType
  BY MediumAssumption DEF CountType

\* A dispatched command is a command.
LEMMA CommandTypes ==
    ASSUME NEW c \in Commands
    PROVE  [c EXCEPT !.op = Dispatched(c)] \in CommandType /\ Dispatched(c) \in Ops
  BY MediumAssumption DEF CommandType, Dispatched, Ops

\* What a command ends with is sense data, success or a phase error.
LEMMA VerdictType ==
    ASSUME TypeOK, NEW op \in Ops, NEW c \in CommandType, c.lun \in Luns
    PROVE  /\ Verdict(op, c) \in Senses \cup {"OK", "PHASE_ERROR"}
           /\ Outcome(op, c.lun) \in Senses
<1>1. Verdict(op, c) \in Senses \cup {"OK", "PHASE_ERROR"}
  <2>1. ua[c.lun] \in Senses
    BY DEF TypeOK, Senses
  <2>2. {"INVALID_FIELD", "MEDIUM_NOT_PRESENT"} \subseteq Senses
    BY DEF Senses, Notices
  <2> QED
    BY <2>1, <2>2 DEF Verdict
<1>2. Outcome(op, c.lun) \in Senses
  <2>1. {"INVALID_COMMAND", "REMOVAL_PREVENTED", "MEDIUM_NOT_PRESENT", "WRITE_PROTECTED", "NO_SENSE"}
        \subseteq Senses
    BY DEF Senses, Notices
  <2>2. Outcome(op, c.lun) \in {"INVALID_COMMAND", "REMOVAL_PREVENTED", "MEDIUM_NOT_PRESENT",
                                "WRITE_PROTECTED", "NO_SENSE"}
    BY DEF Outcome
  <2> QED
    BY <2>1, <2>2
<1> QED
  BY <1>1, <1>2

\* An opened file, and no file, are media.
LEMMA MediumType ==
    ASSUME NEW f \in Files, NEW r \in BOOLEAN
    PROVE  Medium(f, r) \in Media /\ Empty \in Media
  BY DEF Medium, Media

\* At the beginning of a command.
LEMMA BeginsType ==
    ASSUME TypeOK, NEW c, Begins(c)
    PROVE  n' \in CountType /\ UNCHANGED <<cdrom, filp, ro, i, running, exc, signal, store>>
<1>1. n' \in CountType
  BY Counting DEF Begins, Arrives, TypeOK
<1> QED
  BY <1>1 DEF Begins

\* Every step preserves the types.
LEMMA TypeStep == IInv /\ [Next]_vars => TypeOK'
<1> SUFFICES ASSUME IInv, [Next]_vars PROVE TypeOK'
  OBVIOUS
<1>0. filesem' \in SemType
  BY SemStep
<1> USE DEF IInv, TypeOK
<1>1. ASSUME NEW c \in Commands, CommandWaits(c) PROVE TypeOK'
  <2>1. n' \in CountType
    BY <1>1, Counting DEF CommandWaits, Arrives
  <2>2. cmnd' \in CommandType
    BY <1>1, MediumAssumption DEF CommandWaits
  <2> QED
    BY <1>0, <1>1, <2>1, <2>2 DEF CommandWaits
<1>2. ASSUME NEW c \in Commands, CommandOops(c) PROVE TypeOK'
  <2>1. n' \in CountType /\ UNCHANGED <<cdrom, filp, ro, i, running, exc, signal, store>>
    BY <1>2, BeginsType DEF CommandOops
  <2>2. cmnd' \in CommandType
    BY <1>2, MediumAssumption DEF CommandOops
  <2> QED
    BY <1>0, <1>2, <2>1, <2>2 DEF CommandOops
<1>3. ASSUME NEW c \in Commands, CommandRefused(c) PROVE TypeOK'
  <2> DEFINE op == Dispatched(c)
             v  == Verdict(op, c)
  <2>1. cmnd' \in CommandType /\ op \in Ops /\ c \in CommandType
    BY <1>3, CommandTypes, MediumAssumption DEF CommandRefused
  <2>2. Checked(op, c, v)
    BY <1>3 DEF CommandRefused
  <2>3. c.lun \in Luns => v \in Senses \cup {"OK", "PHASE_ERROR"}
    BY <2>1, VerdictType
  <2>4. n' \in CountType /\ UNCHANGED <<cdrom, filp, ro, i, running, exc, signal, store>>
    BY <1>3, BeginsType DEF CommandRefused
  <2> HIDE DEF op, v
  <2>5. sense' \in [Luns -> Senses] /\ ua' \in [Luns -> Notices \cup {"NO_SENSE"}]
    BY <2>2, <2>3 DEF Checked, Senses
  <2>6. curlun' \in Luns \cup {NULL} /\ phase_error' \in BOOLEAN
    BY <2>2 DEF Checked
  <2> QED
    BY <1>0, <1>3, <2>1, <2>4, <2>5, <2>6 DEF CommandRefused
<1>4. ASSUME NEW c \in Commands, Accepted(c)
      PROVE  /\ n' \in CountType /\ cmnd' \in CommandType /\ sense' \in [Luns -> Senses]
             /\ curlun' \in Luns /\ curlun' = c.lun /\ phase_error' \in BOOLEAN
             /\ UNCHANGED <<cdrom, filp, ro, i, running, exc, signal, store, ua>>
  <2>1. cmnd' \in CommandType /\ Dispatched(c) \in Ops /\ c \in CommandType
    BY <1>4, CommandTypes, MediumAssumption DEF Accepted
  <2>2. c.lun \in Luns /\ Outcome(Dispatched(c), c.lun) \in Senses
    BY <1>4, <2>1, VerdictType DEF Accepted
  <2>3. sense' \in [Luns -> Senses]
    BY <1>4, <2>2 DEF Accepted
  <2>4. n' \in CountType /\ UNCHANGED <<cdrom, filp, ro, i, running, exc, signal, store>>
    BY <1>4, BeginsType DEF Accepted
  <2> QED
    BY <1>4, <2>1, <2>2, <2>3, <2>4 DEF Accepted
<1>5. ASSUME NEW c \in Commands, CommandAtOnce(c) PROVE TypeOK'
  <2>1. /\ n' \in CountType /\ cmnd' \in CommandType /\ sense' \in [Luns -> Senses]
        /\ curlun' \in Luns /\ curlun' = c.lun /\ phase_error' \in BOOLEAN
        /\ UNCHANGED <<cdrom, filp, ro, i, running, exc, signal, store, ua>>
    BY <1>4, <1>5 DEF CommandAtOnce
  <2>2. prevent' \subseteq Luns
    BY <1>5, <2>1 DEF CommandAtOnce
  <2>3. wp' \in [Luns -> {"ro", "rw", Unknown}]
    BY <1>5, <2>1 DEF CommandAtOnce
  <2>4. known' \in [Luns -> Files \cup {Unknown}]
    <3>1. CASE Dispatched(c) = "READ_TOC"
      <4>1. backing_file_is_open(c.lun)
        BY <1>5, <3>1, AcceptedFacts DEF CommandAtOnce, NeedsMedium
      <4>2. filp[c.lun].file \in Files
        BY <2>1, <4>1 DEF Media
      <4> QED
        BY <1>5, <2>1, <3>1, <4>2 DEF CommandAtOnce
    <3>2. CASE Dispatched(c) # "READ_TOC"
      BY <1>5, <3>2 DEF CommandAtOnce
    <3> QED
      BY <3>1, <3>2
  <2> QED
    BY <1>0, <1>5, <2>1, <2>2, <2>3, <2>4 DEF CommandAtOnce
<1>6. ASSUME NEW c \in Commands, CommandSleeps(c) PROVE TypeOK'
  <2>1. /\ n' \in CountType /\ cmnd' \in CommandType /\ sense' \in [Luns -> Senses]
        /\ curlun' \in Luns /\ curlun' = c.lun /\ phase_error' \in BOOLEAN
        /\ UNCHANGED <<cdrom, filp, ro, i, running, exc, signal, store, ua>>
    BY <1>4, <1>6 DEF CommandSleeps
  <2>2. using' \in Luns \cup {NULL} /\ pc' \in {"eject", "exec"}
    BY <1>6, <2>1 DEF CommandSleeps
  <2> QED
    BY <1>0, <1>6, <2>1, <2>2 DEF CommandSleeps
<1>7. CASE CommandEnds
  <2>1. known' \in [Luns -> Files \cup {Unknown}]
    <3>1. CASE cmnd.op = "ALLOW"
      BY <1>7, <3>1 DEF CommandEnds
    <3>2. CASE cmnd.op # "ALLOW"
      <4>1. curlun \in Luns /\ filp[curlun].file \in Files
        BY <1>7, <3>2 DEF CommandEnds, Safe, Working, Media
      <4> QED
        BY <1>7, <3>2, <4>1 DEF CommandEnds
    <3> QED
      BY <3>1, <3>2
  <2>2. prevent' \subseteq Luns
    BY <1>7 DEF CommandEnds
  <2> QED
    BY <1>0, <1>7, <2>1, <2>2 DEF CommandEnds
<1>8. CASE EjectCloses
  <2>1. filp' \in [Luns -> Media]
    BY <1>8 DEF EjectCloses, Media
  <2> QED
    BY <1>0, <1>8, <2>1 DEF EjectCloses
<1>9. CASE EjectEnds
  BY <1>0, <1>9 DEF EjectEnds
<1>10. CASE SendStatus
  <2>1. known' \in [Luns -> Files \cup {Unknown}]
    BY <1>10 DEF SendStatus
  <2>2. wp' \in [Luns -> {"ro", "rw", Unknown}]
    BY <1>10 DEF SendStatus
  <2>3. wiped' \subseteq Luns
    BY <1>10 DEF SendStatus
  <2>4. cmnd' \in CommandType
    BY <1>10 DEF SendStatus, CommandType, NoCommand, Ops
  <2> QED
    BY <1>10, <2>1, <2>2, <2>3, <2>4 DEF SendStatus
<1>11. CASE HandleBegins
  BY <1>11 DEF HandleBegins
<1>12. CASE HandleResets
  <2>1. sense' \in [Luns -> Senses] /\ ua' \in [Luns -> Notices \cup {"NO_SENSE"}]
    BY <1>12 DEF HandleResets, Senses
  <2>2. pc' \in {"setif", "sync", "idle"} /\ wiped' \subseteq Luns
    BY <1>12 DEF HandleResets
  <2> QED
    BY <1>12, <2>1, <2>2 DEF HandleResets
<1>13. CASE do_set_interface
  <2>1. ua' \in [Luns -> Notices \cup {"NO_SENSE"}] /\ running' \in BOOLEAN /\ wiped' \subseteq Luns
    BY <1>13 DEF do_set_interface, Notices
  <2> QED
    BY <1>13, <2>1 DEF do_set_interface
<1>14. CASE SyncBegins
  <2>1. i' \in 0 .. NLuns /\ using' \in Luns \cup {NULL}
    BY <1>14, MediumAssumption DEF SyncBegins, Luns
  <2> QED
    BY <1>14, <2>1 DEF SyncBegins
<1>15. CASE SyncEnds
  <2>1. i' \in 0 .. NLuns
    BY <1>15, MediumAssumption DEF SyncEnds, Safe, Working
  <2> QED
    BY <1>15, <2>1 DEF SyncEnds
<1>16. ASSUME NEW w \in Writers, NEW r \in StoreType, store' = [store EXCEPT ![w] = r]
       PROVE  store' \in [Writers -> StoreType]
  BY <1>16
<1>17. NoStore \in StoreType
  BY DEF StoreType
<1>18. ASSUME NEW w \in Writers, StoreEjects(w) PROVE TypeOK'
  <2>1. /\ store[w].lun \in Luns /\ store[w].file \in Files \cup {NoFile} /\ store[w].ro \in BOOLEAN
        /\ store[w] = [lun |-> store[w].lun, file |-> store[w].file, ro |-> store[w].ro,
                       at |-> store[w].at]
    BY <1>18 DEF StoreEjects, StoreType
  <2>2. filp' \in [Luns -> Media] /\ ua' \in [Luns -> Notices \cup {"NO_SENSE"}]
    BY <1>18, <2>1 DEF StoreEjects, Media, Notices
  <2>3. store' \in [Writers -> StoreType]
    <3>1. CASE store[w].file = NoFile
      BY <1>16, <1>17, <1>18, <3>1 DEF StoreEjects, Unlocked
    <3>2. CASE store[w].file # NoFile
      <4>1. PICK r : r = [lun |-> store[w].lun, file |-> store[w].file, ro |-> store[w].ro, at |-> "open"]
        OBVIOUS
      <4>2. r \in StoreType
        BY <2>1, <4>1 DEF StoreType
      <4>3. store' = [store EXCEPT ![w] = [store[w] EXCEPT !.at = "open"]]
        BY <1>18, <3>2 DEF StoreEjects
      <4>4. [store[w] EXCEPT !.at = "open"] = r
        BY <2>1, <4>1
      <4> QED
        BY <1>16, <4>2, <4>3, <4>4
    <3> QED
      BY <3>1, <3>2
  <2> QED
    BY <1>0, <1>18, <2>2, <2>3 DEF StoreEjects
<1>19. ASSUME NEW w \in Writers, StoreOpens(w) PROVE TypeOK'
  <2>1. /\ store[w].lun \in Luns /\ store[w].file \in Files \cup {NoFile}
        /\ store[w] = [lun |-> store[w].lun, file |-> store[w].file, ro |-> store[w].ro,
                       at |-> store[w].at]
    BY <1>19 DEF StoreOpens, StoreType
  <2>2. (store[w].lun \in ro) \in BOOLEAN
    OBVIOUS
  <2>3. [lun |-> store[w].lun, file |-> store[w].file, ro |-> store[w].lun \in ro, at |-> "load"]
          \in StoreType
    BY <2>1, <2>2 DEF StoreType
  <2>4. store' \in [Writers -> StoreType]
    BY <1>0, <1>19, <2>3 DEF StoreOpens
  <2> QED
    BY <1>0, <1>19, <2>4 DEF StoreOpens
<1>20. ASSUME NEW w \in Writers, StoreLoads(w) PROVE TypeOK'
  <2>1. store[w].lun \in Luns /\ store[w].ro \in BOOLEAN
    BY <1>20 DEF StoreLoads, StoreType
  <2>2. filp' \in [Luns -> Media]
    BY <1>20, <2>1, MediumType DEF StoreLoads, Opens
  <2>3. ro' \subseteq Luns /\ ua' \in [Luns -> Notices \cup {"NO_SENSE"}]
    BY <1>20, <2>1 DEF StoreLoads, Notices
  <2>4. store' \in [Writers -> StoreType]
    BY <1>16, <1>17, <1>20 DEF StoreLoads, Unlocked
  <2> QED
    BY <1>0, <1>20, <2>2, <2>3, <2>4 DEF StoreLoads
<1>21. ASSUME NEW e \in {"RESET", "CONFIG", "DISCONNECT"}, raise_exception(e) PROVE TypeOK'
  <2>1. n' \in CountType
    BY <1>21, Counting DEF raise_exception
  <2>2. exc' \in {"NONE", "RESET", "CONFIG", "DISCONNECT"} /\ signal' \in BOOLEAN
    BY <1>21 DEF raise_exception
  <2> QED
    BY <1>21, <2>1, <2>2 DEF raise_exception
<1>22. ASSUME NEW w \in Writers, NEW l \in Luns, NEW v \in BOOLEAN, store_ro(w, l, v) PROVE TypeOK'
  <2>1. n' \in CountType
    BY <1>22, Counting DEF store_ro, Writing
  <2>2. ro' \subseteq Luns
    BY <1>22 DEF store_ro, SetsRo
  <2>3. store' \in [Writers -> StoreType]
    <3>1. [lun |-> l, file |-> NoFile, ro |-> v, at |-> "down_read"] \in StoreType
      BY DEF StoreType
    <3> QED
      BY <1>16, <1>22, <3>1 DEF store_ro
  <2> QED
    BY <1>0, <1>22, <2>1, <2>2, <2>3 DEF store_ro
<1>23. ASSUME NEW w \in Writers, StoreRoEnds(w) PROVE TypeOK'
  <2>1. store[w].lun \in Luns
    BY <1>23 DEF StoreRoEnds, StoreType
  <2>2. ro' \subseteq Luns
    BY <1>23, <2>1 DEF StoreRoEnds, SetsRo
  <2>3. store' \in [Writers -> StoreType]
    BY <1>16, <1>17, <1>23 DEF StoreRoEnds
  <2> QED
    BY <1>0, <1>23, <2>2, <2>3 DEF StoreRoEnds
<1>24. ASSUME NEW w \in Writers, NEW l \in Luns, NEW f \in Files \cup {NoFile}, store_file(w, l, f)
       PROVE  TypeOK'
  <2>1. n' \in CountType
    BY <1>24, Counting DEF store_file, Writing
  <2>2. store' \in [Writers -> StoreType]
    <3>1. PICK b \in BOOLEAN : b = FALSE
      OBVIOUS
    <3>2. [lun |-> l, file |-> f, ro |-> b, at |-> "down_write"] \in StoreType
      BY DEF StoreType
    <3> QED
      BY <1>16, <1>24, <3>1, <3>2 DEF store_file
  <2> QED
    BY <1>0, <1>24, <2>1, <2>2 DEF store_file
<1>25. CASE UNCHANGED vars
  BY <1>25 DEF vars
<1> HIDE DEF IInv, TypeOK
<1> QED
  BY <1>1, <1>2, <1>3, <1>5, <1>6, <1>7, <1>8, <1>9, <1>10, <1>11, <1>12, <1>13, <1>14, <1>15, <1>18,
     <1>19, <1>20, <1>21, <1>22, <1>23, <1>24, <1>25
     DEF Next, Executes, Handlers, HandleException, StoreSteps

-----------------------------------------------------------------------------
\* The inductive invariant holds in every state: filesem with its wait list, the
\* thread and the sysfs writers at each of their places, and the notices the
\* host has still to see.
THEOREM Inductive == Spec => []IInv
<1>1. Init => IInv
  <2> SUFFICES ASSUME Init PROVE IInv
    OBVIOUS
  <2>1. filp \in [Luns -> Media] /\ ro \subseteq Luns
    <3>1. PICK param \in SUBSET Luns, file \in [Luns -> Files \cup {NoFile}] :
             /\ filp = [l \in Luns |-> IF file[l] = NoFile THEN Empty
                                      ELSE Medium(file[l], l \in param \cup cdrom)]
             /\ ro = param \cup cdrom \cup {l \in Luns : file[l] \in Files \ Writable}
      BY DEF Init
    <3>2. ASSUME NEW l \in Luns PROVE filp[l] \in Media
      <4>1. CASE file[l] = NoFile
        BY <3>1, <4>1 DEF Media
      <4>2. CASE file[l] # NoFile
        <5>1. file[l] \in Files /\ (l \in param \cup cdrom) \in BOOLEAN
          BY <4>2
        <5> QED
          BY <3>1, <4>2, <5>1, MediumType
      <4> QED
        BY <4>1, <4>2
    <3>3. cdrom \subseteq Luns
      BY DEF Init
    <3> QED
      BY <3>1, <3>2, <3>3
  <2>2. filesem \in SemType
    BY DEF Init, SemType
  <2>3. store \in [Writers -> StoreType] /\ \A w \in Writers : store[w].at = "none"
    BY DEF Init, StoreType
  <2>4. n \in CountType /\ cmnd \in CommandType /\ i \in 0 .. NLuns
    BY MediumAssumption DEF Init, CountType, CommandType, NoCommand, Ops
  <2>5. TypeOK
    BY <2>1, <2>2, <2>3, <2>4 DEF Init, TypeOK, Senses
  <2>6. Safe
    BY <2>1 DEF Init, Safe, Working, ChangePending, ProtectionPending
  <2>7. Semaphore
    <3>1. filesem.readers = {} /\ filesem.writer = "nobody" /\ filesem.queue = <<>>
      BY DEF Init
    <3>2. GoodSem(filesem, MayRead, MayWrite)
      BY <3>1 DEF GoodSem, Wanted, Waiting, Once
    <3>3. Critical
      BY <2>3 DEF Init, Critical
    <3> QED
      BY <3>2, <3>3 DEF Semaphore
  <2> QED
    BY <2>5, <2>6, <2>7 DEF IInv
<1>2. IInv /\ [Next]_vars => IInv'
  BY TypeStep, SemStep, SafeStep DEF IInv
<1> QED
  BY <1>1, <1>2, PTL DEF Spec

\* The LUNs, the semaphore, the thread, the sysfs writers and what the host
\* knows keep their types.
THEOREM TypeCorrect == Spec => []TypeOK
<1>1. IInv => TypeOK
  BY DEF IInv
<1> QED
  BY <1>1, Inductive, PTL

\* However many processes wait, filesem is handed on to one that wants it, and
\* never for something else than it wants.
THEOREM SemaphoreHandedOn == Spec => []HandedOn
<1>1. IInv => HandedOn
  <2> SUFFICES ASSUME IInv PROVE HandedOn
    OBVIOUS
  <2>1. PICK q \in Seq(WaiterType) : q = filesem.queue
    BY SemFacts DEF SemType
  <2>2. q # <<>> => Head(q) = q[1]
    BY <2>1
  <2>3. /\ filesem.readers = {} \/ filesem.writer = "nobody"
        /\ filesem.queue # <<>> => filesem.readers # {} \/ filesem.writer # "nobody"
        /\ filesem.queue # <<>> /\ filesem.readers # {} => Head(filesem.queue).mode = "write"
    BY <2>1, <2>2, SemFacts DEF GoodSem
  <2>4. filesem.readers \subseteq MayRead /\ filesem.writer \in MayWrite \cup {"nobody"}
    BY SemFacts DEF GoodSem
  <2>5. /\ "thread" \in filesem.readers => pc \in {"wait", "exec", "reread", "oops"}
        /\ filesem.writer = "thread" => pc = "eject"
    BY <2>4, SemFacts DEF MayRead, MayWrite
  <2>6. ASSUME NEW w \in Writers
        PROVE  /\ w \in filesem.readers => store[w].at = "down_read"
               /\ filesem.writer = w => store[w].at \in {"down_write", "open", "load"}
    BY <2>4, SemFacts DEF MayRead, MayWrite
  <2> QED
    BY <2>3, <2>5, <2>6 DEF HandedOn
<1> QED
  BY <1>1, Inductive, PTL

\* Whatever is loaded and ejected through sysfs, and whatever the host sends in
\* between, a medium it does not know of is announced, or the notice was wiped.
THEOREM MediumChangesPending == Spec => []ChangePending
<1>1. IInv => ChangePending
  BY DEF IInv, Safe
<1> QED
  BY <1>1, Inductive, PTL

\* The write-protect bit MODE SENSE reported is right whenever a command gets
\* through, unless a notice was wiped.
THEOREM ProtectionKnown == Spec => []ProtectionAnnounced
<1>1. IInv => ProtectionAnnounced
  BY DEF IInv, Safe, Working, NeedsMedium, ProtectionPending, Noticed, ProtectionAnnounced
<1> QED
  BY <1>1, Inductive, PTL

\* The host's idea of the medium never jumps from one file to another: there is
\* a unit attention condition in between, unless a notice was wiped.
THEOREM NoSilentChange == Spec => MediumAnnounced
<1> DEFINE A == \A l \in Luns : known[l] # Unknown /\ known'[l] \notin {Unknown, known[l]}
                               => l \in wiped
<1>1. IInv /\ [Next]_vars => [A]_vars
  <2> SUFFICES ASSUME IInv, Next, NEW l \in Luns,
                      known[l] # Unknown, known'[l] \notin {Unknown, known[l]}
               PROVE  l \in wiped
    OBVIOUS
  <2>1. known[l] \notin {Unknown, filp[l].file} /\ backing_file_is_open(l) /\ ua[l] = "NO_SENSE"
        => pc = "status" \/ l \in wiped
    BY DEF IInv, Safe, ChangePending
  <2>2. ASSUME NEW c \in Commands, CommandAtOnce(c) PROVE l \in wiped
    <3>1. c.lun = l /\ known'[l] = filp[l].file /\ Dispatched(c) = "READ_TOC" /\ Accepted(c)
      BY <2>2 DEF CommandAtOnce, IInv, TypeOK
    <3>2. backing_file_is_open(l) /\ ua[l] = "NO_SENSE" /\ pc # "status"
      BY <3>1, AcceptedFacts DEF NeedsMedium
    <3> QED
      BY <2>1, <3>1, <3>2
  <2>3. ASSUME CommandEnds PROVE l \in wiped
    BY <2>1, <2>3 DEF CommandEnds, IInv, TypeOK, Safe, Working
  <2>4. ASSUME SendStatus PROVE FALSE
    <3>1. known' = known \/ known' = [known EXCEPT ![curlun] = Unknown]
      BY <2>4 DEF SendStatus
    <3> QED
      BY <3>1 DEF IInv, TypeOK
  <2> QED
    BY <2>2, <2>3, <2>4 DEF Next, Executes, Handlers, HandleException, StoreSteps, CommandWaits,
       CommandOops, Begins, CommandRefused, CommandSleeps, EjectCloses, EjectEnds, HandleBegins,
       HandleResets, do_set_interface, SyncBegins, SyncEnds, StoreRoEnds, StoreEjects, StoreOpens,
       StoreLoads, raise_exception, store_ro, store_file
<1> QED
  BY <1>1, Inductive, PTL DEF Spec, MediumAnnounced

\* What changes the medium of a LUN: an eject by the host, an eject through
\* sysfs and a load through sysfs, each with filesem held for writing.
LEMMA MediumChanges ==
    ASSUME IInv, Next, NEW l \in Luns, filp'[l] # filp[l]
    PROVE  \/ pc = "eject" /\ curlun = l /\ filesem.writer = "thread"
           \/ \E w \in Writers : /\ store[w].at \in {"down_write", "load"} /\ store[w].lun = l
                                 /\ filesem.writer = w
<1>0. TypeOK
  BY DEF IInv
<1>1. CASE EjectCloses
  BY <1>0, <1>1 DEF EjectCloses, TypeOK
<1>2. ASSUME NEW w \in Writers, StoreEjects(w)
      PROVE  store[w].at = "down_write" /\ store[w].lun = l /\ filesem.writer = w
  BY <1>0, <1>2 DEF StoreEjects, TypeOK
<1>3. ASSUME NEW w \in Writers, StoreLoads(w)
      PROVE  store[w].at = "load" /\ store[w].lun = l /\ filesem.writer = w
  BY <1>0, <1>3, Exclusive DEF StoreLoads, TypeOK
<1> QED
  BY <1>1, <1>2, <1>3 DEF Next, Executes, Handlers, HandleException, StoreSteps, CommandWaits,
     CommandOops, Begins, CommandRefused, CommandAtOnce, Accepted, CommandSleeps, CommandEnds,
     EjectEnds, SendStatus, HandleBegins, HandleResets, do_set_interface, SyncBegins, SyncEnds,
     StoreRoEnds, StoreOpens, raise_exception, store_ro, store_file

\* Which store_file is past its test: one that was already, or one that finds the
\* LUN unlocked or empty.
LEMMA TestsPassed ==
    ASSUME IInv, Next, NEW l \in Luns, ~PastTest(l), PastTest(l)'
    PROVE  ~(l \in prevent /\ backing_file_is_open(l))
<1>0. store \in [Writers -> StoreType]
  BY DEF IInv, TypeOK
<1>1. ASSUME NEW w \in Writers, NEW k \in Luns, NEW f \in Files \cup {NoFile}, store_file(w, k, f)
      PROVE  ~(l \in prevent /\ backing_file_is_open(l))
  <2>1. /\ store' = [store EXCEPT ![w] = [lun |-> k, file |-> f, ro |-> FALSE, at |-> "down_write"]]
        /\ ~(k \in prevent /\ backing_file_is_open(k))
    BY <1>1 DEF store_file
  <2>2. store'[w].lun = k /\ \A u \in Writers \ {w} : store'[u] = store[u]
    BY <1>0, <2>1
  <2>3. k = l
    BY <2>2 DEF PastTest
  <2> QED
    BY <2>1, <2>3
<1>2. ASSUME NEW w \in Writers, store' = [store EXCEPT ![w] = NoStore] PROVE FALSE
  <2>1. store'[w].at = "none" /\ \A u \in Writers \ {w} : store'[u] = store[u]
    BY <1>0, <1>2
  <2> QED
    BY <2>1 DEF PastTest
<1>3. ASSUME NEW w \in Writers, StoreEjects(w) PROVE FALSE
  <2>1. CASE store[w].file = NoFile
    BY <1>2, <1>3, <2>1 DEF StoreEjects, Unlocked
  <2>2. CASE store[w].file # NoFile
    <3>1. store' = [store EXCEPT ![w].at = "open"] /\ store[w].at = "down_write"
      BY <1>3, <2>2 DEF StoreEjects
    <3>2. store'[w].lun = store[w].lun /\ \A u \in Writers \ {w} : store'[u] = store[u]
      BY <1>0, <3>1 DEF StoreType
    <3> QED
      BY <3>1, <3>2 DEF PastTest
  <2> QED
    BY <2>1, <2>2
<1>4. ASSUME NEW w \in Writers, StoreOpens(w) PROVE FALSE
  <2>1. /\ store'[w].lun = store[w].lun /\ store[w].at = "open"
        /\ \A u \in Writers \ {w} : store'[u] = store[u]
    BY <1>0, <1>4 DEF StoreOpens
  <2> QED
    BY <2>1 DEF PastTest
<1>5. ASSUME NEW w \in Writers, StoreRoEnds(w) \/ StoreLoads(w) PROVE FALSE
  BY <1>2, <1>5 DEF StoreRoEnds, StoreLoads, Unlocked
<1>6. ASSUME NEW w \in Writers, NEW k \in Luns, NEW v \in BOOLEAN, store_ro(w, k, v) PROVE FALSE
  <2>1. CASE Free
    BY <1>6, <2>1 DEF store_ro, PastTest
  <2>2. CASE ~Free
    <3>1. store'[w].at = "down_read" /\ \A u \in Writers \ {w} : store'[u] = store[u]
      BY <1>0, <1>6, <2>2 DEF store_ro
    <3> QED
      BY <3>1 DEF PastTest
  <2> QED
    BY <2>1, <2>2
<1>7. store' # store
  BY DEF PastTest
<1> QED
  BY <1>1, <1>3, <1>4, <1>5, <1>6, <1>7 DEF Next, Executes, Handlers, HandleException, StoreSteps,
     CommandWaits, CommandOops, Begins, CommandRefused, CommandAtOnce, Accepted, CommandSleeps,
     CommandEnds, EjectCloses, EjectEnds, SendStatus, HandleBegins, HandleResets, do_set_interface,
     SyncBegins, SyncEnds, raise_exception

\* The lock is honoured by every store_file that comes after it: once those that
\* tested it before are through, a locked medium stays.
THEOREM LockHolds == Spec => SettledLockHolds
<1> DEFINE A == \A l \in Luns : l \in prevent /\ backing_file_is_open(l) /\ ~PastTest(l)
                               => filp'[l] = filp[l] /\ (l \in prevent' => ~PastTest(l)')
<1>1. IInv /\ [Next]_vars => [A]_vars
  <2> SUFFICES ASSUME IInv, Next, NEW l \in Luns, l \in prevent, backing_file_is_open(l), ~PastTest(l)
               PROVE  filp'[l] = filp[l] /\ ~PastTest(l)'
    OBVIOUS
  <2>1. pc = "eject" => curlun # l
    BY DEF IInv, Safe, Working
  <2>2. filp'[l] = filp[l]
    BY <2>1, MediumChanges DEF PastTest
  <2>3. ~PastTest(l)'
    BY TestsPassed
  <2> QED
    BY <2>2, <2>3
<1> QED
  BY <1>1, Inductive, PTL DEF Spec, SettledLockHolds

\* A backing file stays open while a command reads, writes or syncs it.
THEOREM UsersKeepMedium == Spec => CommandKeepsMedium
<1> DEFINE A == \A l \in Luns : using = l /\ pc # "sync" => filp'[l] = filp[l]
<1>1. IInv /\ [Next]_vars => [A]_vars
  <2> SUFFICES ASSUME IInv, Next, NEW l \in Luns, using = l, pc # "sync", filp'[l] # filp[l]
               PROVE  FALSE
    OBVIOUS
  <2>1. pc = "exec"
    BY MediumAssumption DEF IInv, Safe, Working, Luns
  <2>2. \A w \in Writers : filesem.writer # w
    BY <2>1, Exclusive
  <2> QED
    BY <2>1, <2>2, MediumChanges
<1> QED
  BY <1>1, Inductive, PTL DEF Spec, CommandKeepsMedium
=============================================================================
