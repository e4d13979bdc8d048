-------------------------- MODULE FsgPipeline_inv --------------------------
(***************************************************************************)
(* The inductive invariant of FsgPipeline, what the parts of its actions   *)
(* do, and the steps of the command phase, of the data phase to the host   *)
(* and of the status phase.  FsgPipeline_proofs has the other steps and    *)
(* the theorems.                                                           *)
(***************************************************************************)
EXTENDS FsgPipeline, FiniteSetTheorems, FunctionTheorems, SequenceTheorems, TLAPS

Sz   == SizeFromCmnd(cbw)
Goal == DataSize(cbw)
Base == cbw.lba * Block

\* How much has been moved according to the residue, how much was asked of the host.
Done  == cbw.size - fsg.residue
Asked == cbw.size - fsg.left

CmdPcs == {"scsi", "read", "write", "finish", "halt", "pad", "throw", "status"}

Data(b) == bh[b].want = "data"
NoData  == \A b \in Heads : ~Data(b)

\* A wrapper has arrived and was not looked at yet.
GotCbw == pc = "cbw" /\ Full(fill)

CswQueued == inq # <<>> /\ inq[Len(inq)].kind = "csw"

\* Which exception is pending when.
Exceptions ==
    /\ exc = "reset" <=> host.phase = "reset"
    /\ pc = "exc" => exc # "none"
    /\ exc = "abort" => pc = "exc" /\ host.phase = "csw" /\ cbw.form = "ok"
                       /\ cbw.dir = "out" /\ inq = <<>>

\* A queued transfer belongs to one busy buffer head; a status is the last one.
Queues ==
    /\ \A i \in DOMAIN inq : bh[inq[i].b].state = "BUSY" /\ ~Data(inq[i].b)
    /\ \A i, j \in DOMAIN inq : inq[i].b = inq[j].b => i = j
    /\ \A i \in DOMAIN inq : inq[i].kind = "csw" => i = Len(inq)
    /\ \A i \in DOMAIN outq : bh[outq[i]].state = "BUSY" /\ bh[outq[i]].want # "none"
    /\ \A i, j \in DOMAIN outq : outq[i] = outq[j] => i = j
    /\ \A i \in DOMAIN inq, j \in DOMAIN outq : inq[i].b # outq[j]
    /\ \A b \in Heads : Data(b) => ~Empty(b)

\* What the thread's place says about the command and the queues.
Stages ==
    /\ pc \in {"get", "scsi", "read", "halt", "pad", "status"} => outq = <<>> /\ NoData
    /\ pc = "cbw" => NoData /\ \/ outq = <<fill>> /\ bh[fill].want = "cbw"
                               \/ outq = <<>> /\ Full(fill)
    /\ pc = "finish" /\ cbw.dir = "in" => outq = <<>> /\ NoData
    /\ pc \in {"write", "throw"} => cbw.dir = "out"
    /\ pc \in {"read", "pad", "halt"} => cbw.dir = "in"
    /\ pc \in CmdPcs => cbw.form = "ok" /\ cbw \in Cbws
    /\ pc # "exc" => \A b \in Heads : Full(b) =>
          Data(b) \/ (b = fill /\ (pc = "cbw" \/ (pc = "finish" /\ cbw.dir = "in")))
    /\ (GotCbw /\ bh[fill].err = 0) \/ pc = "scsi" =>
          /\ sent = <<>> /\ written = {} /\ inq = <<>> /\ host.moved = 0
          /\ ignore = 0 /\ cbw \in Cbws
          /\ host.phase = "csw" => cbw.form # "ok" \/ cbw.dir = "none"

\* The device will send more data.
Sending == GotCbw \/ pc \in {"scsi", "read", "finish"} \/ (pc = "pad" /\ fsg.left > 0)

\* What the host's phase says about the device.
Phases ==
    /\ host.phase = "cbw" =>
          /\ pc \in {"get", "cbw"} /\ inq = <<>> /\ halted = {} /\ ignore = 0
          /\ GotCbw => bh[fill].err = 1
    /\ GotCbw /\ bh[fill].err = 1 => host.phase \in {"cbw", "reset"}
    /\ host.phase \in {"data", "csw"} =>
          /\ cbw \in Cbws
          /\ cbw.form = "ok" /\ pc \in {"get", "cbw"} /\ ~GotCbw => CswQueued
          /\ cbw.form # "ok" => pc \in {"get", "cbw"} /\ inq = <<>>
          /\ cbw.form = "ok" => "out" \notin halted /\ ignore = 0
    /\ host.phase = "data" => cbw.form = "ok" /\ cbw.dir # "none"
    /\ host.phase = "data" /\ cbw.dir = "out" => inq = <<>> /\ host.moved < cbw.size
    /\ host.phase = "data" => "in" \notin halted
    /\ host.phase = "csw" => \A i \in DOMAIN inq : inq[i].kind = "csw"
    /\ host.phase = "csw" /\ cbw.form = "ok" /\ cbw.dir = "in" => ~Sending
    /\ CswQueued => pc \in {"get", "cbw", "exc"} /\ ~GotCbw

\* A host that expects size units takes transfer t, which starts at position p, for the
\* last of its data.
Ending(t, p, size) ==
    t.zero = 1 \/ t.data = <<>> \/ Len(t.data) % Block # 0 \/ p + Len(t.data) >= size

\* In the data phase to the host: the transfers follow one another, and the host will
\* take the last one, and no other, for the last one.
InOrder(pos) ==
    host.phase = "data" /\ cbw.dir = "in" =>
       /\ inq = <<>> => host.moved = Len(sent) /\ Sending
       /\ inq # <<>> => inq[1].kind = "data" /\ pos[inq[1].b] = host.moved
       /\ \A i \in DOMAIN inq : inq[i].kind = "data" =>
             LET p == pos[inq[i].b] IN
             IF i < Len(inq) /\ inq[i + 1].kind = "data"
             THEN pos[inq[i + 1].b] = p + Len(inq[i].data) /\ ~Ending(inq[i], p, cbw.size)
             ELSE p + Len(inq[i].data) = Len(sent) /\ (Ending(inq[i], p, cbw.size) <=> ~Sending)

Receiving == pc \in {"write", "throw"} \/ (pc = "finish" /\ cbw.dir # "in")

\* In a command that takes data: the requests of the buffer heads cover what was asked
\* of the host from some position on, in the order of the ring; pos is where each starts.
Tiled(pos) ==
    Receiving =>
       /\ \A b \in Heads : Data(b) =>
             /\ bh[b].outlen > 0 /\ pos[b] + bh[b].outlen <= Asked
             /\ \/ NextBh(b) = fill /\ pos[b] + bh[b].outlen = Asked
                \/ Data(NextBh(b)) /\ pos[NextBh(b)] = pos[b] + bh[b].outlen
       /\ \A b, c \in Heads : Data(b) /\ Data(c) /\ b # c =>
             pos[b] + bh[b].outlen <= pos[c] \/ pos[c] + bh[c].outlen <= pos[b]
       /\ IF NoData THEN drain = fill
          ELSE Data(drain) /\ \A b \in Heads : Data(b) => pos[drain] <= pos[b]
       /\ pc = "write" => IF NoData THEN Done = Asked ELSE pos[drain] = Done
       /\ pc = "finish" /\ ~NoData => pos[drain] >= Done

\* The host serves the requests in order; outq holds those it has not served.
Served(pos) ==
    Receiving =>
       /\ \A b \in Heads : Data(b) /\ bh[b].state = "BUSY" => \E i \in DOMAIN outq : outq[i] = b
       /\ \A i \in DOMAIN outq : Data(outq[i])
       /\ \A i, j \in DOMAIN outq : i < j => pos[outq[i]] < pos[outq[j]]
       /\ \A b, c \in Heads : Data(b) /\ Data(c) /\ Full(b) /\ bh[c].state = "BUSY" => pos[b] < pos[c]
       /\ \A b \in Heads : Data(b) /\ Full(b) =>
             /\ bh[b].act = Len(bh[b].buf) /\ bh[b].act <= bh[b].outlen
             /\ \A k \in 1 .. bh[b].act : bh[b].buf[k] = pos[b] + k - 1
             /\ pos[b] + bh[b].act <= host.moved
             /\ bh[b].act # bh[b].outlen \/ bh[b].err = 1 => host.phase # "data"
             /\ bh[b].act # bh[b].outlen /\ bh[b].err = 0 => host.moved = pos[b] + bh[b].act
       /\ host.phase = "data" /\ outq # <<>> => host.moved = pos[outq[1]]
       /\ host.phase = "data" /\ outq = <<>> => host.moved = Asked

\* The units of the first w positions, each at its place.
Prefix(w) == {<<Base + k, k>> : k \in 0 .. w - 1}

\* The first m units sent are data, the others padding.
PaddedFrom(m) ==
    /\ m \in 0 .. Len(sent)
    /\ \A k \in DOMAIN sent : sent[k] = Zero <=> k > m

\* The command has found no fault so far.
Clean == fsg.phase_error = 0 /\ fsg.sense = 0

\* The counters of a command that sends data.
SentSoFar ==
    cbw.dir = "in" /\ pc \in CmdPcs \ {"scsi"} =>
       /\ written = {}
       /\ pc = "read" =>
             /\ cbw.op = "read" /\ io.left > 0 /\ Len(sent) % Block = 0
             /\ io.off = Base + Len(sent) /\ io.left = Goal - Len(sent)
       /\ pc \in {"read", "halt"} => Len(sent) = Done
       /\ pc = "status" => Len(sent) >= Done
       /\ pc = "finish" =>
             /\ Full(fill) /\ Len(bh[fill].buf) = bh[fill].inlen
             /\ Len(sent) + bh[fill].inlen = Done
       /\ pc = "pad" =>
             /\ Len(sent) + fsg.left = cbw.size
             /\ IF io.keep > 0
                THEN Len(sent) + io.keep = Done /\ Empty(fill) /\ Len(bh[fill].buf) = io.keep
                ELSE Len(sent) >= Done
       /\ pc = "finish" \/ (pc = "pad" /\ io.keep > 0) =>
             \A k \in DOMAIN bh[fill].buf :
                /\ bh[fill].buf[k] \in Nat
                /\ cbw.op = "read" => bh[fill].buf[k] = Base + Len(sent) + k - 1
       /\ IF Len(sent) < Done THEN PaddedFrom(Len(sent)) ELSE PaddedFrom(Done)

\* The counters of a command that takes data, or none.
TakenSoFar ==
    cbw.dir # "in" /\ (pc \in CmdPcs \ {"scsi"} \/ exc = "abort") =>
       /\ sent = <<>> /\ written = Prefix(Done) /\ Done <= host.moved
       /\ pc = "write" =>
             /\ cbw.op = "write" /\ fsg.short = 0
             /\ io.off = Base + Done /\ io.left = Goal - Done
             /\ io.uoff = Base + Asked /\ io.uleft = Goal - Asked
             /\ Asked % Block = 0
             /\ io.more = 0 => io.uleft = 0 \/ ~Clean
       /\ pc = "finish" /\ fsg.short = 1 => Done = host.moved /\ host.phase # "data"
       /\ (pc = "finish" /\ fsg.short = 0) \/ pc = "throw" =>
             (Clean /\ cbw.op = "write" => Done = Sz)
       /\ pc = "status" => host.phase # "data"

\* The counters of any command, and what no fault means.
Counted ==
    pc \in CmdPcs \ {"scsi"} \/ exc = "abort" =>
       /\ fsg.residue <= cbw.size /\ fsg.left <= cbw.size
       /\ fsg.phase_error = 0 => ~Conflict(cbw) /\ Sz <= cbw.size
       /\ pc \in {"finish", "halt", "pad", "throw", "status", "exc"} /\ Clean =>
             /\ cbw.op = "read" => Done >= Sz
             /\ cbw.op = "write" => Done <= Sz /\ (Done = Sz \/ Done = host.moved)

\* A status that says "pass" is true.
Passed ==
    CswQueued /\ inq[Len(inq)].csw.status = "pass" =>
       /\ cbw.op = "read" => Len(sent) >= Sz
       /\ cbw.op = "write" => /\ cbw.dir # "in"
                              /\ Cardinality(written) = Least({Sz, host.moved})

Safe(pos) ==
    /\ Exceptions /\ Queues /\ Stages /\ Phases
    /\ InOrder(pos) /\ Tiled(pos) /\ Served(pos)
    /\ SentSoFar /\ TakenSoFar /\ Counted /\ Passed /\ DataInPlace

\* The tag the device has saved is the tag of the host's command, as long as an answer to
\* it may come.
Tagged == tag \in 0 .. MaxCmd /\ (pc \in CmdPcs \/ exc = "abort" => tag = host.tag)

IInv == Ranges /\ Tagged /\ \E pos \in [Heads -> Nat] : Safe(pos)

-----------------------------------------------------------------------------
(* Arithmetic.                                                             *)

\* Multiples of a positive number.
LEMMA DivMod ==
    ASSUME NEW x \in Nat, NEW b \in Nat \ {0}
    PROVE  /\ x % b \in 0 .. b - 1
           /\ x % b = 0 => \E q \in Nat : x = q * b
           /\ \E q \in Nat : q = x \div b /\ x = q * b + (x % b)
<1>1. x % b \in 0 .. b - 1
  BY SMT
<1>2. x \div b \in Nat /\ x = (x \div b) * b + (x % b)
  <2>1. x \div b \in Int /\ x = b * (x \div b) + (x % b)
    BY SMT
  <2>2. x \div b \in Nat
    BY <1>1, <2>1, SMT
  <2> QED
    BY <2>1, <2>2, SMT
<1>3. x % b = 0 => x = (x \div b) * b
  BY <1>2
<1> QED
  BY <1>1, <1>2, <1>3

\* A multiple leaves no remainder.
LEMMA Multiples ==
    ASSUME NEW q \in Nat, NEW b \in Nat \ {0}
    PROVE  (q * b) % b = 0
  BY SMT

\* The sum of two multiples is a multiple,
LEMMA ModSum ==
    ASSUME NEW x \in Nat, NEW y \in Nat, NEW b \in Nat \ {0}, x % b = 0, y % b = 0
    PROVE  (x + y) % b = 0
<1>1. PICK p \in Nat : x = p * b
  BY DivMod
<1>2. PICK q \in Nat : y = q * b
  BY DivMod
<1>3. x + y = (p + q) * b /\ p + q \in Nat
  BY <1>1, <1>2
<1> QED
  BY <1>3, Multiples

\* and so is their difference,
LEMMA ModDifference ==
    ASSUME NEW x \in Nat, NEW y \in Nat, NEW b \in Nat \ {0}, x % b = 0, y % b = 0, y <= x
    PROVE  (x - y) % b = 0
<1>1. PICK p \in Nat : x = p * b
  BY DivMod
<1>2. PICK q \in Nat : y = q * b
  BY DivMod
<1>3. q <= p
  BY <1>1, <1>2
<1>4. x - y = (p - q) * b /\ p - q \in Nat
  BY <1>1, <1>2, <1>3
<1> QED
  BY <1>4, Multiples

\* and so is the remainder of a multiple by a multiple.
LEMMA ModMod ==
    ASSUME NEW x \in Nat, NEW p \in Nat \ {0}, NEW b \in Nat \ {0}, x % b = 0, p % b = 0
    PROVE  (x % p) % b = 0
<1>1. PICK q \in Nat : x = q * p + (x % p)
  BY DivMod
<1>2. PICK r \in Nat : p = r * b
  BY DivMod
<1>3. x % p \in Nat
  BY DivMod
<1>4. PICK s \in Nat : s = q * r
  OBVIOUS
<1>5. q * p = s * b
  BY <1>2, <1>4
<1>6. PICK m \in Nat : m = s * b
  OBVIOUS
<1>7. x = m + (x % p)
  BY <1>1, <1>5, <1>6
<1>8. m % b = 0
  BY <1>6, Multiples
<1>9. x % p = x - m /\ m <= x
  BY <1>3, <1>7
<1>10. (x - m) % b = 0
  BY <1>8, <1>9, ModDifference
<1> QED
  BY <1>9, <1>10

\* The least of two or three numbers.
LEMMA LeastOfTwo ==
    ASSUME NEW a \in Int, NEW b \in Int
    PROVE  Least({a, b}) = IF a <= b THEN a ELSE b
<1>1. CASE a <= b
  <2>1. \A y \in {a, b} : a <= y
    BY <1>1
  <2>2. \A x \in {a, b} : (\A y \in {a, b} : x <= y) => x = a
    BY <1>1
  <2> QED
    BY <1>1, <2>1, <2>2 DEF Least
<1>2. CASE ~(a <= b)
  <2>1. \A y \in {a, b} : b <= y
    BY <1>2
  <2>2. \A x \in {a, b} : (\A y \in {a, b} : x <= y) => x = b
    BY <1>2
  <2> QED
    BY <1>2, <2>1, <2>2 DEF Least
<1> QED
  BY <1>1, <1>2

\* The least of three is one of them.
LEMMA LeastOfThree ==
    ASSUME NEW a \in Int, NEW b \in Int, NEW c \in Int
    PROVE  LET m == Least({a, b, c}) IN m \in {a, b, c} /\ m <= a /\ m <= b /\ m <= c
<1>1. \E x \in {a, b, c} : \A y \in {a, b, c} : x <= y
  <2>1. CASE a <= b /\ a <= c
    BY <2>1
  <2>2. CASE b <= a /\ b <= c
    BY <2>2
  <2>3. CASE c <= a /\ c <= b
    BY <2>3
  <2> QED
    BY <2>1, <2>2, <2>3
<1>2. Least({a, b, c}) \in {a, b, c} /\ \A y \in {a, b, c} : Least({a, b, c}) <= y
  BY <1>1 DEF Least
<1> QED
  BY <1>2

-----------------------------------------------------------------------------
(* Lengths.                                                                *)

\* A buffer is a whole number of pages, hence of blocks.
LEMMA Lengths ==
    /\ Block \in Nat \ {0} /\ Page \in Nat \ {0} /\ BufLen \in Nat /\ FileLen \in Nat
    /\ BufLen % Block = 0 /\ Page % Block = 0 /\ Block <= BufLen
<1>1. /\ Block \in Nat \ {0} /\ Page \in Nat \ {0} /\ BufLen \in Nat \ {0} /\ FileLen \in Nat
      /\ BufLen % Page = 0 /\ Page % Block = 0
  BY SizesAssumption
<1>2. PICK p \in Nat : BufLen = p * Page
  BY <1>1, DivMod
<1>3. PICK q \in Nat : Page = q * Block
  BY <1>1, DivMod
<1>4. PICK r \in Nat : r = p * q
  OBVIOUS
<1>5. BufLen = r * Block
  BY <1>1, <1>2, <1>3, <1>4
<1>6. BufLen % Block = 0
  BY <1>1, <1>5, Multiples
<1>7. r # 0
  BY <1>1, <1>5
<1>8. Block <= BufLen
  BY <1>1, <1>5, <1>7
<1> QED
  BY <1>1, <1>6, <1>8

\* What a command asks for.
LEMMA CommandSizes ==
    ASSUME NEW c \in Cbws \cup {NoCbw}
    PROVE  /\ c \in CbwType /\ c.size \in Nat /\ c.lba \in Nat /\ c.n \in Nat
           /\ c.lba * Block \in Nat /\ (c.lba * Block) % Block = 0
           /\ SizeFromCmnd(c) \in Nat
           /\ DataSize(c) \in Nat
           /\ DataSize(c) = IF SizeFromCmnd(c) <= c.size THEN SizeFromCmnd(c) ELSE c.size
           /\ c.op \in {"read", "write"} =>
                 SizeFromCmnd(c) % Block = 0 /\ SizeFromCmnd(c) <= c.n * Block
<1>1. c \in CbwType
  BY CbwsAssumption DEF NoCbw, CbwType, Ops
<1>2. c.size \in Nat /\ c.lba \in Nat /\ c.n \in Nat /\ c.op \in Ops
  BY <1>1 DEF CbwType
<1>3. Block \in Nat \ {0} /\ Wrap \in Nat \ {0} /\ Wrap % Block = 0
  BY SizesAssumption
<1>4. PICK m \in Nat : m = c.n * Block
  BY <1>2, <1>3
<1>5. c.lba * Block \in Nat /\ (c.lba * Block) % Block = 0 /\ m % Block = 0
  BY <1>2, <1>3, <1>4, Multiples
<1>6. m % Wrap \in Nat /\ m % Wrap <= m /\ (m % Wrap) % Block = 0
  <2>1. m % Wrap \in 0 .. Wrap - 1
    BY <1>3, DivMod
  <2>2. PICK q \in Nat : m = q * Wrap + (m % Wrap)
    BY <1>3, DivMod
  <2>3. PICK r \in Nat : r = q * Wrap
    BY <1>3
  <2>4. m % Wrap <= m
    BY <2>1, <2>2, <2>3, <1>3
  <2> QED
    <3>1. (m % Wrap) % Block = 0
      BY <1>3, <1>5, ModMod
    <3> QED
      BY <2>1, <2>4, <3>1
<1>7. c.op \in {"read", "write"} => SizeFromCmnd(c) = m % Wrap
  BY <1>4 DEF SizeFromCmnd
<1>8. c.op \notin {"read", "write"} => SizeFromCmnd(c) \in {c.n, 0}
  BY DEF SizeFromCmnd
<1>9. SizeFromCmnd(c) \in Nat
  BY <1>2, <1>6, <1>7, <1>8
<1>10. DataSize(c) = IF SizeFromCmnd(c) <= c.size THEN SizeFromCmnd(c) ELSE c.size
  BY <1>2, <1>9, LeastOfTwo DEF DataSize
<1> QED
  BY <1>1, <1>2, <1>4, <1>5, <1>6, <1>7, <1>9, <1>10

\* How much do_read and do_write move at once.
LEMMA AmountBounds ==
    ASSUME NEW left \in Nat, NEW off \in 0 .. FileLen
    PROVE  /\ Amount(left, off) \in Nat
           /\ Amount(left, off) <= left /\ Amount(left, off) <= BufLen
           /\ off + Amount(left, off) <= FileLen
           /\ \/ Amount(left, off) \in {left, BufLen, FileLen - off}
              \/ off % Page > 0 /\ Amount(left, off) = Page - (off % Page)
<1> DEFINE a == Least({left, BufLen, FileLen - off})
<1>1. BufLen \in Nat /\ FileLen \in Nat /\ FileLen - off \in Nat /\ off \in Nat
  BY Lengths
<1>2. a \in {left, BufLen, FileLen - off} /\ a <= left /\ a <= BufLen /\ a <= FileLen - off
  <2>1. left \in Int /\ BufLen \in Int /\ FileLen - off \in Int
    BY <1>1
  <2> QED
    BY <2>1, LeastOfThree
<1>3. a \in Nat
  BY <1>1, <1>2
<1>4. off % Page \in 0 .. Page - 1 /\ Page \in Nat
  BY <1>1, Lengths, DivMod
<1>5. Amount(left, off) = IF off % Page > 0 THEN Least({a, Page - (off % Page)}) ELSE a
  BY DEF Amount
<1> HIDE DEF a
<1>6. Least({a, Page - (off % Page)}) = IF a <= Page - (off % Page) THEN a ELSE Page - (off % Page)
  BY <1>3, <1>4, LeastOfTwo
<1> QED
  BY <1>1, <1>2, <1>3, <1>4, <1>5, <1>6

\* Only the last piece of a transfer may end inside a block.
LEMMA AmountWhole ==
    ASSUME NEW c \in Cbws, c.op \in {"read", "write"}, NEW x \in Nat, x % Block = 0,
           x <= DataSize(c), c.lba * Block + x <= FileLen,
           Amount(DataSize(c) - x, c.lba * Block + x) < DataSize(c) - x
    PROVE  Amount(DataSize(c) - x, c.lba * Block + x) % Block = 0
<1>1. /\ c.lba \in Nat /\ c.n \in Nat /\ DataSize(c) \in Nat
      /\ c.lba * Block \in Nat /\ (c.lba * Block) % Block = 0
      /\ DataSize(c) <= c.n * Block
  <2>1. PICK m \in Int : m = c.n * Block
    BY CommandSizes, Lengths
  <2>2. DataSize(c) <= m
    BY <2>1, CommandSizes
  <2> QED
    BY <2>1, <2>2, CommandSizes
<1>2. PICK base \in Nat : base = c.lba * Block
  BY <1>1
<1>3. PICK off \in Nat : off = base + x
  OBVIOUS
<1>4. PICK left \in Nat : left = DataSize(c) - x
  BY <1>1
<1>5. PICK am \in Nat : am = Amount(left, off)
  BY <1>2, <1>3, AmountBounds, Lengths
<1>6. /\ am < left
      /\ \/ am \in {left, BufLen, FileLen - off}
         \/ off % Page > 0 /\ am = Page - (off % Page)
  <2>1. off \in 0 .. FileLen
    BY <1>2, <1>3, Lengths
  <2>2. am < left
    BY <1>2, <1>3, <1>4, <1>5
  <2> QED
    BY <1>5, <2>1, <2>2, AmountBounds
<1>7. off % Block = 0
  BY <1>1, <1>2, <1>3, ModSum, Lengths
<1>8. CASE am = BufLen
  BY <1>8, <1>2, <1>3, <1>4, <1>5, Lengths
<1>9. CASE off % Page > 0 /\ am = Page - (off % Page)
  <2>1. off % Page \in 0 .. Page - 1 /\ (off % Page) % Block = 0
    BY <1>7, Lengths, DivMod, ModMod
  <2>2. (Page - (off % Page)) % Block = 0
    <3>1. off % Page \in Nat /\ off % Page <= Page /\ Page \in Nat
      BY <2>1, Lengths
    <3> QED
      BY <2>1, <3>1, Lengths, ModDifference
  <2> QED
    BY <1>9, <2>2, <1>2, <1>3, <1>4, <1>5
<1>10. CASE am = FileLen - off
  <2>1. FileLen % Block = 0
    <3>1. SUFFICES ASSUME FileLen % Block # 0 PROVE FALSE
      OBVIOUS
    <3>2. c.lba + c.n <= num_sectors
      BY <1>1, <3>1, OrdinaryAssumption, Lengths DEF Unusual, num_sectors
    <3>3. PICK q \in Nat : FileLen = q * Block + (FileLen % Block) /\ q = num_sectors
      BY Lengths, DivMod DEF num_sectors
    <3>4. PICK s \in Nat : s = c.lba + c.n /\ s <= q
      BY <1>1, <3>2, <3>3
    <3>5. s * Block <= q * Block
      BY <3>4, Lengths
    <3>6. s * Block = c.lba * Block + c.n * Block
      BY <1>1, <3>4, Lengths
    <3>7. PICK nb \in Nat : nb = c.n * Block
      BY <1>1, Lengths
    <3>8. PICK qb \in Nat : qb = q * Block
      BY Lengths
    <3>9. base + nb <= qb /\ qb <= FileLen
      <4>1. FileLen % Block \in Nat
        BY Lengths, DivMod
      <4>2. base + nb <= qb
        BY <1>2, <3>5, <3>6, <3>7, <3>8
      <4> QED
        BY <3>3, <3>8, <4>1, <4>2
    <3> QED
      BY <1>1, <1>2, <1>3, <1>4, <1>6, <1>10, <3>7, <3>9, Lengths
  <2>2. off <= FileLen
    BY <1>2, <1>3
  <2> QED
    <3>1. (FileLen - off) % Block = 0
      BY <1>7, <2>1, <2>2, Lengths, ModDifference
    <3> QED
      BY <1>10, <3>1, <1>2, <1>3, <1>4, <1>5
<1> QED
  BY <1>6, <1>8, <1>9, <1>10

\* A valid block address lies in the file.
LEMMA Inside ==
    ASSUME NEW l \in Nat, l < num_sectors
    PROVE  l * Block <= FileLen
  BY Lengths, SMT DEF num_sectors

\* The ring.
LEMMA Ring ==
    /\ \A b \in Heads : NextBh(b) \in Heads
    /\ \A b, c \in Heads : NextBh(b) = NextBh(c) => b = c
    /\ 0 \in Heads
  BY SizesAssumption DEF Heads, NextBh

-----------------------------------------------------------------------------
(* What the parts of an action do.                                         *)

\* What is sent: the buffer's contents, and junk behind them.
LEMMA PayloadIs ==
    ASSUME NEW len \in Nat, NEW d \in Seq(Int)
    PROVE  /\ Payload(len, d) \in Seq(Int) /\ Len(Payload(len, d)) = len
           /\ \A k \in 1 .. len : Payload(len, d)[k] = IF k <= Len(d) THEN d[k] ELSE Junk
           /\ Len(d) = len => Payload(len, d) = d
<1>1. Payload(len, d) = [k \in 1 .. len |-> IF k <= Len(d) THEN d[k] ELSE Junk]
  BY DEF Payload
<1>2. \A k \in 1 .. len : (IF k <= Len(d) THEN d[k] ELSE Junk) \in Int
  BY DEF Junk
<1>3. Payload(len, d) \in Seq(Int) /\ Len(Payload(len, d)) = len
  BY <1>1, <1>2
<1>4. ASSUME Len(d) = len PROVE Payload(len, d) = d
  <2>1. d = [k \in 1 .. len |-> d[k]]
    BY <1>4
  <2>2. \A k \in 1 .. len : (IF k <= Len(d) THEN d[k] ELSE Junk) = d[k]
    BY <1>4
  <2> QED
    BY <1>1, <2>1, <2>2
<1> QED
  BY <1>1, <1>3, <1>4

\* A transfer to the host is queued and recorded.
LEMMA Sends ==
    ASSUME Ranges, NEW len \in 0 .. BufLen, NEW d \in Seq(Int), NEW zero \in {0, 1},
           SendData(len, d, zero)
    PROVE  /\ bh' \in [Heads -> BhType] /\ inq' \in Seq(InType) /\ fill' = NextBh(fill)
           /\ fill' \in Heads /\ sent' \in Seq(Int) /\ UNCHANGED <<outq, halted, written>>
           /\ \A b \in Heads : b # fill => bh'[b] = bh[b]
           /\ bh'[fill].state = "BUSY" /\ bh'[fill].want = bh[fill].want
           /\ Len(inq') = Len(inq) + 1
           /\ \A i \in 1 .. Len(inq) : inq'[i] = inq[i]
           /\ inq'[Len(inq) + 1].b = fill /\ inq'[Len(inq) + 1].kind = "data"
           /\ inq'[Len(inq) + 1].zero = zero /\ Len(inq'[Len(inq) + 1].data) = len
           /\ inq'[Len(inq) + 1].data \in Seq(Int)
           /\ Len(sent') = Len(sent) + len
           /\ \A k \in 1 .. Len(sent) : sent'[k] = sent[k]
           /\ \A k \in 1 .. len : sent'[Len(sent) + k] = IF k <= Len(d) THEN d[k] ELSE Junk
<1> DEFINE t == [b |-> fill, kind |-> "data", data |-> Payload(len, d), zero |-> zero, csw |-> NoCsw]
<1>1. len \in Nat /\ Payload(len, d) \in Seq(Int) /\ Len(Payload(len, d)) = len
      /\ \A k \in 1 .. len : Payload(len, d)[k] = IF k <= Len(d) THEN d[k] ELSE Junk
  <2>1. len \in Nat
    BY Lengths
  <2> QED
    BY <2>1, PayloadIs
<1>2. t \in InType
  BY <1>1 DEF Ranges, InType, CswType, NoCsw
<1>3. inq' = Append(inq, t)
  BY DEF SendData
<1>4. /\ inq' \in Seq(InType) /\ Len(inq') = Len(inq) + 1 /\ inq'[Len(inq) + 1] = t
      /\ \A i \in 1 .. Len(inq) : inq'[i] = inq[i]
  <2> HIDE DEF t
  <2> QED
    BY <1>2, <1>3 DEF Ranges
<1>5. bh' = [bh EXCEPT ![fill].state = "BUSY", ![fill].inlen = len, ![fill].buf = <<>>]
  BY DEF SendData
<1>6. bh' \in [Heads -> BhType] /\ bh'[fill].state = "BUSY" /\ bh'[fill].want = bh[fill].want
      /\ \A b \in Heads : b # fill => bh'[b] = bh[b]
  <2> DEFINE r == [bh[fill] EXCEPT !.state = "BUSY", !.inlen = len, !.buf = <<>>]
  <2>1. bh \in [Heads -> BhType] /\ fill \in Heads /\ bh[fill] \in BhType /\ <<>> \in Seq(Int)
    BY Ring DEF Ranges
  <2>2. bh' = [bh EXCEPT ![fill] = r]
    BY <1>5, <2>1
  <2>3. r \in BhType /\ r.state = "BUSY" /\ r.want = bh[fill].want
    BY <2>1 DEF BhType
  <2> HIDE DEF r
  <2> QED
    BY <2>1, <2>2, <2>3
<1>7. sent' = sent \o Payload(len, d)
  BY DEF SendData
<1>8. /\ sent' \in Seq(Int) /\ Len(sent') = Len(sent) + len
      /\ \A k \in 1 .. Len(sent) : sent'[k] = sent[k]
      /\ \A k \in 1 .. len : sent'[Len(sent) + k] = Payload(len, d)[k]
  <2> DEFINE t2 == Payload(len, d)
  <2>1. t2 \in Seq(Int) /\ Len(t2) = len /\ sent \in Seq(Int) /\ sent' = sent \o t2
    BY <1>1, <1>7 DEF Ranges
  <2> HIDE DEF t2
  <2>2. /\ sent' \in Seq(Int) /\ Len(sent') = Len(sent) + len
        /\ \A k \in 1 .. Len(sent) : sent'[k] = sent[k]
    BY <2>1
  <2>3. \A k \in 1 .. len : sent'[Len(sent) + k] = t2[k]
    BY <2>1
  <2> QED
    BY <2>2, <2>3 DEF t2
<1>9. fill' = NextBh(fill) /\ fill' \in Heads /\ UNCHANGED <<outq, halted, written>>
  BY Ring DEF SendData, Ranges
<1>10. t.b = fill /\ t.kind = "data" /\ t.zero = zero /\ t.data = Payload(len, d)
  OBVIOUS
<1> HIDE DEF t
<1> QED
  BY <1>1, <1>4, <1>6, <1>8, <1>9, <1>10

\* A transfer from the host is queued.
LEMMA QueuesOut ==
    ASSUME Ranges, NEW amount \in 0 .. BufLen, NEW want \in {"cbw", "data"}, QueueOut(amount, want)
    PROVE  /\ bh' \in [Heads -> BhType] /\ outq' \in Seq(Heads) /\ UNCHANGED <<inq, halted>>
           /\ \A b \in Heads : b # fill => bh'[b] = bh[b]
           /\ bh'[fill].state = "BUSY" /\ bh'[fill].want = want /\ bh'[fill].outlen = amount
           /\ bh'[fill].buf = bh[fill].buf /\ bh'[fill].err = bh[fill].err
           /\ Len(outq') = Len(outq) + 1 /\ outq' = Append(outq, fill)
           /\ \A i \in 1 .. Len(outq) : outq'[i] = outq[i]
           /\ outq'[Len(outq) + 1] = fill
<1>1. bh' = [bh EXCEPT ![fill].state = "BUSY", ![fill].outlen = amount, ![fill].want = want]
  BY DEF QueueOut
<1>2. outq' = Append(outq, fill) /\ UNCHANGED <<inq, halted>>
  BY DEF QueueOut
<1>3. /\ bh' \in [Heads -> BhType]
      /\ \A b \in Heads : b # fill => bh'[b] = bh[b]
      /\ bh'[fill].state = "BUSY" /\ bh'[fill].want = want /\ bh'[fill].outlen = amount
      /\ bh'[fill].buf = bh[fill].buf /\ bh'[fill].err = bh[fill].err
  <2> DEFINE r == [bh[fill] EXCEPT !.state = "BUSY", !.outlen = amount, !.want = want]
  <2>1. bh \in [Heads -> BhType] /\ fill \in Heads /\ bh[fill] \in BhType /\ <<>> \in Seq(Int)
    BY Ring DEF Ranges
  <2>2. bh' = [bh EXCEPT ![fill] = r]
    BY <1>1, <2>1
  <2>3. r \in BhType /\ r.state = "BUSY" /\ r.want = want /\ r.outlen = amount
        /\ r.buf = bh[fill].buf /\ r.err = bh[fill].err
    BY <2>1 DEF BhType
  <2> HIDE DEF r
  <2> QED
    BY <2>1, <2>2, <2>3
<1> QED
  BY <1>2, <1>3 DEF Ranges

\* A reply is put into the buffer.
LEMMA Replied ==
    ASSUME Ranges, NEW len \in 0 .. BufLen, NEW d \in Seq(Int), Reply(len, d)
    PROVE  /\ bh' \in [Heads -> BhType]
           /\ \A b \in Heads : b # fill => bh'[b] = bh[b]
           /\ bh'[fill].state = "FULL" /\ bh'[fill].want = bh[fill].want
           /\ bh'[fill].inlen = len /\ bh'[fill].buf = d
<1>1. bh' = [bh EXCEPT ![fill].state = "FULL", ![fill].inlen = len, ![fill].buf = d]
  BY DEF Reply
<1> QED
  <2> DEFINE r == [bh[fill] EXCEPT !.state = "FULL", !.inlen = len, !.buf = d]
  <2>1. bh \in [Heads -> BhType] /\ fill \in Heads /\ bh[fill] \in BhType /\ <<>> \in Seq(Int)
    BY Ring DEF Ranges
  <2>2. bh' = [bh EXCEPT ![fill] = r]
    BY <1>1, <2>1
  <2>3. r \in BhType /\ r.state = "FULL" /\ r.want = bh[fill].want
        /\ r.inlen = len /\ r.buf = d
    BY <2>1 DEF BhType
  <2> HIDE DEF r
  <2> QED
    BY <2>1, <2>2, <2>3

\* The next received buffer is taken.
LEMMA Drains ==
    ASSUME Ranges, bh' = Drained, drain' = NextBh(drain)
    PROVE  /\ bh' \in [Heads -> BhType] /\ drain' \in Heads
           /\ \A b \in Heads : b # drain => bh'[b] = bh[b]
           /\ bh'[drain].state = "EMPTY" /\ bh'[drain].want = "none"
<1>1. bh' = [bh EXCEPT ![drain].state = "EMPTY", ![drain].buf = <<>>, ![drain].want = "none"]
  BY DEF Drained
<1>2. drain' \in Heads
  BY Ring DEF Ranges
<1> QED
  <2> DEFINE r == [bh[drain] EXCEPT !.state = "EMPTY", !.buf = <<>>, !.want = "none"]
  <2>1. bh \in [Heads -> BhType] /\ drain \in Heads /\ bh[drain] \in BhType /\ <<>> \in Seq(Int)
    BY Ring DEF Ranges
  <2>2. bh' = [bh EXCEPT ![drain] = r]
    BY <1>1, <2>1
  <2>3. r \in BhType /\ r.state = "EMPTY" /\ r.want = "none"
    BY <2>1 DEF BhType
  <2> HIDE DEF r
  <2> QED
    BY <1>2, <2>1, <2>2, <2>3

\* A transfer from the host finishes.
LEMMA OutFinishes ==
    ASSUME Ranges, outq # <<>>, NEW d \in Seq(Int), Len(d) <= BufLen, NEW err \in {0, 1},
           OutDone(d, err)
    PROVE  /\ bh' \in [Heads -> BhType] /\ outq' \in Seq(Heads) /\ UNCHANGED <<inq, halted>>
           /\ outq[1] \in Heads
           /\ \A b \in Heads : b # outq[1] => bh'[b] = bh[b]
           /\ bh'[outq[1]].state = "FULL" /\ bh'[outq[1]].want = bh[outq[1]].want
           /\ bh'[outq[1]].buf = d /\ bh'[outq[1]].act = Len(d) /\ bh'[outq[1]].err = err
           /\ bh'[outq[1]].outlen = bh[outq[1]].outlen
           /\ Len(outq') = Len(outq) - 1
           /\ \A i \in 1 .. Len(outq) - 1 : outq'[i] = outq[i + 1]
<1>1. outq[1] \in Heads /\ Head(outq) = outq[1]
  BY DEF Ranges
<1>2. bh' = [bh EXCEPT ![outq[1]].state = "FULL", ![outq[1]].buf = d, ![outq[1]].act = Len(d),
                       ![outq[1]].err = err]
  BY <1>1 DEF OutDone
<1>3. outq' = Tail(outq) /\ UNCHANGED <<inq, halted>>
  BY DEF OutDone
<1>4. Len(d) \in 0 .. BufLen
  BY Lengths
<1>5. /\ bh' \in [Heads -> BhType]
      /\ \A b \in Heads : b # outq[1] => bh'[b] = bh[b]
      /\ bh'[outq[1]].state = "FULL" /\ bh'[outq[1]].want = bh[outq[1]].want
      /\ bh'[outq[1]].buf = d /\ bh'[outq[1]].act = Len(d) /\ bh'[outq[1]].err = err
      /\ bh'[outq[1]].outlen = bh[outq[1]].outlen
  <2> DEFINE r == [bh[outq[1]] EXCEPT !.state = "FULL", !.buf = d, !.act = Len(d), !.err = err]
  <2>1. bh \in [Heads -> BhType] /\ outq[1] \in Heads /\ bh[outq[1]] \in BhType /\ <<>> \in Seq(Int)
    BY <1>1, Ring DEF Ranges
  <2>2. bh' = [bh EXCEPT ![outq[1]] = r]
    BY <1>1, <1>2, <1>4, <2>1
  <2>3. r \in BhType /\ r.state = "FULL" /\ r.want = bh[outq[1]].want
        /\ r.buf = d /\ r.act = Len(d) /\ r.err = err /\ r.outlen = bh[outq[1]].outlen
    BY <1>4, <2>1 DEF BhType
  <2> HIDE DEF r
  <2> QED
    BY <2>1, <2>2, <2>3
<1>6. UNCHANGED <<inq, halted>>
  BY DEF OutDone
<1>7. outq' \in Seq(Heads) /\ Len(outq') = Len(outq) - 1
      /\ \A i \in 1 .. Len(outq) - 1 : outq'[i] = outq[i + 1]
  BY <1>3 DEF Ranges
<1> QED
  BY <1>1, <1>5, <1>6, <1>7

\* A transfer to the host finishes.
LEMMA InFinishes ==
    ASSUME Ranges, inq # <<>>, InDone
    PROVE  /\ bh' \in [Heads -> BhType] /\ inq' \in Seq(InType) /\ UNCHANGED <<outq, halted>>
           /\ inq[1] \in InType /\ inq[1].b \in Heads /\ Head(inq) = inq[1]
           /\ \A b \in Heads : b # inq[1].b => bh'[b] = bh[b]
           /\ bh'[inq[1].b].state = "EMPTY" /\ bh'[inq[1].b].want = bh[inq[1].b].want
           /\ bh'[inq[1].b].buf = bh[inq[1].b].buf
           /\ Len(inq') = Len(inq) - 1
           /\ \A i \in 1 .. Len(inq) - 1 : inq'[i] = inq[i + 1]
<1>1. inq[1] \in InType /\ Head(inq) = inq[1]
  BY DEF Ranges
<1>2. inq[1].b \in Heads
  BY <1>1 DEF InType
<1>3. bh' = [bh EXCEPT ![inq[1].b].state = "EMPTY"]
  BY <1>1 DEF InDone
<1>4. inq' = Tail(inq) /\ UNCHANGED <<outq, halted>>
  BY DEF InDone
<1>5. /\ bh' \in [Heads -> BhType]
      /\ \A b \in Heads : b # inq[1].b => bh'[b] = bh[b]
      /\ bh'[inq[1].b].state = "EMPTY" /\ bh'[inq[1].b].want = bh[inq[1].b].want
      /\ bh'[inq[1].b].buf = bh[inq[1].b].buf
  <2> DEFINE r == [bh[inq[1].b] EXCEPT !.state = "EMPTY"]
  <2>1. bh \in [Heads -> BhType] /\ inq[1].b \in Heads /\ bh[inq[1].b] \in BhType /\ <<>> \in Seq(Int)
    BY <1>2, Ring DEF Ranges
  <2>2. bh' = [bh EXCEPT ![inq[1].b] = r]
    BY <1>2, <1>3, <2>1
  <2>3. r \in BhType /\ r.state = "EMPTY" /\ r.want = bh[inq[1].b].want
        /\ r.buf = bh[inq[1].b].buf
    BY <2>1 DEF BhType
  <2> HIDE DEF r
  <2> QED
    BY <2>1, <2>2, <2>3
<1>6. inq' \in Seq(InType) /\ Len(inq') = Len(inq) - 1
      /\ \A i \in 1 .. Len(inq) - 1 : inq'[i] = inq[i + 1]
  BY <1>4 DEF Ranges
<1> QED
  BY <1>1, <1>2, <1>4, <1>5, <1>6

-----------------------------------------------------------------------------
(* The three outcomes of do_scsi_command before any data has moved.        *)

\* A reply waits in the buffer for a host that expects data.
Answers ==
    /\ pc' = "finish" /\ cbw.dir = "in"
    /\ \E n \in 0 .. BufLen :
          /\ n <= cbw.size /\ fsg'.residue = cbw.size - n
          /\ Reply(n, [k \in 1 .. n |-> k - 1])
          /\ cbw.op = "read" => n = 0
    /\ fsg'.phase_error = 0 /\ fsg'.sense = 0 => cbw.op \notin {"read", "write"}

\* The host expects no data.
Refrains ==
    /\ pc' = "finish" /\ cbw.dir # "in"
    /\ fsg'.residue = cbw.size /\ UNCHANGED bh
    /\ fsg'.phase_error = 0 /\ fsg'.sense = 0 /\ cbw.op \in {"read", "write"} => Sz = 0

\* Data is going to move.
Moves ==
    /\ \/ pc' = "read" /\ cbw.op = "read" /\ cbw.dir = "in"
       \/ pc' = "write" /\ cbw.op = "write" /\ cbw.dir = "out"
    /\ cbw.lba < num_sectors /\ Goal > 0
    /\ fsg'.residue = cbw.size /\ UNCHANGED bh
    /\ io' = [off |-> Base, left |-> Goal, uoff |-> Base, uleft |-> Goal, more |-> 1, keep |-> 0]
    /\ fsg'.sense = 0

\* do_scsi_command sets the counters and ends in one of the three outcomes.
LEMMA Dispatch ==
    ASSUME Ranges, cbw \in Cbws, DoScsiCommand
    PROVE  /\ pc = "scsi" /\ Empty(fill) /\ drain' = fill
           /\ UNCHANGED <<fill, QUEUES, ignore, exc, ASIDE, UNITS>>
           /\ fsg' \in FsgType /\ io' \in IoType
           /\ fsg'.left = cbw.size /\ fsg'.short = 0
           /\ fsg'.phase_error = 0 => ~Conflict(cbw) /\ Sz <= cbw.size
           /\ Answers \/ Refrains \/ Moves
<1>1. pc = "scsi" /\ Empty(fill) /\ drain' = fill
      /\ UNCHANGED <<fill, QUEUES, ignore, exc, ASIDE, UNITS>>
  BY DEF DoScsiCommand
<1>2. /\ cbw \in CbwType /\ cbw.size \in Nat /\ cbw.lba \in Nat /\ cbw.n \in Nat
      /\ Sz \in Nat /\ Goal \in Nat /\ Base \in Nat
      /\ Goal = IF Sz <= cbw.size THEN Sz ELSE cbw.size
  BY CommandSizes DEF Sz, Goal, Base
<1>3. cbw.size = 0 <=> cbw.dir = "none"
  BY CbwsAssumption
<1>4. fsg \in FsgType /\ io \in IoType
  BY DEF Ranges
<1>5. ASSUME NEW fault \in {"none", "phase", "sense"}
      PROVE  LET f == CheckedCommand(cbw, fault) IN
             /\ f \in FsgType /\ f.residue = cbw.size /\ f.left = cbw.size /\ f.short = 0
             /\ f.phase_error = 0 => fault # "phase" /\ Sz <= cbw.size
             /\ f.sense = 0 => fault # "sense"
             /\ fault = "none" => f.sense = 0
  BY <1>2, <1>4 DEF CheckedCommand, FsgType, Sz
<1>6. ASSUME NEW len \in 0 .. BufLen, NEW fault \in {"none", "phase", "sense"},
             Replies(cbw, len, fault),
             fault = "phase" \/ ~Conflict(cbw),
             cbw.op = "read" => len = 0,
             cbw.op \in {"read", "write"} => fault # "none"
      PROVE  /\ fsg' \in FsgType /\ io' \in IoType
             /\ fsg'.left = cbw.size /\ fsg'.short = 0
             /\ fsg'.phase_error = 0 => ~Conflict(cbw) /\ Sz <= cbw.size
             /\ Answers \/ Refrains
  <2> DEFINE n == Least({len, DataSize(cbw)})
             f == CheckedCommand(cbw, fault)
  <2>1. n \in 0 .. BufLen /\ n <= cbw.size /\ n <= len
    <3>1. len \in Int /\ DataSize(cbw) \in Int /\ BufLen \in Nat
      BY <1>2, Lengths DEF Goal
    <3>2. n = IF len <= DataSize(cbw) THEN len ELSE DataSize(cbw)
      BY <3>1, LeastOfTwo
    <3> QED
      BY <1>2, <3>1, <3>2 DEF Goal
  <2>2. /\ f \in FsgType /\ f.residue = cbw.size /\ f.left = cbw.size /\ f.short = 0
        /\ f.phase_error = 0 => fault # "phase" /\ Sz <= cbw.size
        /\ f.sense = 0 => fault # "sense"
    BY <1>5
  <2>3. pc' = "finish" /\ io' = io
    BY <1>6 DEF Replies
  <2>4. CASE cbw.dir = "in"
    <3>1. Reply(n, [k \in 1 .. n |-> k - 1]) /\ fsg' = [f EXCEPT !.residue = f.residue - n]
      BY <1>6, <2>4 DEF Replies
    <3> HIDE DEF n, f
    <3>2. fsg' \in FsgType /\ fsg'.residue = cbw.size - n /\ fsg'.left = cbw.size /\ fsg'.short = 0
          /\ fsg'.phase_error = f.phase_error /\ fsg'.sense = f.sense
      BY <1>2, <2>1, <2>2, <3>1 DEF FsgType
    <3>3. cbw.op = "read" => n = 0
      BY <1>6, <2>1
    <3>4. fsg'.phase_error = 0 /\ fsg'.sense = 0 => cbw.op \notin {"read", "write"}
      BY <1>6, <2>2, <3>2
    <3>5. Answers
      BY <2>1, <2>3, <2>4, <3>1, <3>2, <3>3, <3>4 DEF Answers
    <3> QED
      BY <1>4, <1>6, <2>2, <2>3, <3>2, <3>5
  <2>5. CASE cbw.dir # "in"
    <3>1. fsg' = f /\ UNCHANGED bh
      BY <1>6, <2>5 DEF Replies
    <3> HIDE DEF n, f
    <3>2. fsg'.phase_error = 0 /\ fsg'.sense = 0 => cbw.op \notin {"read", "write"}
      BY <1>6, <2>2, <3>1
    <3>3. Refrains
      BY <2>2, <2>3, <2>5, <3>1, <3>2 DEF Refrains
    <3> QED
      BY <1>4, <1>6, <2>2, <2>3, <3>1, <3>3
  <2> QED
    BY <2>4, <2>5
<1>7. ASSUME NEW to \in {"finish", "read", "write"}, Starts(cbw, to), ~Conflict(cbw),
             cbw.lba < num_sectors,
             cbw.op \in {"read", "write"} \/ (cbw.op = "verify" /\ cbw.n = 0),
             to = "finish" /\ cbw.op \in {"read", "write"} => Goal = 0,
             to # "finish" => to = cbw.op /\ Goal > 0
      PROVE  /\ fsg' \in FsgType /\ io' \in IoType
             /\ fsg'.left = cbw.size /\ fsg'.short = 0
             /\ fsg'.phase_error = 0 => ~Conflict(cbw) /\ Sz <= cbw.size
             /\ Refrains \/ Moves
  <2>1. /\ fsg' \in FsgType /\ fsg'.residue = cbw.size /\ fsg'.left = cbw.size /\ fsg'.short = 0
        /\ fsg'.phase_error = 0 => Sz <= cbw.size
        /\ fsg'.sense = 0
    BY <1>5, <1>7 DEF Starts
  <2>2. io' = [off |-> Base, left |-> Goal, uoff |-> Base, uleft |-> Goal, more |-> 1, keep |-> 0]
    BY <1>7 DEF Starts, Base, Goal
  <2>3. io' \in IoType
    <3>1. Base \in 0 .. FileLen
      BY <1>2, <1>7, Inside, Lengths DEF Base
    <3>2. 0 \in 0 .. BufLen
      BY Lengths
    <3> QED
      BY <1>2, <2>2, <3>1, <3>2 DEF IoType
  <2>4. pc' = to /\ UNCHANGED bh
    BY <1>7 DEF Starts
  <2>5. CASE to = "finish"
    <3>1. cbw.dir # "in"
      <4>1. SUFFICES ASSUME cbw.dir = "in" PROVE Unusual(cbw)
        BY OrdinaryAssumption
      <4>2. CASE cbw.op = "verify"
        BY <1>7, <4>1, <4>2 DEF Unusual
      <4>3. CASE cbw.op \in {"read", "write"}
        <5>1. Sz = 0
          BY <1>2, <1>3, <1>7, <2>5, <4>1, <4>3
        <5> QED
          BY <4>1, <4>3, <5>1 DEF Unusual, Sz
      <4> QED
        BY <1>7, <4>2, <4>3
    <3>2. fsg'.phase_error = 0 /\ cbw.op \in {"read", "write"} => Sz = 0
      BY <1>2, <1>7, <2>1, <2>5
    <3> QED
      BY <1>7, <2>1, <2>3, <2>4, <2>5, <3>1, <3>2 DEF Refrains
  <2>6. CASE to # "finish"
    <3>1. cbw.dir = DirFromCmnd(cbw) /\ Sz > 0
      BY <1>2, <1>7, <2>6 DEF Conflict, Goal
    <3>2. cbw.dir = IF cbw.op = "read" THEN "in" ELSE "out"
      BY <1>7, <2>6, <3>1 DEF DirFromCmnd, Sz
    <3> QED
      BY <1>7, <2>1, <2>2, <2>3, <2>4, <2>6, <3>2 DEF Moves
  <2> QED
    BY <2>5, <2>6
<1>8. 0 \in 0 .. BufLen /\ ReplyLen \in 0 .. BufLen
  BY SizesAssumption
<1>9. CASE Conflict(cbw) /\ Replies(cbw, 0, "phase")
  BY <1>1, <1>6, <1>8, <1>9
<1>10. CASE ~Conflict(cbw) /\ \E fault \in {"phase", "sense"} : Replies(cbw, 0, fault)
  BY <1>1, <1>6, <1>8, <1>10
<1>11. CASE ~Conflict(cbw) /\ cbw.op = "read" /\ DoRead(cbw)
  <2>1. CASE cbw.lba >= num_sectors
    BY <1>1, <1>6, <1>8, <1>11, <2>1 DEF DoRead
  <2>2. CASE ~(cbw.lba >= num_sectors)
    <3>1. cbw.lba < num_sectors
      BY <1>2, <2>2, Lengths, DivMod DEF num_sectors
    <3>2. Starts(cbw, IF Goal = 0 THEN "finish" ELSE "read")
      BY <1>11, <2>2 DEF DoRead, Goal
    <3> QED
      BY <1>1, <1>2, <1>7, <1>11, <3>1, <3>2
  <2> QED
    BY <2>1, <2>2
<1>12. CASE ~Conflict(cbw) /\ cbw.op = "write" /\ DoWrite(cbw)
  <2>1. CASE cbw.lba >= num_sectors
    BY <1>1, <1>6, <1>8, <1>12, <2>1 DEF DoWrite
  <2>2. CASE ~(cbw.lba >= num_sectors)
    <3>1. cbw.lba < num_sectors
      BY <1>2, <2>2, Lengths, DivMod DEF num_sectors
    <3>2. Starts(cbw, IF Goal = 0 THEN "finish" ELSE "write")
      BY <1>12, <2>2 DEF DoWrite, Goal
    <3> QED
      BY <1>1, <1>2, <1>7, <1>12, <3>1, <3>2
  <2> QED
    BY <2>1, <2>2
<1>13. CASE ~Conflict(cbw) /\ cbw.op = "verify" /\ DoVerify(cbw)
  <2>1. CASE cbw.lba < num_sectors /\ cbw.n = 0
    <3>1. Starts(cbw, "finish")
      BY <1>13, <2>1 DEF DoVerify
    <3> QED
      BY <1>1, <1>7, <1>13, <2>1, <3>1
  <2>2. CASE ~(cbw.lba < num_sectors /\ cbw.n = 0)
    <3>1. Replies(cbw, 0, "none") \/ Replies(cbw, 0, "sense")
      BY <1>13, <2>2 DEF DoVerify
    <3> QED
      BY <1>1, <1>6, <1>8, <1>13, <3>1
  <2> QED
    BY <2>1, <2>2
<1>14. CASE ~Conflict(cbw) /\ cbw.op = "reply" /\ DoInquiry(cbw)
  BY <1>1, <1>6, <1>8, <1>14 DEF DoInquiry
<1>15. CASE ~Conflict(cbw) /\ cbw.op = "select" /\ DoModeSelect(cbw)
  BY <1>1, <1>6, <1>8, <1>15 DEF DoModeSelect
<1>16. CASE ~Conflict(cbw) /\ cbw.op = "other" /\ Replies(cbw, 0, "none")
  BY <1>1, <1>6, <1>8, <1>16
<1> QED
  BY <1>9, <1>10, <1>11, <1>12, <1>13, <1>14, <1>15, <1>16 DEF DoScsiCommand

-----------------------------------------------------------------------------
(* The rounds of do_read and do_write.                                     *)

\* The numbers of the current command.
LEMMA Numbers ==
    ASSUME Ranges
    PROVE  /\ cbw \in CbwType /\ cbw.size \in Nat /\ Base \in Nat /\ Base % Block = 0
           /\ Sz \in Nat /\ Goal \in Nat /\ Goal <= cbw.size /\ Goal <= Sz
           /\ Sz <= cbw.size => Goal = Sz
           /\ Done \in Int /\ Asked \in Int
           /\ fsg.residue \in Nat /\ fsg.left \in Nat /\ host.moved \in Nat
           /\ io.off \in 0 .. FileLen /\ io.uoff \in 0 .. FileLen /\ io.left \in Nat
           /\ io.uleft \in Nat /\ io.keep \in 0 .. BufLen
           /\ cbw.op \in {"read", "write"} => Sz % Block = 0
<1>1. /\ cbw \in CbwType /\ cbw.size \in Nat /\ Base \in Nat /\ Base % Block = 0
      /\ Sz \in Nat /\ Goal \in Nat
      /\ Goal = IF Sz <= cbw.size THEN Sz ELSE cbw.size
      /\ cbw.op \in {"read", "write"} => Sz % Block = 0
  BY CommandSizes DEF Ranges, Sz, Goal, Base
<1>2. /\ fsg.residue \in Nat /\ fsg.left \in Nat /\ host.moved \in Nat
      /\ io.off \in 0 .. FileLen /\ io.uoff \in 0 .. FileLen /\ io.left \in Nat
      /\ io.uleft \in Nat /\ io.keep \in 0 .. BufLen
  BY DEF Ranges, FsgType, IoType, HostType
<1>3. Done \in Int /\ Asked \in Int
  BY <1>1, <1>2 DEF Done, Asked
<1> QED
  BY <1>1, <1>2, <1>3

\* What vfs_read or vfs_write may achieve.
LEMMA FileIORange ==
    ASSUME NEW a \in Nat, NEW n \in FileIO(a)
    PROVE  n \in 0 .. a
  BY DEF FileIO

\* A piece of n units was read, the last one, ...
ReadsLast(n) ==
    /\ pc' = "finish" /\ Reply(n, [k \in 1 .. n |-> io.off + k - 1])
    /\ UNCHANGED <<fill, QUEUES, UNITS>>
    /\ fsg'.sense = 0 => n = io.left

\* ... or one of several.
ReadsMore(n) ==
    /\ pc' = "read" /\ SendData(n, [k \in 1 .. n |-> io.off + k - 1], 0)
    /\ n > 0 /\ n < io.left /\ n % Block = 0 /\ fsg'.sense = fsg.sense

\* A round of do_read fails, leaves the last piece in its buffer, or sends one and goes on.
LEMMA Reads ==
    ASSUME Ranges, Stages, SentSoFar, Counted, ReadChunk
    PROVE  /\ pc = "read" /\ Empty(fill) /\ UNCHANGED <<drain, ignore, exc, ASIDE>>
           /\ \/ exc # "none" /\ pc' = "exc" /\ UNCHANGED <<bh, fill, QUEUES, fsg, io, UNITS>>
              \/ \E n \in 0 .. BufLen :
                    /\ n <= io.left /\ io.off + n <= FileLen /\ n <= fsg.residue
                    /\ io' \in IoType /\ fsg' \in FsgType
                    /\ io'.off = io.off + n /\ io'.left = io.left - n
                    /\ fsg'.residue = fsg.residue - n /\ fsg'.left = fsg.left
                    /\ fsg'.phase_error = fsg.phase_error
                    /\ ReadsLast(n) \/ ReadsMore(n)
<1>1. pc = "read" /\ Empty(fill) /\ UNCHANGED <<drain, ignore, exc, ASIDE>>
  BY DEF ReadChunk
<1>2. /\ cbw \in Cbws /\ cbw.dir = "in" /\ cbw.op = "read" /\ io.off = Base + Len(sent)
      /\ io.left = Goal - Len(sent) /\ Len(sent) = Done /\ Len(sent) % Block = 0
      /\ io.left > 0 /\ Len(sent) \in Nat
  BY <1>1 DEF Stages, SentSoFar, CmdPcs, Ranges
<1>3. PICK amount : amount = Amount(io.left, io.off)
  OBVIOUS
<1>4. amount \in Nat /\ amount <= io.left /\ amount <= BufLen /\ io.off + amount <= FileLen
  BY <1>3, AmountBounds, Numbers
<1>5. amount < io.left => amount % Block = 0
  <2>1. Len(sent) \in Nat /\ Len(sent) <= DataSize(cbw) /\ cbw.lba * Block + Len(sent) <= FileLen
        /\ cbw.lba * Block \in Nat /\ FileLen \in Nat
    BY <1>2, Numbers, Lengths DEF Goal, Base
  <2>2. amount = Amount(DataSize(cbw) - Len(sent), cbw.lba * Block + Len(sent))
    BY <1>2, <1>3 DEF Goal, Base
  <2> QED
    BY <1>2, <2>1, <2>2, AmountWhole DEF Goal
<1>6. PICK n \in FileIO(amount) :
         IF amount > 0 /\ exc # "none"
         THEN pc' = "exc" /\ UNCHANGED <<bh, fill, QUEUES, fsg, io, UNITS>>
         ELSE /\ io' = [io EXCEPT !.off = io.off + n, !.left = io.left - n]
              /\ fsg' = [fsg EXCEPT !.residue = fsg.residue - n,
                                    !.sense = IF amount = 0 \/ n < amount THEN 1 ELSE fsg.sense]
              /\ IF amount = 0 \/ n < amount \/ io.left = n
                 THEN pc' = "finish" /\ Reply(n, [k \in 1 .. n |-> io.off + k - 1])
                      /\ UNCHANGED <<fill, QUEUES, UNITS>>
                 ELSE pc' = pc /\ SendData(n, [k \in 1 .. n |-> io.off + k - 1], 0)
  BY <1>3 DEF ReadChunk
<1>7. n \in 0 .. amount
  BY <1>4, <1>6, FileIORange
<1>8. CASE amount > 0 /\ exc # "none"
  BY <1>1, <1>6, <1>8
<1>9. CASE ~(amount > 0 /\ exc # "none")
  <2>1. n \in 0 .. BufLen /\ n <= io.left /\ io.off + n <= FileLen /\ n <= fsg.residue
    <3>1. fsg.residue = cbw.size - Len(sent) /\ io.left <= fsg.residue
      BY <1>2, Numbers DEF Done
    <3>2. io.off \in Nat /\ io.left \in Nat /\ fsg.residue \in Nat /\ BufLen \in Nat /\ FileLen \in Nat
      BY Numbers, Lengths
    <3> QED
      BY <1>4, <1>7, <3>1, <3>2
  <2>2. io' \in IoType /\ io'.off = io.off + n /\ io'.left = io.left - n
    <3>1. io.off + n \in 0 .. FileLen /\ io.left - n \in Nat
      BY <2>1, Numbers, Lengths
    <3>2. io' = [io EXCEPT !.off = io.off + n, !.left = io.left - n] /\ io \in IoType
      BY <1>6, <1>9 DEF Ranges
    <3> QED
      BY <3>1, <3>2 DEF IoType
  <2>3. /\ fsg' \in FsgType /\ fsg'.residue = fsg.residue - n /\ fsg'.left = fsg.left
        /\ fsg'.phase_error = fsg.phase_error
        /\ fsg'.sense = IF amount = 0 \/ n < amount THEN 1 ELSE fsg.sense
    <3>1. fsg.residue - n \in Nat
      BY <2>1, Numbers
    <3>2. fsg' = [fsg EXCEPT !.residue = fsg.residue - n,
                             !.sense = IF amount = 0 \/ n < amount THEN 1 ELSE fsg.sense]
          /\ fsg \in FsgType
      BY <1>6, <1>9 DEF Ranges
    <3> QED
      BY <3>1, <3>2 DEF FsgType
  <2>4. CASE amount = 0 \/ n < amount \/ io.left = n
    <3>1. ReadsLast(n)
      BY <1>6, <1>9, <2>3, <2>4 DEF ReadsLast
    <3> QED
      BY <1>1, <2>1, <2>2, <2>3, <3>1
  <2>5. CASE ~(amount = 0 \/ n < amount \/ io.left = n)
    <3>1. n = amount /\ n > 0 /\ n < io.left
      BY <1>4, <1>7, <2>5, Numbers
    <3>2. n % Block = 0 /\ fsg'.sense = fsg.sense
      BY <1>5, <2>3, <2>5, <3>1
    <3>3. ReadsMore(n)
      BY <1>1, <1>6, <1>9, <2>5, <3>1, <3>2 DEF ReadsMore
    <3> QED
      BY <1>1, <2>1, <2>2, <2>3, <3>3
  <2> QED
    BY <2>4, <2>5
<1> QED
  BY <1>8, <1>9

\* do_write cannot ask for more, ...
AsksNoMore ==
    /\ io' = [io EXCEPT !.more = 0] /\ UNCHANGED <<bh, fill, QUEUES>>
    /\ fsg'.residue = fsg.residue /\ fsg'.left = fsg.left
    /\ fsg'.phase_error = fsg.phase_error /\ fsg'.short = fsg.short
    /\ fsg'.phase_error = 1 \/ fsg'.sense = 1

\* ... or asks for some whole blocks.
Asks(a) ==
    /\ a > 0 /\ a % Block = 0 /\ a <= io.uleft
    /\ io'.off = io.off /\ io'.left = io.left
    /\ io'.uoff = io.uoff + a /\ io'.uleft = io.uleft - a
    /\ io'.more = 0 => io'.uleft = 0
    /\ a <= fsg.left /\ fsg' = [fsg EXCEPT !.left = fsg.left - a]
    /\ QueueOut(a, "data") /\ fill' = NextBh(fill)

\* A request of do_write covers the next blocks of what is still to be asked for, or is the
\* last one.
LEMMA WriteAsks ==
    ASSUME Ranges, Stages, TakenSoFar, Counted, WriteRequest
    PROVE  /\ pc = "write" /\ io.left > 0 /\ Empty(fill) /\ io.more = 1
           /\ UNCHANGED <<pc, drain, ignore, exc, ASIDE, UNITS>>
           /\ io' \in IoType /\ fsg' \in FsgType
           /\ AsksNoMore \/ \E a \in 0 .. BufLen : Asks(a)
<1>1. /\ pc = "write" /\ io.left > 0 /\ Empty(fill) /\ io.more = 1
      /\ UNCHANGED <<pc, drain, ignore, exc, ASIDE, UNITS>>
  BY DEF WriteRequest, CanRequest
<1>2. /\ cbw \in Cbws /\ cbw.dir = "out" /\ cbw.op = "write" /\ io.uoff = Base + Asked
      /\ io.uleft = Goal - Asked /\ Asked % Block = 0 /\ fsg.left <= cbw.size
      /\ fsg.phase_error = 0 => Sz <= cbw.size
  BY <1>1 DEF Stages, TakenSoFar, Counted, CmdPcs
<1>3. Asked \in Nat /\ Asked <= Goal
  BY <1>2, Numbers DEF Asked
<1>4. PICK room : room = Amount(io.uleft, io.uoff)
  OBVIOUS
<1>5. room \in Nat /\ room <= io.uleft /\ room <= BufLen /\ io.uoff + room <= FileLen
  BY <1>4, AmountBounds, Numbers
<1>6. room < io.uleft => room % Block = 0
  <2>1. Asked <= DataSize(cbw) /\ cbw.lba * Block + Asked <= FileLen
    BY <1>2, <1>3, Numbers DEF Goal, Base
  <2>2. room = Amount(DataSize(cbw) - Asked, cbw.lba * Block + Asked)
    BY <1>2, <1>4 DEF Goal, Base
  <2> QED
    BY <1>2, <1>3, <2>1, <2>2, AmountWhole DEF Goal
<1>7. PICK a : a = room - (room % Block)
  OBVIOUS
<1>8. a \in 0 .. room /\ a % Block = 0 /\ (a = 0 => room = room % Block) /\ room % Block \in Nat
  <2>1. PICK q \in Nat : room = q * Block + (room % Block)
    BY <1>5, Lengths, DivMod
  <2>2. room % Block \in 0 .. Block - 1
    BY <1>5, Lengths, DivMod
  <2>3. PICK m \in Nat : m = q * Block
    BY Lengths
  <2>4. a = m
    BY <1>5, <1>7, <2>1, <2>2, <2>3, Lengths
  <2>5. m % Block = 0
    BY <2>3, Lengths, Multiples
  <2> QED
    BY <1>5, <2>1, <2>2, <2>3, <2>4, <2>5, Lengths
<1>9. IF a = 0
      THEN /\ io' = [io EXCEPT !.more = 0]
           /\ fsg' = [fsg EXCEPT !.sense = IF room = 0 THEN 1 ELSE fsg.sense]
           /\ UNCHANGED <<bh, fill, QUEUES>>
      ELSE /\ io' = [io EXCEPT !.uoff = io.uoff + a, !.uleft = io.uleft - a,
                               !.more = IF io.uleft = a THEN 0 ELSE 1]
           /\ fsg' = [fsg EXCEPT !.left = fsg.left - a]
           /\ QueueOut(a, "data")
           /\ fill' = NextBh(fill)
  BY <1>4, <1>7 DEF WriteRequest
<1>10. CASE a = 0
  <2>1. /\ io' \in IoType /\ fsg' \in FsgType
        /\ fsg'.residue = fsg.residue /\ fsg'.left = fsg.left
        /\ fsg'.phase_error = fsg.phase_error /\ fsg'.short = fsg.short
        /\ room = 0 => fsg'.sense = 1
    BY <1>9, <1>10 DEF Ranges, IoType, FsgType
  <2>2. room # 0 => fsg.phase_error = 1
    <3>1. SUFFICES ASSUME room # 0, fsg.phase_error # 1 PROVE FALSE
      OBVIOUS
    <3>2. fsg.phase_error = 0 /\ Goal = Sz /\ Goal % Block = 0
      BY <1>2, <3>1, Numbers DEF Ranges, FsgType
    <3>3. room % Block # 0 /\ room = Goal - Asked
      BY <1>2, <1>3, <1>5, <1>6, <1>8, <1>10, <3>1, Numbers
    <3>4. (Goal - Asked) % Block = 0
      BY <1>2, <1>3, <3>2, ModDifference, Numbers, Lengths
    <3> QED
      BY <3>3, <3>4
  <2>3. AsksNoMore
    BY <1>9, <1>10, <2>1, <2>2 DEF AsksNoMore
  <2> QED
    BY <1>1, <2>1, <2>3
<1>11. CASE a # 0
  <2>1. a \in 0 .. BufLen /\ a > 0 /\ a <= io.uleft /\ io.uoff + a <= FileLen
    BY <1>5, <1>8, <1>11, Numbers, Lengths
  <2>2. a <= fsg.left
    BY <1>2, <1>3, <2>1, Numbers DEF Asked
  <2>3. /\ io' \in IoType /\ io'.off = io.off /\ io'.left = io.left
        /\ io'.uoff = io.uoff + a /\ io'.uleft = io.uleft - a
        /\ io'.more = 0 => io'.uleft = 0
    <3>1. io.uoff + a \in 0 .. FileLen /\ io.uleft - a \in Nat /\ (io.uleft = a => io.uleft - a = 0)
      BY <2>1, Numbers, Lengths
    <3>2. io' = [io EXCEPT !.uoff = io.uoff + a, !.uleft = io.uleft - a,
                           !.more = IF io.uleft = a THEN 0 ELSE 1] /\ io \in IoType
      BY <1>9, <1>11 DEF Ranges
    <3>3. io' = [off |-> io.off, left |-> io.left, uoff |-> io.uoff + a, uleft |-> io.uleft - a,
                 more |-> IF io.uleft = a THEN 0 ELSE 1, keep |-> io.keep]
      BY <3>2 DEF IoType
    <3>4. io.off \in 0 .. FileLen /\ io.left \in Nat /\ io.keep \in 0 .. BufLen
      BY <3>2 DEF IoType
    <3>5. io' \in IoType
      BY <3>1, <3>3, <3>4 DEF IoType
    <3> QED
      BY <3>1, <3>3, <3>5
  <2>4. fsg' \in FsgType /\ fsg' = [fsg EXCEPT !.left = fsg.left - a]
    <3>1. fsg.left - a \in Nat
      BY <2>1, <2>2, Numbers
    <3>2. fsg' = [fsg EXCEPT !.left = fsg.left - a] /\ fsg \in FsgType
      BY <1>9, <1>11 DEF Ranges
    <3> QED
      BY <3>1, <3>2 DEF FsgType
  <2>5. Asks(a)
    BY <1>8, <1>9, <1>11, <2>1, <2>2, <2>3, <2>4 DEF Asks
  <2> QED
    BY <1>1, <2>1, <2>3, <2>4, <2>5
<1> QED
  BY <1>10, <1>11

-----------------------------------------------------------------------------
(* The steps.  First the ones that are much alike.                         *)

\* The same command asks for the same.
LEMMA SameCommand ==
    ASSUME UNCHANGED cbw
    PROVE  /\ Sz' = Sz /\ Goal' = Goal /\ Base' = Base
           /\ UNCHANGED fsg => Done' = Done /\ Asked' = Asked
  BY DEF Sz, Goal, Base, Done, Asked

\* Between commands the counters mean nothing.
LEMMA Quiet ==
    ASSUME pc' \in {"get", "cbw"}, exc' # "abort", NEW pos
    PROVE  SentSoFar' /\ TakenSoFar' /\ Counted' /\ Tiled(pos)' /\ Served(pos)'
  BY DEF SentSoFar, TakenSoFar, Counted, Tiled, Served, CmdPcs, Receiving

\* The thread turns to a device reset.
LEMMA Breaks ==
    ASSUME NEW pos \in [Heads -> Nat], Safe(pos), exc = "reset", pc' = "exc",
           UNCHANGED <<exc, host, cbw, inq>>, Queues', DataInPlace', Passed'
    PROVE  Safe(pos)'
<1>1. host.phase = "reset" /\ exc' = "reset" /\ host' = host
  BY DEF Safe, Exceptions
<1>2. Exceptions' /\ Phases' /\ InOrder(pos)'
  BY <1>1 DEF Exceptions, Phases, InOrder, GotCbw
<1>3. Stages'
  BY <1>1 DEF Stages, GotCbw, CmdPcs
<1>4. Tiled(pos)' /\ Served(pos)' /\ SentSoFar' /\ TakenSoFar' /\ Counted'
  BY <1>1 DEF Tiled, Served, SentSoFar, TakenSoFar, Counted, CmdPcs, Receiving
<1> QED
  BY <1>2, <1>3, <1>4 DEF Safe

\* A buffer head that is not busy is not queued.
LEMMA InFlight ==
    ASSUME Ranges, Queues, NEW b \in Heads, bh[b].state # "BUSY"
    PROVE  /\ \A i \in DOMAIN inq : inq[i] \in InType /\ inq[i].b \in Heads /\ inq[i].b # b
           /\ \A i \in DOMAIN outq : outq[i] \in Heads /\ outq[i] # b
<1>1. \A i \in DOMAIN inq : inq[i] \in InType
  BY DEF Ranges
<1>2. \A i \in DOMAIN inq : inq[i].b \in Heads
  BY <1>1 DEF InType
<1>3. \A i \in DOMAIN outq : outq[i] \in Heads
  BY DEF Ranges
<1>4. \A i \in DOMAIN inq : inq[i].b # b
  BY DEF Queues
<1>5. \A i \in DOMAIN outq : outq[i] # b
  BY DEF Queues
<1> QED
  BY <1>1, <1>2, <1>3, <1>4, <1>5

\* A signal is seen: nothing changes but the place of the thread.
LEMMA InterruptedStep ==
    ASSUME Ranges, NEW pos \in [Heads -> Nat], Safe(pos), Interrupted
    PROVE  Ranges' /\ Safe(pos)'
<1>1. exc \in {"abort", "reset"} /\ pc # "exc" /\ pc' = "exc"
      /\ UNCHANGED <<bh, fill, drain, QUEUES, ignore, exc, fsg, io, ASIDE, UNITS>>
  BY DEF Interrupted, Polls, Ranges
<1>2. exc = "reset"
  BY <1>1 DEF Safe, Exceptions
<1>3. Ranges'
  BY <1>1 DEF Ranges, QUEUES, ASIDE, HOST, UNITS
<1>4. Queues' /\ DataInPlace' /\ Passed'
  <2>1. UNCHANGED <<bh, inq, outq, cbw, sent, written, host>>
    BY <1>1 DEF QUEUES, ASIDE, HOST, UNITS
  <2>2. Sz' = Sz
    BY <2>1, SameCommand
  <2>3. Queues'
    BY <2>1 DEF Safe, Queues, Data, Empty
  <2>4. DataInPlace'
    BY <2>1 DEF Safe, DataInPlace
  <2>5. Passed'
    BY <2>1, <2>2 DEF Safe, Passed, CswQueued
  <2> QED
    BY <2>3, <2>4, <2>5
<1>5. UNCHANGED <<exc, host, cbw, inq>>
  BY <1>1 DEF QUEUES, ASIDE, HOST
<1> QED
  BY <1>1, <1>2, <1>3, <1>4, <1>5, Breaks

\* The host resets the device in any phase.
LEMMA HostResetsStep ==
    ASSUME Ranges, NEW pos \in [Heads -> Nat], Safe(pos), HostResets
    PROVE  Ranges' /\ Safe(pos)'
<1>1. /\ host.phase # "reset" /\ resets < MaxReset /\ resets' = resets + 1
      /\ host' = [host EXCEPT !.phase = "reset"] /\ exc' = "reset"
      /\ UNCHANGED <<pc, bh, fill, drain, outq, inq, halted, ignore, fsg, io, cbw, sent, written>>
  BY DEF HostResets, QUEUES, UNITS
<1>2. host' \in HostType /\ host'.phase = "reset" /\ host'.moved = host.moved
  BY <1>1 DEF Ranges, HostType
<1>3. Ranges'
  <2>1. resets' \in 0 .. MaxReset
    BY <1>1, SizesAssumption DEF Ranges
  <2> QED
    BY <1>1, <1>2, <2>1 DEF Ranges
<1>4. Sz' = Sz /\ Goal' = Goal /\ Base' = Base /\ Done' = Done /\ Asked' = Asked
  BY <1>1, SameCommand
<1>5. Exceptions' /\ Queues' /\ DataInPlace'
  BY <1>1, <1>2 DEF Safe, Exceptions, Queues, Data, Empty, DataInPlace
<1>6. Stages'
  BY <1>1, <1>2 DEF Safe, Stages, NoData, Data, Full, GotCbw
<1>7. Phases' /\ InOrder(pos)'
  BY <1>1, <1>2 DEF Safe, Phases, InOrder, GotCbw, Full, CswQueued
<1>8. Tiled(pos)'
  BY <1>1, <1>4 DEF Safe, Tiled, Receiving, Data, NoData
<1>9. Served(pos)'
  BY <1>1, <1>2 DEF Safe, Served, Receiving, Data, Full
<1>10. SentSoFar'
  BY <1>1, <1>4 DEF Safe, SentSoFar, PaddedFrom, Full, Empty
<1>11. TakenSoFar'
  BY <1>1, <1>2, <1>4 DEF Safe, TakenSoFar, Prefix, Clean
<1>12. Counted' /\ Passed'
  BY <1>1, <1>2, <1>4 DEF Safe, Counted, Passed, Clean, CswQueued
<1> QED
  BY <1>3, <1>5, <1>6, <1>7, <1>8, <1>9, <1>10, <1>11, <1>12 DEF Safe


\* handle_exception leaves an empty ring and empty queues.
LEMMA HandleExceptionStep ==
    ASSUME Ranges, NEW pos \in [Heads -> Nat], Safe(pos), HandleException
    PROVE  Ranges' /\ Safe(pos)'
<1>1. /\ pc = "exc" /\ outq' = <<>> /\ inq' = <<>> /\ fill' = 0 /\ drain' = 0 /\ exc' = "none"
      /\ UNCHANGED <<io, cbw, resets, sent, written>>
  BY DEF HandleException, Goto, UNITS
<1>2. exc \in {"abort", "reset"}
  BY <1>1 DEF Safe, Exceptions, Ranges
<1>3. /\ bh' \in [Heads -> BhType]
      /\ \A b \in Heads : bh'[b].state = "EMPTY" /\ bh'[b].want = "none"
  <2>1. bh' = [b \in Heads |-> [EmptyBh EXCEPT !.inlen = bh[b].inlen]]
    BY DEF HandleException
  <2>2. ASSUME NEW b \in Heads
        PROVE  LET r == [EmptyBh EXCEPT !.inlen = bh[b].inlen] IN
               r \in BhType /\ r.state = "EMPTY" /\ r.want = "none"
    <3>1. bh[b].inlen \in 0 .. BufLen /\ 0 \in 0 .. BufLen /\ <<>> \in Seq(Int)
      BY Lengths DEF Ranges, BhType
    <3> QED
      BY <3>1 DEF EmptyBh, BhType
  <2> QED
    BY <2>1, <2>2
<1>4. Queues' /\ NoData' /\ (\A b \in Heads : ~Full(b)')
  BY <1>1, <1>3 DEF Queues, NoData, Data, Full
<1>5. ~CswQueued' /\ ~GotCbw' /\ Passed'
  <2>1. ~CswQueued'
    BY <1>1 DEF CswQueued
  <2>2. ~GotCbw'
    BY <1>1, <1>4, Ring DEF GotCbw
  <2> QED
    BY <2>1, <2>2 DEF Passed
<1>6. DataInPlace'
  BY <1>1 DEF Safe, DataInPlace
<1>7. fill' \in Heads /\ drain' \in Heads
  BY <1>1, Ring
<1>8. CASE exc = "abort"
  <2>1. pc' = "status" /\ UNCHANGED <<halted, ignore, fsg, host>>
    BY <1>8 DEF HandleException, Goto
  <2>2. host.phase = "csw" /\ cbw.form = "ok" /\ cbw.dir = "out" /\ cbw \in Cbws
        /\ "out" \notin halted /\ ignore = 0
    BY <1>8 DEF Safe, Exceptions, Phases
  <2>3. Ranges'
    BY <1>1, <1>3, <1>7, <2>1 DEF Ranges
  <2>4. Exceptions' /\ Stages' /\ Phases' /\ InOrder(pos)'
    BY <1>1, <1>4, <1>5, <2>1, <2>2 DEF Exceptions, Stages, Phases, InOrder, CmdPcs
  <2>5. Tiled(pos)' /\ Served(pos)' /\ SentSoFar'
    BY <2>1, <2>2, <1>1 DEF Tiled, Served, SentSoFar, Receiving
  <2>6. Base' = Base /\ Done' = Done /\ Sz' = Sz
    BY <1>1, <2>1, SameCommand
  <2>7. TakenSoFar'
    BY <1>1, <1>8, <2>1, <2>2, <2>6 DEF Safe, TakenSoFar, Prefix
  <2>8. Counted'
    BY <1>1, <1>8, <2>1, <2>6 DEF Safe, Counted, CmdPcs, Clean
  <2> QED
    BY <1>4, <1>5, <1>6, <2>3, <2>4, <2>5, <2>7, <2>8 DEF Safe
<1>9. CASE exc = "reset"
  <2>1. /\ pc' = "get" /\ halted' = {} /\ ignore' = 0
        /\ fsg' = [fsg EXCEPT !.sense = 0] /\ host' = [host EXCEPT !.phase = "cbw"]
    BY <1>9 DEF HandleException, Goto
  <2>2. host' \in HostType /\ host'.phase = "cbw" /\ fsg' \in FsgType
    BY <2>1 DEF Ranges, HostType, FsgType
  <2>3. Ranges'
    BY <1>1, <1>3, <1>7, <2>1, <2>2 DEF Ranges
  <2>4. Exceptions' /\ Stages' /\ Phases' /\ InOrder(pos)'
    BY <1>1, <1>4, <1>5, <2>1, <2>2 DEF Exceptions, Stages, Phases, InOrder, CmdPcs
  <2>5. SentSoFar' /\ TakenSoFar' /\ Counted' /\ Tiled(pos)' /\ Served(pos)'
    BY <1>1, <2>1, Quiet
  <2> QED
    BY <1>4, <1>5, <1>6, <2>3, <2>4, <2>5 DEF Safe
<1> QED
  BY <1>2, <1>8, <1>9

-----------------------------------------------------------------------------
(* The command phase.                                                      *)

\* get_next_command asks for a wrapper.
LEMMA RequestCbwStep ==
    ASSUME Ranges, NEW pos \in [Heads -> Nat], Safe(pos), RequestCbw
    PROVE  Ranges' /\ Safe(pos)'
<1>1. /\ pc = "get" /\ pc' = "cbw" /\ bh[fill].state = "EMPTY"
      /\ UNCHANGED <<fill, drain, ignore, exc, fsg, io, cbw, host, resets, sent, written>>
  BY DEF RequestCbw, Goto, ASIDE, HOST, UNITS, Empty
<1>2. /\ bh' \in [Heads -> BhType] /\ outq' \in Seq(Heads) /\ UNCHANGED <<inq, halted>>
      /\ \A b \in Heads : b # fill => bh'[b] = bh[b]
      /\ bh'[fill].state = "BUSY" /\ bh'[fill].want = "cbw"
      /\ outq' = Append(outq, fill)
  <2>1. Block \in 0 .. BufLen
    BY Lengths
  <2> QED
    BY <2>1, QueuesOut DEF RequestCbw
<1>3. Ranges'
  BY <1>1, <1>2 DEF Ranges
<1>4. outq = <<>> /\ NoData /\ exc # "abort" /\ fill \in Heads
  BY <1>1 DEF Safe, Stages, Exceptions, Ranges
<1>5. outq' = <<fill>> /\ Len(outq') = 1 /\ outq'[1] = fill /\ outq' # <<>>
  BY <1>2, <1>4
<1>6. NoData' /\ ~GotCbw' /\ (\A b \in Heads : ~Full(b)')
  BY <1>1, <1>2, <1>4 DEF Safe, Stages, NoData, Data, GotCbw, Full
<1>7. Queues'
  <2>1. \A i \in DOMAIN inq : inq[i].b \in Heads /\ inq[i].b # fill
    BY <1>1, InFlight DEF Safe, Ranges
  <2> QED
    BY <1>2, <1>5, <1>6, <2>1 DEF Safe, Queues, NoData
<1>8. Exceptions' /\ DataInPlace'
  BY <1>1 DEF Safe, Exceptions, DataInPlace
<1>9. Stages'
  BY <1>1, <1>2, <1>5, <1>6 DEF Stages, CmdPcs
<1>10. Phases'
  <2>1. ~Sending'
    BY <1>1, <1>6 DEF Sending
  <2> QED
    BY <1>1, <1>2, <1>6, <2>1 DEF Safe, Phases, CswQueued, GotCbw
<1>11. InOrder(pos)'
  <2>1. ~Sending /\ ~Sending'
    BY <1>1, <1>6 DEF Sending, GotCbw
  <2> QED
    BY <1>1, <1>2, <2>1 DEF Safe, InOrder, Ending
<1>12. SentSoFar' /\ TakenSoFar' /\ Counted' /\ Tiled(pos)' /\ Served(pos)'
  BY <1>1, <1>4, Quiet
<1>13. Passed'
  BY <1>1, <1>2, SameCommand DEF Safe, Passed, CswQueued
<1> QED
  BY <1>3, <1>7, <1>8, <1>9, <1>10, <1>11, <1>12, <1>13 DEF Safe

\* received_cbw takes a wrapper, refuses it or ignores it.
LEMMA ReceivedCbwStep ==
    ASSUME Ranges, NEW pos \in [Heads -> Nat], Safe(pos), ReceivedCbw
    PROVE  Ranges' /\ Safe(pos)'
<1> DEFINE heard == bh[fill].err = 0 /\ ignore = 0
<1>1. /\ pc = "cbw" /\ bh[fill].state = "FULL"
      /\ UNCHANGED <<fill, drain, outq, inq, exc, fsg, io, cbw, host, resets, sent, written>>
      /\ pc' = IF heard /\ cbw.form = "ok" THEN "scsi" ELSE "get"
      /\ ignore' = IF heard /\ cbw.form = "bad" THEN 1 ELSE ignore
      /\ halted' = IF heard /\ cbw.form = "bad" THEN halted \cup {"in"}
                   ELSE IF heard /\ cbw.form = "odd" /\ can_stall = 1
                   THEN halted \cup {"in", "out"} ELSE halted
  BY DEF ReceivedCbw, ASIDE, HOST, UNITS, Full
<1>2. /\ bh' \in [Heads -> BhType] /\ fill \in Heads
      /\ \A b \in Heads : b # fill => bh'[b] = bh[b]
      /\ bh'[fill].state = "EMPTY" /\ bh'[fill].want = "none"
  <2> DEFINE r == [bh[fill] EXCEPT !.state = "EMPTY", !.want = "none"]
  <2>1. bh \in [Heads -> BhType] /\ fill \in Heads /\ bh[fill] \in BhType
    BY DEF Ranges
  <2>2. bh' = [bh EXCEPT ![fill].state = "EMPTY", ![fill].want = "none"]
    BY DEF ReceivedCbw
  <2>3. bh' = [bh EXCEPT ![fill] = r]
    BY <2>1, <2>2
  <2>4. r \in BhType /\ r.state = "EMPTY" /\ r.want = "none"
    BY <2>1 DEF BhType
  <2> HIDE DEF r
  <2> QED
    BY <2>1, <2>3, <2>4
<1>3. GotCbw
  BY <1>1 DEF GotCbw, Full
<1> HIDE DEF heard
<1>4. Ranges'
  BY <1>1, <1>2 DEF Ranges
<1>5. outq = <<>> /\ NoData /\ exc # "abort"
  <2>1. outq # <<fill>>
    BY <1>1 DEF Safe, Queues
  <2> QED
    BY <1>1, <2>1 DEF Safe, Stages, Exceptions
<1>6. NoData' /\ ~GotCbw' /\ (\A b \in Heads : ~Full(b)')
  BY <1>1, <1>2, <1>5 DEF Safe, Stages, NoData, Data, GotCbw, Full
<1>7. Queues'
  <2>1. \A i \in DOMAIN inq : inq[i].b \in Heads /\ inq[i].b # fill
    BY <1>1, InFlight DEF Safe, Ranges
  <2> QED
    BY <1>1, <1>2, <1>5, <1>6, <2>1 DEF Safe, Queues, NoData
<1>8. Exceptions' /\ DataInPlace'
  BY <1>1 DEF Safe, Exceptions, DataInPlace
<1>9. heard => /\ sent = <<>> /\ written = {} /\ inq = <<>> /\ host.moved = 0 /\ cbw \in Cbws
               /\ host.phase = "csw" => cbw.form # "ok" \/ cbw.dir = "none"
  BY <1>3 DEF Safe, Stages, heard
<1>10. host.phase = "cbw" => ~heard
  BY <1>3 DEF Safe, Phases, heard
<1>11. host.phase \in {"data", "csw"} => heard
  BY <1>2, <1>3 DEF Safe, Stages, Phases, heard, Ranges, BhType
<1>12. Stages'
  BY <1>1, <1>2, <1>5, <1>6, <1>9 DEF Stages, CmdPcs, heard
<1>13. ~CswQueued
  BY <1>3 DEF Safe, Phases
<1>14. ~CswQueued'
  BY <1>1, <1>13 DEF CswQueued
<1>15. Phases'
  BY <1>1, <1>3, <1>6, <1>9, <1>10, <1>11, <1>14 DEF Safe, Phases
<1>16. InOrder(pos)'
  <2>1. SUFFICES ASSUME host.phase = "data", cbw.dir = "in"
                 PROVE  inq = <<>> /\ host.moved = Len(sent) /\ pc' = "scsi"
    BY <1>1 DEF InOrder, Sending
  <2>2. cbw.form = "ok"
    BY <2>1 DEF Safe, Phases
  <2> QED
    BY <1>1, <1>9, <1>11, <2>1, <2>2
<1>17. SentSoFar' /\ TakenSoFar' /\ Counted' /\ Tiled(pos)' /\ Served(pos)'
  BY <1>1, <1>5 DEF SentSoFar, TakenSoFar, Counted, Tiled, Served, CmdPcs, Receiving
<1>18. Passed'
  BY <1>14 DEF Passed
<1> QED
  BY <1>4, <1>7, <1>8, <1>12, <1>15, <1>16, <1>17, <1>18 DEF Safe

\* Before a wrapper arrives.
LEMMA AwaitsCbw ==
    ASSUME Ranges, NEW pos \in [Heads -> Nat], Safe(pos), host.phase = "cbw", outq # <<>>,
           NEW err \in {0, 1}, OutDone(<<>>, err), UNCHANGED THREAD
    PROVE  /\ pc = "cbw" /\ pc' = "cbw" /\ exc = "none" /\ exc' = "none"
           /\ fill' = fill /\ fill \in Heads
           /\ outq' = <<>> /\ inq = <<>> /\ inq' = <<>> /\ ignore = 0 /\ ignore' = 0
           /\ halted = {} /\ halted' = {}
           /\ bh' \in [Heads -> BhType] /\ bh'[fill].err = err
           /\ NoData' /\ GotCbw' /\ (\A b \in Heads : Full(b)' => b = fill)
           /\ Queues' /\ ~CswQueued' /\ Passed'
           /\ SentSoFar' /\ TakenSoFar' /\ Counted' /\ Tiled(pos)' /\ Served(pos)'
<1>1. UNCHANGED <<pc, fill, drain, ignore, exc, fsg, io>> /\ fill \in Heads
  BY DEF THREAD, Ranges
<1>2. pc = "cbw" /\ inq = <<>> /\ halted = {} /\ ignore = 0 /\ exc = "none" /\ outq = <<fill>>
      /\ NoData
  BY DEF Safe, Phases, Stages, Exceptions, Ranges
<1>3. /\ bh' \in [Heads -> BhType] /\ outq' \in Seq(Heads) /\ UNCHANGED <<inq, halted>>
      /\ \A b \in Heads : b # fill => bh'[b] = bh[b]
      /\ bh'[fill].state = "FULL" /\ bh'[fill].want = bh[fill].want /\ bh'[fill].err = err
      /\ Len(outq') = 0
  <2>1. <<>> \in Seq(Int) /\ Len(<<>>) <= BufLen
    BY Lengths
  <2>2. outq[1] = fill /\ Len(outq) = 1
    BY <1>2
  <2>3. PICK d \in Seq(Int) : d = <<>> /\ Len(d) <= BufLen /\ OutDone(d, err)
    BY <2>1
  <2>4. /\ bh' \in [Heads -> BhType] /\ outq' \in Seq(Heads) /\ UNCHANGED <<inq, halted>>
        /\ \A b \in Heads : b # outq[1] => bh'[b] = bh[b]
        /\ bh'[outq[1]].state = "FULL" /\ bh'[outq[1]].want = bh[outq[1]].want
        /\ bh'[outq[1]].err = err
        /\ Len(outq') = Len(outq) - 1
    BY <2>3, OutFinishes
  <2> QED
    BY <2>2, <2>4
<1>4. outq' = <<>> /\ inq' = <<>>
  BY <1>2, <1>3
<1>5. NoData' /\ GotCbw' /\ (\A b \in Heads : Full(b)' => b = fill)
  BY <1>1, <1>2, <1>3 DEF Safe, Stages, NoData, Data, GotCbw, Full
<1>6. Queues' /\ ~CswQueued' /\ Passed'
  BY <1>4, <1>5 DEF Queues, NoData, CswQueued, Passed
<1>7. SentSoFar' /\ TakenSoFar' /\ Counted' /\ Tiled(pos)' /\ Served(pos)'
  BY <1>1, <1>2, Quiet
<1> QED
  BY <1>1, <1>2, <1>3, <1>4, <1>5, <1>6, <1>7

\* A wrapper is lost: the device will ask again.
LEMMA CbwLostStep ==
    ASSUME Ranges, NEW pos \in [Heads -> Nat], Safe(pos), CbwLost
    PROVE  Ranges' /\ Safe(pos)'
<1>1. /\ host.phase = "cbw" /\ outq # <<>> /\ OutDone(<<>>, 1) /\ UNCHANGED THREAD
      /\ UNCHANGED <<cbw, host, resets, sent, written>>
  BY DEF CbwLost, ASIDE, HOST, UNITS
<1>2. /\ pc = "cbw" /\ pc' = "cbw" /\ exc = "none" /\ exc' = "none"
      /\ fill' = fill /\ fill \in Heads
      /\ outq' = <<>> /\ inq = <<>> /\ inq' = <<>> /\ ignore = 0 /\ ignore' = 0
      /\ halted = {} /\ halted' = {}
      /\ bh' \in [Heads -> BhType] /\ bh'[fill].err = 1
      /\ NoData' /\ GotCbw' /\ (\A b \in Heads : Full(b)' => b = fill)
      /\ Queues' /\ ~CswQueued' /\ Passed'
      /\ SentSoFar' /\ TakenSoFar' /\ Counted' /\ Tiled(pos)' /\ Served(pos)'
  BY <1>1, AwaitsCbw
<1>3. Ranges'
  BY <1>1, <1>2 DEF Ranges, THREAD
<1>4. Exceptions' /\ DataInPlace' /\ InOrder(pos)'
  BY <1>1, <1>2 DEF Safe, Exceptions, DataInPlace, InOrder
<1>5. Stages' /\ Phases'
  BY <1>1, <1>2 DEF Stages, Phases, GotCbw, CmdPcs
<1> QED
  BY <1>2, <1>3, <1>4, <1>5 DEF Safe

\* A wrapper arrives: a new command begins.
LEMMA HostSendsCbwStep ==
    ASSUME Ranges, NEW pos \in [Heads -> Nat], Safe(pos), NEW c \in Cbws, HostSendsCbw(c)
    PROVE  Ranges' /\ Safe(pos)'
<1>1. /\ host.phase = "cbw" /\ host.tag < MaxCmd /\ outq # <<>> /\ OutDone(<<>>, 0)
      /\ UNCHANGED THREAD /\ cbw' = c /\ sent' = <<>> /\ written' = {} /\ UNCHANGED resets
      /\ host' = [phase |-> IF c.form = "ok" /\ c.dir # "none" THEN "data" ELSE "csw",
                  tag |-> host.tag + 1, moved |-> 0]
  BY DEF HostSendsCbw
<1>2. /\ pc = "cbw" /\ pc' = "cbw" /\ exc = "none" /\ exc' = "none"
      /\ fill' = fill /\ fill \in Heads
      /\ outq' = <<>> /\ inq = <<>> /\ inq' = <<>> /\ ignore = 0 /\ ignore' = 0
      /\ halted = {} /\ halted' = {}
      /\ bh' \in [Heads -> BhType] /\ bh'[fill].err = 0
      /\ NoData' /\ GotCbw' /\ (\A b \in Heads : Full(b)' => b = fill)
      /\ Queues' /\ ~CswQueued' /\ Passed'
      /\ SentSoFar' /\ TakenSoFar' /\ Counted' /\ Tiled(pos)' /\ Served(pos)'
  BY <1>1, AwaitsCbw
<1>3. /\ host' \in HostType /\ host'.moved = 0
      /\ host'.phase = IF c.form = "ok" /\ c.dir # "none" THEN "data" ELSE "csw"
  <2>1. host.tag + 1 \in 0 .. MaxCmd
    <3>1. MaxCmd \in Nat
      BY SizesAssumption
    <3>2. host.tag \in 0 .. MaxCmd
      BY DEF Ranges, HostType
    <3>3. host.tag < MaxCmd
      BY <1>1
    <3> QED
      BY <3>1, <3>2, <3>3
  <2> QED
    BY <1>1, <2>1 DEF HostType
<1>4. c.size \in Nat /\ (c.size = 0 <=> c.dir = "none")
  BY CommandSizes, CbwsAssumption
<1>5. Ranges'
  BY <1>1, <1>2, <1>3 DEF Ranges, THREAD
<1>6. Exceptions' /\ DataInPlace'
  BY <1>1, <1>2, <1>3 DEF Exceptions, DataInPlace
<1>7. InOrder(pos)'
  BY <1>1, <1>2, <1>3 DEF InOrder, Sending
<1>8. Stages'
  BY <1>1, <1>2, <1>3 DEF Stages, CmdPcs, GotCbw
<1>9. Phases'
  BY <1>1, <1>2, <1>3, <1>4 DEF Phases, GotCbw
<1> QED
  BY <1>2, <1>5, <1>6, <1>7, <1>8, <1>9 DEF Safe


\* Writing nothing, and writing n more units.
LEMMA PrefixGrows ==
    ASSUME Ranges
    PROVE  /\ Prefix(0) = {}
           /\ \A w, n \in Nat :
                 Prefix(w + n) = Prefix(w) \cup {<<Base + w + k - 1, w + k - 1>> : k \in 1 .. n}
<1>1. Base \in Nat
  BY Numbers
<1>2. Prefix(0) = {}
  BY SMT DEF Prefix
<1>3. ASSUME NEW w \in Nat, NEW n \in Nat
      PROVE  Prefix(w + n) = Prefix(w) \cup {<<Base + w + k - 1, w + k - 1>> : k \in 1 .. n}
  <2> DEFINE R == {<<Base + w + k - 1, w + k - 1>> : k \in 1 .. n}
  <2>1. ASSUME NEW x \in Prefix(w + n) PROVE x \in Prefix(w) \cup R
    <3>1. PICK j \in 0 .. w + n - 1 : x = <<Base + j, j>>
      BY <2>1 DEF Prefix
    <3>2. CASE j < w
      <4>1. j \in 0 .. w - 1
        BY <3>2
      <4> QED
        BY <3>1, <4>1 DEF Prefix
    <3>3. CASE ~(j < w)
      <4>1. j - w + 1 \in 1 .. n /\ Base + w + (j - w + 1) - 1 = Base + j /\ w + (j - w + 1) - 1 = j
        BY <1>1, <3>3
      <4>2. <<Base + w + (j - w + 1) - 1, w + (j - w + 1) - 1>> \in R
        BY <4>1
      <4> QED
        BY <3>1, <4>1, <4>2
    <3> QED
      BY <3>2, <3>3
  <2>2. ASSUME NEW x \in Prefix(w) PROVE x \in Prefix(w + n)
    <3>1. PICK j \in 0 .. w - 1 : x = <<Base + j, j>>
      BY <2>2 DEF Prefix
    <3>2. j \in 0 .. w + n - 1
      OBVIOUS
    <3> QED
      BY <3>1, <3>2 DEF Prefix
  <2>3. ASSUME NEW x \in R PROVE x \in Prefix(w + n)
    <3>1. PICK k \in 1 .. n : x = <<Base + w + k - 1, w + k - 1>>
      BY <2>3
    <3>2. w + k - 1 \in 0 .. w + n - 1 /\ Base + (w + k - 1) = Base + w + k - 1
      BY <1>1
    <3> QED
      BY <3>1, <3>2 DEF Prefix
  <2> QED
    BY <2>1, <2>2, <2>3
<1> QED
  BY <1>2, <1>3

\* do_scsi_command starts the command.
LEMMA DoScsiCommandStep ==
    ASSUME Ranges, NEW pos \in [Heads -> Nat], Safe(pos), DoScsiCommand
    PROVE  Ranges' /\ Safe(pos)'
<1>1. pc = "scsi"
  BY DEF DoScsiCommand
<1>2. /\ sent = <<>> /\ written = {} /\ inq = <<>> /\ host.moved = 0 /\ outq = <<>> /\ NoData
      /\ cbw \in Cbws /\ cbw.form = "ok" /\ (host.phase = "csw" => cbw.dir = "none")
      /\ (\A b \in Heads : ~Full(b))
      /\ host.phase # "cbw" /\ exc # "abort"
  BY <1>1 DEF Safe, Stages, Phases, Exceptions, NoData, CmdPcs
<1>3. /\ Empty(fill) /\ drain' = fill
      /\ UNCHANGED <<fill, outq, inq, halted, ignore, exc, cbw, host, resets, sent, written>>
      /\ fsg' \in FsgType /\ io' \in IoType
      /\ fsg'.left = cbw.size /\ fsg'.short = 0
      /\ fsg'.phase_error = 0 => ~Conflict(cbw) /\ Sz <= cbw.size
      /\ Answers \/ Refrains \/ Moves
  BY <1>2, Dispatch DEF QUEUES, ASIDE, HOST, UNITS
<1>4. Sz' = Sz /\ Goal' = Goal /\ Base' = Base /\ Asked' = 0
      /\ fsg'.residue \in Nat /\ Done' = cbw.size - fsg'.residue
  BY <1>3, SameCommand, Numbers DEF Asked, Done, FsgType
<1>5. /\ bh' \in [Heads -> BhType] /\ NoData'
      /\ pc' \in {"finish", "read", "write"}
      /\ \A b \in Heads : Full(b)' => b = fill /\ pc' = "finish" /\ cbw.dir = "in"
  <2>1. CASE Answers
    <3>1. PICK n \in 0 .. BufLen : Reply(n, [k \in 1 .. n |-> k - 1])
      BY <2>1 DEF Answers
    <3>2. [k \in 1 .. n |-> k - 1] \in Seq(Int)
      BY Lengths
    <3>3. bh' \in [Heads -> BhType] /\ bh'[fill].want = bh[fill].want
          /\ \A b \in Heads : b # fill => bh'[b] = bh[b]
      BY <3>1, <3>2, Replied
    <3> QED
      BY <1>2, <2>1, <3>3 DEF Answers, NoData, Data, Full
  <2>2. CASE Refrains \/ Moves
    BY <1>2, <2>2 DEF Refrains, Moves, NoData, Data, Full, Ranges
  <2> QED
    BY <1>3, <2>1, <2>2
<1>6. Ranges'
  BY <1>3, <1>5 DEF Ranges
<1>7. Exceptions' /\ DataInPlace'
  BY <1>1, <1>2, <1>3, <1>5 DEF Safe, Exceptions, DataInPlace
<1>8. Queues' /\ ~CswQueued' /\ Passed' /\ ~GotCbw'
  BY <1>2, <1>3, <1>5 DEF Queues, NoData, CswQueued, Passed, GotCbw
<1>9. Stages'
  BY <1>2, <1>3, <1>5, <1>8 DEF Stages, Answers, Refrains, Moves, CmdPcs
<1>10. Phases'
  BY <1>1, <1>2, <1>3, <1>5, <1>8 DEF Safe, Phases
<1>11. InOrder(pos)'
  <2>1. SUFFICES ASSUME host.phase = "data", cbw.dir = "in" PROVE Sending'
    BY <1>2, <1>3 DEF InOrder
  <2>2. pc' \in {"finish", "read"}
    BY <1>3, <2>1 DEF Answers, Refrains, Moves
  <2> QED
    BY <2>2 DEF Sending
<1>12. CASE Answers
  <2>1. pc' = "finish" /\ cbw.dir = "in" /\ cbw'.dir = "in"
        /\ (fsg'.phase_error = 0 /\ fsg'.sense = 0 => cbw.op \notin {"read", "write"})
    BY <1>3, <1>12 DEF Answers
  <2>2. PICK n \in 0 .. BufLen : /\ n <= cbw.size /\ fsg'.residue = cbw.size - n
                                 /\ Reply(n, [k \in 1 .. n |-> k - 1])
                                 /\ cbw.op = "read" => n = 0
    BY <1>12 DEF Answers
  <2>3. PICK d \in Seq(Int) : d = [k \in 1 .. n |-> k - 1]
    BY <2>2, Lengths
  <2>4. Len(d) = n /\ (\A k \in 1 .. n : d[k] \in Nat) /\ n \in Nat
    BY <2>3, Lengths
  <2>5. bh'[fill].state = "FULL" /\ bh'[fill].inlen = n /\ bh'[fill].buf = d
    BY <2>2, <2>3, Replied
  <2>6. Done' = n /\ fsg'.residue <= cbw.size
    BY <1>4, <2>2, <2>4, Numbers
  <2>7. SentSoFar'
    <3>1. PaddedFrom(0)'
      BY <1>2, <1>3 DEF PaddedFrom
    <3>2. Len(sent)' = 0 /\ written' = {}
      BY <1>2, <1>3
    <3>3. \A k \in DOMAIN d : d[k] \in Nat /\ cbw.op # "read"
      BY <2>2, <2>4
    <3> QED
      BY <1>3, <2>1, <2>4, <2>5, <2>6, <3>1, <3>2, <3>3 DEF SentSoFar, Full
  <2>8. Tiled(pos)' /\ Served(pos)' /\ TakenSoFar'
    BY <2>1 DEF Tiled, Served, TakenSoFar, Receiving
  <2>9. Counted'
    BY <1>3, <1>4, <2>1, <2>6, Numbers DEF Counted, Clean
  <2> QED
    BY <1>6, <1>7, <1>8, <1>9, <1>10, <1>11, <2>7, <2>8, <2>9 DEF Safe
<1>13. Moves \/ Refrains => fsg'.residue = cbw.size /\ Done' = 0
  BY <1>4, Numbers DEF Moves, Refrains
<1>14. ASSUME cbw.dir # "in", Moves \/ Refrains PROVE Tiled(pos)' /\ Served(pos)'
  BY <1>2, <1>3, <1>4, <1>5, <1>13, <1>14 DEF Tiled, Served, NoData
<1>15. Prefix(0)' = {}
  BY SMT DEF Prefix
<1>16. CASE Refrains
  <2>1. pc' = "finish" /\ cbw'.dir # "in"
        /\ (fsg'.phase_error = 0 /\ fsg'.sense = 0 /\ cbw.op \in {"read", "write"} => Sz = 0)
    BY <1>3, <1>16 DEF Refrains
  <2>2. SentSoFar'
    BY <2>1 DEF SentSoFar
  <2>3. TakenSoFar'
    BY <1>2, <1>3, <1>4, <1>13, <1>15, <1>16, <2>1 DEF TakenSoFar, Clean
  <2>4. Counted'
    BY <1>3, <1>4, <1>13, <1>16, <2>1, Numbers DEF Counted, Clean
  <2> QED
    BY <1>3, <1>6, <1>7, <1>8, <1>9, <1>10, <1>11, <1>14, <1>16, <2>1, <2>2, <2>3, <2>4 DEF Safe
<1>17. CASE Moves
  <2>1. /\ \/ pc' = "read" /\ cbw.op = "read" /\ cbw.dir = "in"
           \/ pc' = "write" /\ cbw.op = "write" /\ cbw.dir = "out"
        /\ Goal > 0 /\ fsg'.sense = 0
        /\ io'.off = Base /\ io'.left = Goal /\ io'.uoff = Base /\ io'.uleft = Goal
        /\ io'.more = 1 /\ io'.keep = 0
    BY <1>17 DEF Moves
  <2>2. Counted'
    BY <1>3, <1>4, <1>13, <1>17, <2>1, Numbers DEF Counted, Clean
  <2>3. 0 % Block = 0
    BY Lengths, Multiples
  <2>4. CASE pc' = "read"
    <3>1. PaddedFrom(0)'
      BY <1>2, <1>3 DEF PaddedFrom
    <3>2. Len(sent)' = 0 /\ written' = {}
      BY <1>2, <1>3
    <3>3. SentSoFar'
      BY <1>3, <1>4, <1>13, <1>17, <2>1, <2>3, <2>4, <3>1, <3>2, Numbers DEF SentSoFar
    <3>4. Tiled(pos)' /\ Served(pos)' /\ TakenSoFar'
      BY <1>3, <2>1, <2>4 DEF Tiled, Served, TakenSoFar, Receiving
    <3> QED
      BY <1>6, <1>7, <1>8, <1>9, <1>10, <1>11, <2>2, <3>3, <3>4 DEF Safe
  <2>5. CASE pc' = "write"
    <3>1. SentSoFar'
      BY <1>3, <2>1, <2>5 DEF SentSoFar
    <3>2. TakenSoFar'
      BY <1>2, <1>3, <1>4, <1>13, <1>15, <1>17, <2>1, <2>3, <2>5, Numbers DEF TakenSoFar
    <3> QED
      BY <1>3, <1>6, <1>7, <1>8, <1>9, <1>10, <1>11, <1>14, <1>17, <2>1, <2>2, <2>5, <3>1, <3>2 DEF Safe
  <2> QED
    BY <2>1, <2>4, <2>5
<1> QED
  BY <1>3, <1>12, <1>16, <1>17


-----------------------------------------------------------------------------
(* Data to the host.                                                       *)

\* Whatever goes to the host joins the transfers on the way.
LEMMA Joins ==
    ASSUME Ranges, NEW pos \in [Heads -> Nat], Safe(pos), pc \in {"read", "finish", "pad"},
           cbw.dir = "in", Sending, bh[fill].state # "BUSY",
           NEW len \in 0 .. BufLen, NEW d \in Seq(Int), NEW zero \in {0, 1}, SendData(len, d, zero),
           UNCHANGED <<cbw, host>>, pc' \in {"read", "pad", "halt", "status"},
           (zero = 1 \/ len = 0 \/ len % Block # 0 \/ Len(sent) + len >= cbw.size) <=> ~Sending'
    PROVE  /\ \E q \in [Heads -> Nat] : InOrder(q)'
           /\ Queues' /\ ~CswQueued' /\ NoData'
           /\ \A b \in Heads : Full(b)' => b # fill /\ Full(b)
<1>1. /\ bh' \in [Heads -> BhType] /\ inq' \in Seq(InType) /\ fill \in Heads
      /\ UNCHANGED <<outq, halted, written>>
      /\ \A b \in Heads : b # fill => bh'[b] = bh[b]
      /\ bh'[fill].state = "BUSY" /\ bh'[fill].want = bh[fill].want
      /\ Len(inq') = Len(inq) + 1
      /\ \A i \in 1 .. Len(inq) : inq'[i] = inq[i]
      /\ inq'[Len(inq) + 1].b = fill /\ inq'[Len(inq) + 1].kind = "data"
      /\ inq'[Len(inq) + 1].zero = zero /\ Len(inq'[Len(inq) + 1].data) = len
      /\ Len(sent') = Len(sent) + len
  <2>1. fill \in Heads
    BY DEF Ranges
  <2> QED
    BY <2>1, Sends
<1>2. /\ Len(inq) \in Nat /\ Len(sent) \in Nat /\ DOMAIN inq = 1 .. Len(inq)
      /\ DOMAIN inq' = 1 .. Len(inq) + 1
      /\ (inq = <<>> <=> Len(inq) = 0) /\ inq' # <<>>
  BY <1>1 DEF Ranges
<1>3. outq = <<>> /\ NoData
  BY DEF Safe, Stages
<1>4. \A i \in DOMAIN inq : inq[i] \in InType /\ inq[i].b \in Heads /\ inq[i].b # fill
  BY <1>1, InFlight DEF Safe
<1>5. \A i \in DOMAIN inq : inq[i].kind = "data"
  <2>1. ~CswQueued
    BY DEF Safe, Phases
  <2>2. \A i \in DOMAIN inq : inq[i].kind = "csw" => i = Len(inq)
    BY DEF Safe, Queues
  <2> QED
    BY <1>2, <1>4, <2>1, <2>2 DEF CswQueued, InType
<1>6. NoData'
  BY <1>1, <1>3 DEF NoData, Data
<1>7. Queues'
  <2>1. \A i \in DOMAIN inq' : bh'[inq'[i].b].state = "BUSY" /\ bh'[inq'[i].b].want # "data"
    <3>1. ASSUME NEW i \in DOMAIN inq'
          PROVE  bh'[inq'[i].b].state = "BUSY" /\ inq'[i].b \in Heads
      <4>1. CASE i \in 1 .. Len(inq)
        <5>1. inq'[i] = inq[i] /\ i \in DOMAIN inq
          BY <1>1, <1>2, <4>1
        <5>2. bh[inq[i].b].state = "BUSY"
          BY <5>1 DEF Safe, Queues
        <5> QED
          BY <1>1, <1>4, <5>1, <5>2
      <4>2. CASE i = Len(inq) + 1
        BY <1>1, <4>2
      <4> QED
        BY <1>2, <4>1, <4>2
    <3> QED
      BY <1>6, <3>1 DEF NoData, Data
  <2>2. \A i, j \in DOMAIN inq' : inq'[i].b = inq'[j].b => i = j
    <3>1. \A i, j \in 1 .. Len(inq) : inq'[i].b = inq'[j].b => i = j
      <4>1. \A i, j \in 1 .. Len(inq) : inq[i].b = inq[j].b => i = j
        BY <1>2 DEF Safe, Queues
      <4>2. \A i \in 1 .. Len(inq) : inq'[i] = inq[i]
        BY <1>1
      <4> QED
        BY <4>1, <4>2
    <3>2. ASSUME NEW i \in 1 .. Len(inq) PROVE inq'[i].b # inq'[Len(inq) + 1].b
      <4>1. inq'[i] = inq[i] /\ inq[i].b # fill /\ inq'[Len(inq) + 1].b = fill
        BY <1>1, <1>2, <1>4
      <4> QED
        BY <4>1
    <3>3. \A i \in DOMAIN inq' : i \in 1 .. Len(inq) \/ i = Len(inq) + 1
      BY <1>2
    <3> QED
      BY <3>1, <3>2, <3>3
  <2>3. \A i \in DOMAIN inq' : inq'[i].kind = "data"
    BY <1>1, <1>2, <1>5
  <2> QED
    BY <1>1, <1>3, <1>6, <2>1, <2>2, <2>3 DEF Queues, NoData, Data
<1>8. ~CswQueued'
  BY <1>1, <1>2 DEF CswQueued
<1>9. \A b \in Heads : Full(b)' => b # fill /\ Full(b)
  BY <1>1 DEF Full
<1>10. \E q \in [Heads -> Nat] : InOrder(q)'
  <2>1. PICK q \in [Heads -> Nat] :
           q[fill] = Len(sent) /\ \A b \in Heads : b # fill => q[b] = pos[b]
    <3>1. [pos EXCEPT ![fill] = Len(sent)] \in [Heads -> Nat]
      BY <1>1, <1>2
    <3> QED
      BY <1>1, <1>2, <3>1
  <2>2. SUFFICES ASSUME host.phase = "data" PROVE InOrder(q)'
    <3>1. host.phase # "data" => InOrder(q)'
      BY DEF InOrder
    <3> QED
      BY <2>1, <3>1
  <2>3. inq = <<>> => host.moved = Len(sent)
    BY <2>2 DEF Safe, InOrder
  <2>4. inq # <<>> => pos[inq[1].b] = host.moved
    BY <2>2 DEF Safe, InOrder
  <2>5. ASSUME NEW i \in 1 .. Len(inq)
        PROVE  LET p == pos[inq[i].b] IN
               IF i < Len(inq) THEN pos[inq[i + 1].b] = p + Len(inq[i].data) /\ ~Ending(inq[i], p, cbw.size)
               ELSE p + Len(inq[i].data) = Len(sent) /\ ~Ending(inq[i], p, cbw.size)
    <3>1. inq[i].kind = "data" /\ (i < Len(inq) => inq[i + 1].kind = "data")
      <4>1. i \in DOMAIN inq /\ (i < Len(inq) => i + 1 \in DOMAIN inq)
        BY <1>2
      <4> QED
        BY <1>5, <4>1
    <3> QED
      BY <1>2, <2>2, <3>1 DEF Safe, InOrder
  <2>6. inq'[1].kind = "data" /\ q[inq'[1].b] = host'.moved
    <3>1. CASE Len(inq) = 0
      BY <1>1, <1>2, <2>1, <2>3, <3>1
    <3>2. CASE Len(inq) # 0
      <4>1. 1 \in 1 .. Len(inq) /\ 1 \in DOMAIN inq /\ inq # <<>>
        BY <1>2, <3>2
      <4>2. inq'[1] = inq[1] /\ inq[1].b \in Heads /\ inq[1].b # fill /\ inq[1].kind = "data"
        BY <1>1, <1>4, <1>5, <4>1
      <4> QED
        BY <2>1, <2>4, <4>1, <4>2
    <3> QED
      BY <3>1, <3>2
  <2>7. ASSUME NEW i \in DOMAIN inq'
        PROVE  LET p == q[inq'[i].b] IN
               IF i < Len(inq') /\ inq'[i + 1].kind = "data"
               THEN q[inq'[i + 1].b] = p + Len(inq'[i].data) /\ ~Ending(inq'[i], p, cbw'.size)
               ELSE p + Len(inq'[i].data) = Len(sent') /\ (Ending(inq'[i], p, cbw'.size) <=> ~Sending')
    <3>1. CASE i < Len(inq)
      <4>1. /\ inq'[i] = inq[i] /\ inq'[i + 1] = inq[i + 1] /\ i < Len(inq')
            /\ q[inq[i].b] = pos[inq[i].b] /\ q[inq[i + 1].b] = pos[inq[i + 1].b]
            /\ inq[i + 1].kind = "data" /\ i \in 1 .. Len(inq)
        BY <1>1, <1>2, <1>4, <1>5, <2>1, <3>1
      <4> QED
        BY <2>5, <3>1, <4>1 DEF Ending
    <3>2. CASE i = Len(inq)
      <4>1. /\ inq'[i] = inq[i] /\ inq'[i + 1].b = fill /\ inq'[i + 1].kind = "data" /\ i < Len(inq')
            /\ q[inq[i].b] = pos[inq[i].b] /\ i \in 1 .. Len(inq)
        BY <1>1, <1>2, <1>4, <2>1, <3>2
      <4> QED
        BY <2>1, <2>5, <3>2, <4>1 DEF Ending
    <3>3. CASE i = Len(inq) + 1
      <4>1. /\ ~(i < Len(inq')) /\ inq'[i].b = fill /\ inq'[i].zero = zero
            /\ Len(inq'[i].data) = len /\ q[inq'[i].b] = Len(sent)
            /\ inq'[i].data \in Seq(Int)
        <5>1. inq'[i] \in InType
          BY <1>1
        <5> QED
          BY <1>1, <1>2, <2>1, <3>3, <5>1 DEF InType
      <4>2. inq'[i].data = <<>> <=> len = 0
        BY <4>1
      <4> QED
        BY <1>1, <4>1, <4>2 DEF Ending
    <3> QED
      BY <1>2, <3>1, <3>2, <3>3
  <2> QED
    BY <1>2, <2>6, <2>7 DEF InOrder
<1> QED
  BY <1>6, <1>7, <1>8, <1>9, <1>10

\* The parts about commands that take data do not matter to one that sends data.
LEMMA NotTaking ==
    ASSUME cbw'.dir = "in", pc' \in {"read", "finish", "pad", "halt", "status"}, NEW q
    PROVE  Tiled(q)' /\ Served(q)' /\ TakenSoFar'
  BY DEF Tiled, Served, TakenSoFar, Receiving

\* The parts about phases while a command goes on.
LEMMA GoesOn ==
    ASSUME Ranges, NEW pos \in [Heads -> Nat], Safe(pos),
           pc \in {"read", "finish", "pad", "halt"}, cbw.dir = "in",
           UNCHANGED <<cbw, host, exc, ignore, halted, outq, written>>,
           pc' \in {"read", "finish", "pad", "halt", "status"},
           ~CswQueued', NoData',
           \A b \in Heads : Full(b)' => b = fill' /\ pc' = "finish",
           host.phase = "csw" => inq' = inq,
           Sending' => Sending
    PROVE  Exceptions' /\ Stages' /\ Phases' /\ Passed'
<1>1. /\ outq = <<>> /\ cbw.form = "ok" /\ cbw \in Cbws /\ exc # "abort" /\ host.phase # "cbw"
  BY DEF Safe, Stages, Exceptions, CmdPcs, Phases
<1>2. ~GotCbw' /\ ~GotCbw
  BY DEF GotCbw
<1>3. Exceptions'
  BY <1>1 DEF Safe, Exceptions
<1>4. Stages'
  BY <1>1, <1>2 DEF Stages, CmdPcs
<1>5. Phases'
  BY <1>1, <1>2 DEF Safe, Phases
<1> QED
  BY <1>3, <1>4, <1>5 DEF Passed


\* A round of do_read.
LEMMA ReadChunkStep ==
    ASSUME Ranges, NEW pos \in [Heads -> Nat], Safe(pos), ReadChunk
    PROVE  Ranges' /\ \E q \in [Heads -> Nat] : Safe(q)'
<1>1. /\ pc = "read" /\ Empty(fill)
      /\ UNCHANGED <<drain, ignore, exc, cbw, host, resets>>
      /\ \/ exc # "none" /\ pc' = "exc" /\ UNCHANGED <<bh, fill, QUEUES, fsg, io, UNITS>>
         \/ \E n \in 0 .. BufLen :
               /\ n <= io.left /\ io.off + n <= FileLen /\ n <= fsg.residue
               /\ io' \in IoType /\ fsg' \in FsgType
               /\ io'.off = io.off + n /\ io'.left = io.left - n
               /\ fsg'.residue = fsg.residue - n /\ fsg'.left = fsg.left
               /\ fsg'.phase_error = fsg.phase_error
               /\ ReadsLast(n) \/ ReadsMore(n)
  BY Reads DEF Safe, ASIDE, HOST
<1>2. /\ cbw \in Cbws /\ cbw.dir = "in" /\ cbw.op = "read" /\ cbw.form = "ok"
      /\ io.off = Base + Len(sent) /\ io.left = Goal - Len(sent) /\ Len(sent) = Done
      /\ Len(sent) % Block = 0 /\ io.left > 0 /\ Len(sent) \in Nat /\ written = {}
      /\ PaddedFrom(Done) /\ NoData /\ outq = <<>> /\ exc # "abort"
      /\ fsg.left <= cbw.size /\ (fsg.phase_error = 0 => ~Conflict(cbw) /\ Sz <= cbw.size)
      /\ (\A b \in Heads : ~Full(b))
  <2>1. Len(sent) \in Nat
    BY DEF Ranges
  <2> QED
    BY <1>1, <2>1 DEF Safe, Stages, SentSoFar, Counted, CmdPcs, Exceptions, NoData
<1>3. fill \in Heads /\ bh[fill].state = "EMPTY"
  BY <1>1 DEF Ranges, Empty
<1>4. CASE exc # "none" /\ pc' = "exc" /\ UNCHANGED <<bh, fill, QUEUES, fsg, io, UNITS>>
  <2>1. UNCHANGED <<bh, fill, outq, inq, halted, fsg, io, sent, written>> /\ exc = "reset"
    BY <1>2, <1>4 DEF QUEUES, UNITS, Ranges
  <2>2. Ranges'
    BY <1>1, <1>4, <2>1 DEF Ranges
  <2>3. Queues' /\ DataInPlace'
    BY <1>1, <2>1 DEF Safe, Queues, Data, Empty, DataInPlace
  <2>4. Passed'
    BY <1>1, <2>1, SameCommand DEF Safe, Passed, CswQueued
  <2> QED
    BY <1>1, <1>4, <2>1, <2>2, <2>3, <2>4, Breaks
<1>5. ASSUME NEW n \in 0 .. BufLen,
             n <= io.left, n <= fsg.residue,
             io' \in IoType, fsg' \in FsgType, io'.off = io.off + n, io'.left = io.left - n,
             fsg'.residue = fsg.residue - n, fsg'.left = fsg.left,
             fsg'.phase_error = fsg.phase_error, ReadsLast(n) \/ ReadsMore(n)
      PROVE  Ranges' /\ \E q \in [Heads -> Nat] : Safe(q)'
  <2>1. n \in Nat /\ io.off \in Nat
    BY Lengths, Numbers
  <2>2. PICK d \in Seq(Int) : d = [k \in 1 .. n |-> io.off + k - 1]
    <3>1. \A k \in 1 .. n : io.off + k - 1 \in Int
      BY <2>1
    <3>2. [k \in 1 .. n |-> io.off + k - 1] \in Seq(Int)
      BY <2>1, <3>1
    <3> QED
      BY <3>2
  <2>3. Len(d) = n /\ DOMAIN d = 1 .. n /\ \A k \in 1 .. n : d[k] = Base + Len(sent) + k - 1 /\ d[k] \in Nat
    BY <1>2, <2>1, <2>2
  <2>4. Sz' = Sz /\ Goal' = Goal /\ Base' = Base /\ cbw' = cbw /\ cbw'.dir = "in"
    BY <1>1, <1>2, SameCommand
  <2>5. Done' = Done + n /\ Done' = Len(sent) + n
    <3>1. fsg.residue \in Nat /\ cbw.size \in Nat
      BY Numbers
    <3>2. Done = cbw.size - fsg.residue /\ Done' = cbw.size - (fsg.residue - n) /\ Done = Len(sent)
      BY <1>2, <1>5, <2>4 DEF Done
    <3> QED
      BY <2>1, <3>1, <3>2
  <2>6. fsg'.residue <= cbw.size /\ fsg'.left <= cbw.size
    <3>1. fsg.residue \in Nat /\ cbw.size \in Nat /\ cbw.size - fsg.residue \in Nat
      BY <1>2, Numbers DEF Done
    <3> QED
      BY <1>2, <1>5, <2>1, <3>1
  <2>7. Sending
    BY <1>1 DEF Sending
  <2>8. CASE ReadsLast(n)
    <3>1. pc' = "finish" /\ Reply(n, d) /\ UNCHANGED <<fill, outq, inq, halted, sent, written>>
          /\ (fsg'.sense = 0 => n = io.left)
      BY <2>2, <2>8 DEF ReadsLast, QUEUES, UNITS
    <3>2. /\ bh' \in [Heads -> BhType]
          /\ \A b \in Heads : b # fill => bh'[b] = bh[b]
          /\ bh'[fill].state = "FULL" /\ bh'[fill].want = bh[fill].want
          /\ bh'[fill].inlen = n /\ bh'[fill].buf = d
      BY <3>1, Replied
    <3>3. Ranges'
      BY <1>1, <1>5, <3>1, <3>2 DEF Ranges
    <3>4. NoData' /\ (\A b \in Heads : Full(b)' => b = fill)
      BY <1>2, <1>3, <3>2 DEF NoData, Data, Full
    <3>5. Queues' /\ ~CswQueued'
      <4>1. \A i \in DOMAIN inq : inq[i].b \in Heads /\ inq[i].b # fill
        BY <1>3, InFlight DEF Safe
      <4>2. Queues'
        BY <1>2, <3>1, <3>2, <3>4, <4>1 DEF Safe, Queues, NoData, Data
      <4>3. ~CswQueued'
        BY <1>1, <3>1 DEF Safe, Phases, CswQueued
      <4> QED
        BY <4>2, <4>3
    <3>6. Exceptions' /\ Stages' /\ Phases' /\ Passed'
      BY <1>1, <1>2, <2>7, <3>1, <3>4, <3>5, GoesOn
    <3>7. InOrder(pos)'
      <4>1. Sending'
        BY <3>1 DEF Sending
      <4> QED
        BY <1>1, <2>7, <3>1, <4>1 DEF Safe, InOrder
    <3>8. Tiled(pos)' /\ Served(pos)' /\ TakenSoFar'
      BY <2>4, <3>1, NotTaking
    <3>9. SentSoFar'
      <4>1. PaddedFrom(Len(sent))'
        BY <1>2, <3>1 DEF PaddedFrom
      <4>2. /\ Len(sent') = Len(sent) /\ written' = {} /\ Full(fill)'
            /\ Len(bh'[fill'].buf) = bh'[fill'].inlen /\ bh'[fill'].inlen = n
            /\ \A k \in DOMAIN bh'[fill'].buf : /\ bh'[fill'].buf[k] \in Nat
                                                /\ bh'[fill'].buf[k] = Base + Len(sent) + k - 1
        BY <1>2, <2>3, <3>1, <3>2 DEF Full
      <4>3. IF Len(sent)' < Done' THEN PaddedFrom(Len(sent))' ELSE PaddedFrom(Done)'
        <5>1. CASE n = 0
          <6>1. Len(sent') = Done'
            BY <1>2, <2>5, <4>2, <5>1
          <6> QED
            BY <1>2, <4>1, <6>1 DEF PaddedFrom
        <5>2. CASE n # 0
          BY <1>2, <2>1, <2>5, <4>1, <4>2, <5>2
        <5> QED
          BY <5>1, <5>2
      <4> QED
        BY <2>4, <2>5, <3>1, <4>2, <4>3 DEF SentSoFar
    <3>10. Counted'
      <4>1. fsg'.phase_error = 0 /\ fsg'.sense = 0 => Done' >= Sz
        BY <1>2, <1>5, <2>1, <2>5, <3>1, Numbers
      <4> QED
        BY <1>2, <1>5, <2>4, <2>6, <3>1, <4>1 DEF Counted, Clean
    <3>11. DataInPlace'
      BY <1>1, <3>1 DEF Safe, DataInPlace
    <3> QED
      BY <3>3, <3>5, <3>6, <3>7, <3>8, <3>9, <3>10, <3>11 DEF Safe
  <2>9. CASE ReadsMore(n)
    <3>1. pc' = "read" /\ SendData(n, d, 0) /\ n > 0 /\ n < io.left /\ n % Block = 0
          /\ fsg'.sense = fsg.sense
      BY <2>2, <2>9 DEF ReadsMore
    <3>2. /\ bh' \in [Heads -> BhType] /\ inq' \in Seq(InType)
          /\ fill' \in Heads /\ sent' \in Seq(Int) /\ UNCHANGED <<outq, halted, written>>
          /\ Len(sent') = Len(sent) + n
          /\ \A k \in 1 .. Len(sent) : sent'[k] = sent[k]
          /\ \A k \in 1 .. n : sent'[Len(sent) + k] = d[k]
      <4>1. \A k \in 1 .. n : (IF k <= Len(d) THEN d[k] ELSE Junk) = d[k]
        BY <2>3
      <4> QED
        BY <3>1, <4>1, Sends
    <3>3. Ranges'
      BY <1>1, <1>5, <3>1, <3>2 DEF Ranges
    <3>4. Sending'
      BY <3>1 DEF Sending
    <3>5. /\ \E q \in [Heads -> Nat] : InOrder(q)'
          /\ Queues' /\ ~CswQueued' /\ NoData'
          /\ \A b \in Heads : Full(b)' => b # fill /\ Full(b)
      <4>1. ~(0 = 1 \/ n = 0 \/ n % Block # 0 \/ Len(sent) + n >= cbw.size)
        BY <1>2, <2>1, <3>1, Numbers
      <4> QED
        BY <1>1, <1>2, <1>3, <2>7, <3>1, <3>4, <4>1, Joins
    <3>6. host.phase # "csw"
      BY <1>2, <2>7 DEF Safe, Phases
    <3>7. Exceptions' /\ Stages' /\ Phases' /\ Passed'
      BY <1>1, <1>2, <2>7, <3>1, <3>2, <3>5, <3>6, GoesOn
    <3>8. \A q : Tiled(q)' /\ Served(q)' /\ TakenSoFar'
      BY <2>4, <3>1, NotTaking
    <3>9. \A k \in 1 .. Len(sent') : sent'[k] # Zero /\ (k > Len(sent) => sent'[k] = Base + k - 1)
      <4>1. SUFFICES ASSUME NEW k \in 1 .. Len(sent')
                     PROVE  sent'[k] # Zero /\ (k > Len(sent) => sent'[k] = Base + k - 1)
        OBVIOUS
      <4>2. CASE k <= Len(sent)
        <5>1. k \in 1 .. Len(sent) /\ k \in DOMAIN sent /\ ~(k > Len(sent))
          BY <1>2, <4>2 DEF Ranges
        <5> QED
          BY <1>2, <3>2, <5>1 DEF PaddedFrom
      <4>3. CASE ~(k <= Len(sent))
        <5>1. k - Len(sent) \in 1 .. n /\ Len(sent) + (k - Len(sent)) = k
          BY <1>2, <2>1, <3>2, <4>3
        <5>2. sent'[k] = Base + Len(sent) + (k - Len(sent)) - 1 /\ sent'[k] \in Nat
          BY <2>3, <3>2, <5>1
        <5>3. Base \in Nat /\ Len(sent) \in Nat /\ k \in Int
          BY <1>2, Numbers
        <5> QED
          BY <5>2, <5>3 DEF Zero
      <4> QED
        BY <4>2, <4>3
    <3>10. SentSoFar'
      <4>1. Len(sent') = Done' /\ Done' \in Nat /\ ~(Len(sent') < Done')
        BY <1>2, <2>1, <2>5, <3>2
      <4>2. PaddedFrom(Done)'
        BY <3>2, <3>9, <4>1 DEF PaddedFrom
      <4>3. Len(sent') % Block = 0
        BY <1>2, <2>1, <3>1, <3>2, ModSum, Lengths
      <4>4. io'.left > 0 /\ io'.off = Base + Len(sent') /\ io'.left = Goal - Len(sent')
        <5>1. Base \in Nat /\ Goal \in Nat /\ io.left \in Nat
          BY Numbers
        <5>2. io.off = Base + Len(sent) /\ io.left = Goal - Len(sent) /\ Len(sent) \in Nat
          BY <1>2
        <5>3. io'.off = io.off + n /\ io'.left = io.left - n /\ n < io.left
              /\ Len(sent') = Len(sent) + n
          BY <1>5, <3>1, <3>2
        <5> QED
          BY <2>1, <5>1, <5>2, <5>3
      <4> QED
        BY <1>2, <2>4, <3>1, <3>2, <4>1, <4>2, <4>3, <4>4 DEF SentSoFar
    <3>11. Counted'
      BY <1>2, <1>5, <2>4, <2>6, <3>1 DEF Counted
    <3>12. DataInPlace'
      <4>1. ASSUME NEW k \in DOMAIN sent' PROVE sent'[k] \in {cbw.lba * Block + k - 1, Zero}
        <5>1. k \in 1 .. Len(sent')
          BY <3>2
        <5>2. CASE k > Len(sent)
          BY <3>9, <5>1, <5>2 DEF Base
        <5>3. CASE ~(k > Len(sent))
          <6>1. k \in 1 .. Len(sent) /\ k \in DOMAIN sent
            BY <1>2, <5>1, <5>3 DEF Ranges
          <6> QED
            BY <1>2, <3>2, <6>1 DEF Safe, DataInPlace
        <5> QED
          BY <5>2, <5>3
      <4> QED
        BY <1>2, <2>4, <3>2, <4>1 DEF DataInPlace
    <3> QED
      BY <3>3, <3>5, <3>7, <3>8, <3>10, <3>11, <3>12 DEF Safe
  <2> QED
    BY <1>5, <2>8, <2>9
<1> QED
  BY <1>1, <1>4, <1>5


\* len units follow l units of which the first m are data; j of the new ones are data, too.
LEMMA Counts ==
    ASSUME NEW l \in Nat, NEW len \in Nat, NEW j \in 0 .. len, NEW m \in 0 .. l, j > 0 => m = l,
           NEW k \in 1 .. l + len
    PROVE  /\ m + j \in 0 .. l + len
           /\ k <= l => k \in 1 .. l /\ (k > m <=> k > m + j)
           /\ ~(k <= l) => /\ k - l \in 1 .. len /\ l + (k - l) = k
                           /\ k - l <= j => m = l /\ ~(k > m + j)
                           /\ ~(k - l <= j) => k > m + j
  OBVIOUS

\* What is sent next is data up to its j-th unit, then padding.
LEMMA Appended ==
    ASSUME Ranges, UNCHANGED <<cbw, written>>, sent' \in Seq(Int), DataInPlace,
           NEW len \in Nat, NEW j \in 0 .. len, NEW m \in Nat,
           Len(sent') = Len(sent) + len, \A k \in 1 .. Len(sent) : sent'[k] = sent[k],
           \A k \in 1 .. len :
              IF k <= j THEN /\ sent'[Len(sent) + k] \in Nat
                             /\ cbw.op = "read" => sent'[Len(sent) + k] = Base + Len(sent) + k - 1
              ELSE sent'[Len(sent) + k] = Zero,
           PaddedFrom(m), j > 0 => m = Len(sent)
    PROVE  DataInPlace' /\ PaddedFrom(m + j)'
<1>1. PICK l \in Nat : l = Len(sent) /\ DOMAIN sent = 1 .. l /\ m \in 0 .. l
  BY DEF Ranges, PaddedFrom
<1>2. DOMAIN sent' = 1 .. l + len /\ Len(sent') = l + len /\ Base \in Nat /\ l + len \in Nat
  BY <1>1, Numbers
<1>3. ASSUME NEW k \in 1 .. l + len
      PROVE  /\ sent'[k] = Zero <=> k > m + j
             /\ cbw.op = "read" => sent'[k] \in {Base + k - 1, Zero}
  <2>1. /\ k <= l => k \in 1 .. l /\ (k > m <=> k > m + j)
        /\ ~(k <= l) => /\ k - l \in 1 .. len /\ l + (k - l) = k
                        /\ k - l <= j => m = l /\ ~(k > m + j)
                        /\ ~(k - l <= j) => k > m + j
    <3>1. j > 0 => m = l
      BY <1>1
    <3> QED
      BY <1>1, <1>3, <3>1, Counts
  <2>2. CASE k <= l
    <3>1. k \in DOMAIN sent /\ sent'[k] = sent[k]
      BY <1>1, <2>1, <2>2
    <3>2. sent[k] = Zero <=> k > m
      BY <3>1 DEF PaddedFrom
    <3>3. cbw.op = "read" => sent[k] \in {Base + k - 1, Zero}
      BY <3>1 DEF DataInPlace, Base
    <3> QED
      BY <2>1, <2>2, <3>1, <3>2, <3>3
  <2>3. CASE ~(k <= l)
    <3>1. PICK i \in 1 .. len : i = k - l /\ k = l + i
      BY <2>1, <2>3
    <3>2. CASE i <= j
      <4>1. sent'[k] \in Nat /\ (cbw.op = "read" => sent'[k] = Base + l + i - 1)
        BY <1>1, <3>1, <3>2
      <4>2. \A x \in Nat : x # Zero
        BY DEF Zero
      <4>3. Base + l + i - 1 = Base + k - 1
        BY <1>2, <3>1
      <4> QED
        BY <2>1, <2>3, <3>1, <3>2, <4>1, <4>2, <4>3
    <3>3. CASE ~(i <= j)
      <4>1. sent'[k] = Zero
        BY <1>1, <3>1, <3>3
      <4> QED
        BY <2>1, <2>3, <3>1, <3>3, <4>1
    <3> QED
      BY <3>2, <3>3
  <2> QED
    BY <2>2, <2>3
<1>4. PaddedFrom(m + j)'
  <2>1. m + j \in 0 .. l + len
    BY <1>1
  <2> QED
    BY <1>2, <1>3, <2>1 DEF PaddedFrom
<1>5. DataInPlace'
  BY <1>2, <1>3 DEF DataInPlace, Base
<1> QED
  BY <1>4, <1>5

\* finish_reply sends the last buffer, or prepares the padding.
LEMMA FinishToHostStep ==
    ASSUME Ranges, NEW pos \in [Heads -> Nat], Safe(pos), FinishToHost
    PROVE  Ranges' /\ \E q \in [Heads -> Nat] : Safe(q)'
<1>1. /\ pc = "finish" /\ cbw.dir = "in" /\ cbw'.dir = "in"
      /\ UNCHANGED <<drain, ignore, exc, cbw, host, resets>>
  BY DEF FinishToHost, ASIDE, HOST
<1>2. /\ Full(fill) /\ Len(bh[fill].buf) = bh[fill].inlen /\ Len(sent) + bh[fill].inlen = Done
      /\ \A k \in DOMAIN bh[fill].buf :
            /\ bh[fill].buf[k] \in Nat
            /\ cbw.op = "read" => bh[fill].buf[k] = Base + Len(sent) + k - 1
      /\ IF Len(sent) < Done THEN PaddedFrom(Len(sent)) ELSE PaddedFrom(Done)
      /\ written = {}
  BY <1>1 DEF Safe, SentSoFar, CmdPcs
<1>3. /\ cbw.form = "ok" /\ cbw \in Cbws /\ NoData /\ outq = <<>> /\ exc # "abort"
      /\ fsg.residue <= cbw.size /\ fsg.left <= cbw.size
      /\ (fsg.phase_error = 0 => ~Conflict(cbw) /\ Sz <= cbw.size)
      /\ (Clean => (cbw.op = "read" => Done >= Sz)
                   /\ (cbw.op = "write" => Done <= Sz /\ (Done = Sz \/ Done = host.moved)))
      /\ (\A b \in Heads : Full(b) => b = fill) /\ Sending
  BY <1>1 DEF Safe, Stages, Exceptions, Counted, CmdPcs, NoData, Sending
<1>4. /\ fill \in Heads /\ bh[fill].state = "FULL" /\ bh[fill].inlen \in 0 .. BufLen
      /\ bh[fill].buf \in Seq(Int) /\ Len(sent) \in Nat /\ bh[fill].inlen \in Nat
  BY <1>2, Lengths DEF Ranges, BhType, Full
<1>5. PICK len \in 0 .. BufLen, d \in Seq(Int) : len = bh[fill].inlen /\ d = bh[fill].buf
  BY <1>4
<1>6. len \in Nat /\ Len(d) = len /\ Done = Len(sent) + len /\ DOMAIN d = 1 .. len
  BY <1>2, <1>4, <1>5
<1>7. PICK m \in Nat : m = Len(sent) /\ PaddedFrom(m)
  <2>1. PaddedFrom(Len(sent))
    BY <1>2, <1>4, <1>6
  <2> QED
    BY <1>4, <2>1
<1>8. Sz' = Sz /\ Goal' = Goal /\ Base' = Base
  BY <1>1, SameCommand
<1>9. fsg.residue \in Nat /\ cbw.size \in Nat /\ Done = cbw.size - fsg.residue
  BY Numbers DEF Done
<1>10. CASE fsg.residue = 0 \/ can_stall = 1
  <2>1. PICK zero \in {0, 1} : /\ zero = IF fsg.residue = 0 THEN 0 ELSE 1
                               /\ SendData(len, d, zero)
    BY <1>1, <1>5, <1>10 DEF FinishToHost
  <2>2. /\ pc' = IF fsg.residue = 0 THEN "status" ELSE "halt"
        /\ UNCHANGED <<fsg, io>>
    BY <1>1, <1>10 DEF FinishToHost
  <2>3. /\ bh' \in [Heads -> BhType] /\ inq' \in Seq(InType)
        /\ fill' \in Heads /\ sent' \in Seq(Int) /\ UNCHANGED <<outq, halted, written>>
        /\ Len(sent') = Len(sent) + len
        /\ \A k \in 1 .. Len(sent) : sent'[k] = sent[k]
        /\ \A k \in 1 .. len : sent'[Len(sent) + k] = d[k]
    <3>1. \A k \in 1 .. len : (IF k <= Len(d) THEN d[k] ELSE Junk) = d[k]
      BY <1>6
    <3> QED
      BY <2>1, <3>1, Sends
  <2>4. Ranges'
    BY <1>1, <2>2, <2>3 DEF Ranges
  <2>5. ~Sending' /\ pc' \in {"status", "halt"}
    BY <2>2 DEF Sending, GotCbw
  <2>6. /\ \E q \in [Heads -> Nat] : InOrder(q)'
        /\ Queues' /\ ~CswQueued' /\ NoData'
        /\ \A b \in Heads : Full(b)' => b # fill /\ Full(b)
    <3>1. zero = 1 \/ Len(sent) + len >= cbw.size
      BY <1>6, <1>9, <2>1
    <3> QED
      BY <1>1, <1>3, <1>4, <2>1, <2>5, <3>1, Joins
  <2>7. host.phase # "csw"
    BY <1>1, <1>3 DEF Safe, Phases
  <2>8. Exceptions' /\ Stages' /\ Phases' /\ Passed'
    BY <1>1, <1>3, <2>3, <2>5, <2>6, <2>7, GoesOn
  <2>9. \A q : Tiled(q)' /\ Served(q)' /\ TakenSoFar'
    BY <1>1, <2>5, NotTaking
  <2>10. DataInPlace' /\ PaddedFrom(m + len)'
    <3>1. \A k \in 1 .. len : /\ sent'[Len(sent) + k] \in Nat
                              /\ cbw.op = "read" => sent'[Len(sent) + k] = Base + Len(sent) + k - 1
      BY <1>2, <1>5, <1>6, <2>3
    <3>2. len \in 0 .. len /\ DataInPlace /\ UNCHANGED <<cbw, written>>
      BY <1>1, <1>6, <2>3 DEF Safe
    <3>3. \A k \in 1 .. len : k <= len
      BY <1>6
    <3> QED
      BY <1>6, <1>7, <2>3, <3>1, <3>2, <3>3, Appended
  <2>11. Done' = Done
    BY <1>1, <2>2, SameCommand
  <2>12. SentSoFar'
    <3>1. m + len = Done' /\ Len(sent') = Done' /\ ~(Len(sent') < Done') /\ Len(sent') >= Done'
      BY <1>4, <1>6, <1>7, <2>3, <2>11
    <3>2. PaddedFrom(Done)'
      BY <2>10, <3>1 DEF PaddedFrom
    <3> QED
      BY <1>2, <2>3, <2>5, <3>1, <3>2 DEF SentSoFar
  <2>13. Counted'
    BY <1>1, <1>3, <1>8, <2>2, <2>5, <2>11 DEF Counted, Clean
  <2> QED
    BY <2>4, <2>6, <2>8, <2>9, <2>10, <2>12, <2>13 DEF Safe
<1>11. CASE ~(fsg.residue = 0 \/ can_stall = 1)
  <2>1. /\ pc' = "pad" /\ UNCHANGED <<fill, outq, inq, halted, sent, written>>
        /\ bh' = [bh EXCEPT ![fill].state = "EMPTY"]
        /\ fsg' = [fsg EXCEPT !.left = len + fsg.residue]
        /\ io' = [io EXCEPT !.keep = len]
    BY <1>1, <1>5, <1>11 DEF FinishToHost, QUEUES, UNITS, PadLength
  <2>2. /\ bh' \in [Heads -> BhType]
        /\ \A b \in Heads : b # fill => bh'[b] = bh[b]
        /\ bh'[fill].state = "EMPTY" /\ bh'[fill].want = bh[fill].want /\ bh'[fill].buf = d
    <3> DEFINE r == [bh[fill] EXCEPT !.state = "EMPTY"]
    <3>1. bh \in [Heads -> BhType] /\ bh[fill] \in BhType
      BY <1>4 DEF Ranges
    <3>2. bh' = [bh EXCEPT ![fill] = r]
      BY <1>4, <2>1, <3>1
    <3>3. r \in BhType /\ r.state = "EMPTY" /\ r.want = bh[fill].want /\ r.buf = d
      BY <1>5, <3>1 DEF BhType
    <3> HIDE DEF r
    <3> QED
      BY <1>4, <3>1, <3>2, <3>3
  <2>3. /\ fsg' \in FsgType /\ fsg'.left = len + fsg.residue /\ fsg'.residue = fsg.residue
        /\ fsg'.phase_error = fsg.phase_error /\ fsg'.sense = fsg.sense
    <3>1. len + fsg.residue \in Nat
      BY <1>6, <1>9
    <3>2. fsg \in FsgType
      BY DEF Ranges
    <3> QED
      BY <2>1, <3>1, <3>2 DEF FsgType
  <2>4. io' \in IoType /\ io'.keep = len
    <3>1. io \in IoType
      BY DEF Ranges
    <3> QED
      BY <2>1, <3>1 DEF IoType
  <2>5. Ranges'
    BY <1>1, <2>1, <2>2, <2>3, <2>4 DEF Ranges
  <2>6. Sending'
    BY <1>6, <1>9, <1>11, <2>1, <2>3 DEF Sending
  <2>7. NoData' /\ (\A b \in Heads : ~Full(b)')
    BY <1>3, <2>2 DEF NoData, Data, Full
  <2>8. Queues' /\ ~CswQueued'
    <3>1. \A i \in DOMAIN inq : inq[i].b \in Heads /\ inq[i].b # fill
      BY <1>4, InFlight DEF Safe
    <3>2. Queues'
      BY <1>3, <2>1, <2>2, <2>7, <3>1 DEF Safe, Queues, NoData, Data
    <3>3. ~CswQueued'
      BY <1>1, <2>1 DEF Safe, Phases, CswQueued
    <3> QED
      BY <3>2, <3>3
  <2>9. Exceptions' /\ Stages' /\ Phases' /\ Passed'
    BY <1>1, <1>3, <2>1, <2>7, <2>8, GoesOn
  <2>10. InOrder(pos)'
    BY <1>1, <1>3, <2>1, <2>6 DEF Safe, InOrder
  <2>11. Tiled(pos)' /\ Served(pos)' /\ TakenSoFar'
    BY <1>1, <2>1, NotTaking
  <2>12. Done' = Done
    BY <1>1, <2>3 DEF Done
  <2>13. SentSoFar'
    <3>1. Len(sent') = Len(sent) /\ Len(sent') + fsg'.left = cbw.size /\ written' = {}
      <4>1. Len(sent) + (len + fsg.residue) = cbw.size
        <5>1. Len(sent) + len = cbw.size - fsg.residue
          BY <1>6, <1>9
        <5>2. Len(sent) \in Int /\ len \in Int /\ fsg.residue \in Int /\ cbw.size \in Int
          BY <1>4, <1>6, <1>9
        <5>3. \A a, b, c, e \in Int : a + b = e - c => a + (b + c) = e
          OBVIOUS
        <5> QED
          BY <5>1, <5>2, <5>3
      <4> QED
        BY <1>2, <2>1, <2>3, <4>1
    <3>2. IF len > 0 THEN Len(sent) + len = Done ELSE Len(sent) >= Done
      BY <1>4, <1>6
    <3>3. Empty(fill)' /\ Len(bh'[fill'].buf) = len
      BY <1>6, <2>1, <2>2 DEF Empty
    <3>4. IF Len(sent)' < Done' THEN PaddedFrom(Len(sent))' ELSE PaddedFrom(Done)'
      BY <1>2, <2>1, <2>12 DEF PaddedFrom
    <3>5. \A k \in DOMAIN bh'[fill'].buf :
             /\ bh'[fill'].buf[k] \in Nat
             /\ cbw.op = "read" => bh'[fill'].buf[k] = Base' + Len(sent') + k - 1
      BY <1>2, <1>5, <1>8, <2>1, <2>2
    <3> QED
      BY <1>1, <2>1, <2>4, <2>12, <3>1, <3>2, <3>3, <3>4, <3>5 DEF SentSoFar
  <2>14. Counted'
    <3>1. fsg'.left <= cbw.size
      BY <1>4, <1>6, <1>9, <2>3
    <3> QED
      BY <1>1, <1>3, <1>8, <2>1, <2>3, <2>12, <3>1 DEF Counted, Clean
  <2>15. DataInPlace'
    BY <1>1, <2>1 DEF Safe, DataInPlace
  <2> QED
    BY <2>5, <2>8, <2>9, <2>10, <2>11, <2>13, <2>14, <2>15 DEF Safe
<1> QED
  BY <1>10, <1>11


\* halt_bulk_in_endpoint, when everything was taken.
LEMMA HaltBulkInStep ==
    ASSUME Ranges, NEW pos \in [Heads -> Nat], Safe(pos), HaltBulkIn
    PROVE  Ranges' /\ Safe(pos)'
<1>1. /\ pc = "halt" /\ pc' = "status" /\ inq = <<>> /\ halted' = halted \cup {"in"}
      /\ UNCHANGED <<bh, fill, drain, outq, inq, ignore, exc, fsg, io, cbw, host, resets, sent, written>>
  BY DEF HaltBulkIn, Goto, ASIDE, HOST, UNITS
<1>2. cbw.dir = "in" /\ cbw.form = "ok" /\ cbw \in Cbws /\ exc # "abort"
      /\ outq = <<>> /\ NoData /\ (\A b \in Heads : ~Full(b))
  BY <1>1 DEF Safe, Stages, Exceptions, CmdPcs, NoData
<1>3. ~Sending /\ ~Sending' /\ ~GotCbw' /\ ~GotCbw
  BY <1>1 DEF Sending, GotCbw
<1>4. host.phase # "data" /\ host.phase # "cbw"
  BY <1>1, <1>2, <1>3 DEF Safe, InOrder, Phases
<1>5. Ranges'
  BY <1>1 DEF Ranges
<1>6. Exceptions' /\ Queues' /\ DataInPlace'
  BY <1>1, <1>2 DEF Safe, Exceptions, Queues, Data, Empty, DataInPlace
<1>7. Stages'
  BY <1>1, <1>2, <1>3 DEF Stages, CmdPcs, NoData, Data, Full
<1>8. ~CswQueued'
  BY <1>1 DEF CswQueued
<1>9. Phases' /\ InOrder(pos)' /\ Passed'
  BY <1>1, <1>2, <1>3, <1>4, <1>8 DEF Safe, Phases, InOrder, Passed
<1>10. Tiled(pos)' /\ Served(pos)' /\ TakenSoFar'
  BY <1>1, <1>2, NotTaking
<1>11. Sz' = Sz /\ Base' = Base /\ Done' = Done /\ Done \in Int /\ Len(sent) \in Nat
  BY <1>1, SameCommand, Numbers DEF Ranges
<1>12. SentSoFar' /\ Counted'
  <2>1. Len(sent) = Done /\ Len(sent) >= Done
    BY <1>1, <1>2, <1>11 DEF Safe, SentSoFar, CmdPcs
  <2>2. SentSoFar'
    BY <1>1, <1>2, <1>11, <2>1 DEF Safe, SentSoFar, CmdPcs, PaddedFrom
  <2>3. Counted'
    BY <1>1, <1>11 DEF Safe, Counted, CmdPcs, Clean
  <2> QED
    BY <2>2, <2>3
<1> QED
  BY <1>5, <1>6, <1>7, <1>9, <1>10, <1>12 DEF Safe

\* pad_with_zeros is over.
LEMMA PadEndsStep ==
    ASSUME Ranges, NEW pos \in [Heads -> Nat], Safe(pos), PadEnds
    PROVE  Ranges' /\ Safe(pos)'
<1>1. /\ pc = "pad" /\ pc' = "status" /\ fsg.left = 0
      /\ UNCHANGED <<bh, fill, drain, outq, inq, halted, ignore, exc, fsg, io, cbw, host, resets, sent, written>>
  BY DEF PadEnds, Goto, ASIDE, HOST, UNITS, QUEUES
<1>2. cbw.dir = "in" /\ outq = <<>> /\ NoData /\ (\A b \in Heads : ~Full(b))
  BY <1>1 DEF Safe, Stages, NoData
<1>3. ~Sending /\ ~Sending'
  BY <1>1 DEF Sending, GotCbw
<1>4. Ranges'
  BY <1>1 DEF Ranges
<1>5. Queues' /\ DataInPlace' /\ NoData' /\ (\A b \in Heads : ~Full(b)') /\ ~CswQueued'
  <2>1. ~CswQueued'
    BY <1>1 DEF Safe, Phases, CswQueued
  <2> QED
    BY <1>1, <1>2, <2>1 DEF Safe, Queues, Data, Empty, DataInPlace, NoData, Full
<1>6. Exceptions' /\ Stages' /\ Phases' /\ Passed'
  BY <1>1, <1>2, <1>3, <1>5, GoesOn
<1>7. InOrder(pos)'
  BY <1>1, <1>3 DEF Safe, InOrder
<1>8. Tiled(pos)' /\ Served(pos)' /\ TakenSoFar'
  BY <1>1, <1>2, NotTaking
<1>9. Sz' = Sz /\ Base' = Base /\ Done' = Done
  BY <1>1, SameCommand
<1>10. SentSoFar'
  <2>1. /\ Len(sent) + fsg.left = cbw.size /\ written = {}
        /\ IF io.keep > 0 THEN Len(sent) + io.keep = Done ELSE Len(sent) >= Done
        /\ IF Len(sent) < Done THEN PaddedFrom(Len(sent)) ELSE PaddedFrom(Done)
    BY <1>1, <1>2 DEF Safe, SentSoFar, CmdPcs
  <2>2. Len(sent) \in Nat /\ cbw.size \in Nat /\ fsg.residue \in Nat /\ io.keep \in Nat
    <3>1. Len(sent) \in Nat
      BY DEF Ranges
    <3>2. cbw.size \in Nat /\ fsg.residue \in Nat /\ io.keep \in 0 .. BufLen /\ BufLen \in Nat
      BY Numbers, Lengths
    <3> QED
      BY <3>1, <3>2
  <2>3. Len(sent) = cbw.size
    BY <1>1, <2>1, <2>2
  <2>4. Len(sent) >= Done
    BY <2>1, <2>2, <2>3 DEF Done
  <2> QED
    BY <1>1, <1>9, <2>1, <2>4 DEF SentSoFar, PaddedFrom
<1>11. Counted'
  BY <1>1, <1>9 DEF Safe, Counted, CmdPcs, Clean
<1> QED
  BY <1>4, <1>5, <1>6, <1>7, <1>8, <1>10, <1>11 DEF Safe

\* pad_with_zeros sends a buffer.
LEMMA PadWithZerosStep ==
    ASSUME Ranges, NEW pos \in [Heads -> Nat], Safe(pos), PadWithZeros
    PROVE  Ranges' /\ \E q \in [Heads -> Nat] : Safe(q)'
<1>1. /\ pc = "pad" /\ pc' = "pad" /\ fsg.left > 0 /\ Empty(fill)
      /\ UNCHANGED <<drain, ignore, exc, cbw, host, resets>>
  BY DEF PadWithZeros, ASIDE, HOST
<1>2. cbw.dir = "in" /\ cbw.form = "ok" /\ cbw \in Cbws /\ outq = <<>> /\ NoData
      /\ (\A b \in Heads : ~Full(b)) /\ Sending
  BY <1>1 DEF Safe, Stages, CmdPcs, NoData, Sending
<1>3. /\ Len(sent) + fsg.left = cbw.size /\ written = {}
      /\ IF io.keep > 0
         THEN Len(sent) + io.keep = Done /\ Len(bh[fill].buf) = io.keep
              /\ \A k \in DOMAIN bh[fill].buf :
                    /\ bh[fill].buf[k] \in Nat
                    /\ cbw.op = "read" => bh[fill].buf[k] = Base + Len(sent) + k - 1
         ELSE Len(sent) >= Done
      /\ IF Len(sent) < Done THEN PaddedFrom(Len(sent)) ELSE PaddedFrom(Done)
  BY <1>1, <1>2 DEF Safe, SentSoFar, CmdPcs
<1>4. /\ Len(sent) \in Nat /\ cbw.size \in Nat /\ fsg.left \in Nat /\ fsg.residue \in Nat
      /\ BufLen \in Nat /\ io.keep \in 0 .. BufLen /\ Done = cbw.size - fsg.residue
      /\ fsg.residue <= cbw.size
  <2>1. fsg.residue <= cbw.size
    BY <1>1 DEF Safe, Counted, CmdPcs
  <2> QED
    BY <2>1, Numbers, Lengths DEF Ranges, Done
<1>5. fill \in Heads /\ bh[fill].state = "EMPTY" /\ bh[fill].buf \in Seq(Int)
  BY <1>1 DEF Ranges, BhType, Empty
<1>6. PICK n \in 0 .. BufLen, j \in Nat :
         /\ n = IF fsg.left <= BufLen THEN fsg.left ELSE BufLen
         /\ j = io.keep
         /\ SendData(n, Payload(j, bh[fill].buf) \o [k \in 1 .. n - j |-> Zero], 0)
         /\ fsg' = [fsg EXCEPT !.left = fsg.left - n]
         /\ io' = [io EXCEPT !.keep = 0]
  <2>1. Least({fsg.left, BufLen}) = IF fsg.left <= BufLen THEN fsg.left ELSE BufLen
    BY <1>4, LeastOfTwo
  <2>2. Least({fsg.left, BufLen}) \in 0 .. BufLen /\ io.keep \in Nat
    BY <1>4, <2>1
  <2> QED
    BY <2>1, <2>2 DEF PadWithZeros
<1>7. n \in Nat /\ n > 0 /\ n <= fsg.left /\ j <= n /\ j \in 0 .. n /\ n - j \in Nat
  <2>1. n \in Nat /\ n > 0 /\ n <= fsg.left
    <3>1. BufLen > 0
      BY SizesAssumption
    <3> QED
      BY <1>1, <1>4, <1>6, <3>1
  <2>2. j <= n
    <3>1. CASE j = 0
      BY <2>1, <3>1
    <3>2. CASE j # 0
      <4>1. Len(sent) + j = cbw.size - fsg.residue
        BY <1>3, <1>4, <1>6, <3>2
      <4>2. j <= fsg.left
        BY <1>3, <1>4, <1>6, <4>1
      <4> QED
        BY <1>4, <1>6, <4>2
    <3> QED
      BY <3>1, <3>2
  <2> QED
    BY <1>6, <2>1, <2>2
<1>8. PICK d \in Seq(Int) :
         /\ d = Payload(j, bh[fill].buf) \o [k \in 1 .. n - j |-> Zero] /\ Len(d) = n
         /\ \A k \in 1 .. n : IF k <= j THEN d[k] = bh[fill].buf[k] ELSE d[k] = Zero
  <2> DEFINE x == Payload(j, bh[fill].buf)
             y == [k \in 1 .. n - j |-> Zero]
  <2>1. x \in Seq(Int) /\ Len(x) = j /\ \A k \in 1 .. j : x[k] = bh[fill].buf[k]
    <3>1. j > 0 => Len(bh[fill].buf) = j
      BY <1>3, <1>6
    <3>2. x \in Seq(Int) /\ Len(x) = j
          /\ \A k \in 1 .. j : x[k] = IF k <= Len(bh[fill].buf) THEN bh[fill].buf[k] ELSE Junk
      BY <1>5, <1>6, PayloadIs
    <3> QED
      BY <1>6, <3>1, <3>2
  <2>2. y \in Seq(Int) /\ Len(y) = n - j /\ \A k \in 1 .. n - j : y[k] = Zero
    BY <1>7 DEF Zero
  <2> HIDE DEF x, y
  <2>3. x \o y \in Seq(Int) /\ Len(x \o y) = n
    <3>1. x \o y \in Seq(Int) /\ Len(x \o y) = Len(x) + Len(y)
      BY <2>1, <2>2, ConcatProperties
    <3>2. j + (n - j) = n
      BY <1>6, <1>7
    <3> QED
      BY <2>1, <2>2, <3>1, <3>2
  <2>4. ASSUME NEW k \in 1 .. n
        PROVE IF k <= j THEN (x \o y)[k] = bh[fill].buf[k] ELSE (x \o y)[k] = Zero
    <3>1. CASE k <= j
      <4>1. k \in 1 .. j
        BY <1>6, <1>7, <3>1
      <4>2. (x \o y)[k] = x[k]
        BY <2>1, <2>2, <4>1
      <4> QED
        BY <2>1, <3>1, <4>1, <4>2
    <3>2. CASE ~(k <= j)
      <4>1. k - j \in 1 .. n - j /\ k = j + (k - j)
        BY <1>6, <1>7, <3>2
      <4>2. (x \o y)[k] = y[k - j]
        BY <2>1, <2>2, <4>1
      <4> QED
        BY <2>2, <3>2, <4>1, <4>2
    <3> QED
      BY <3>1, <3>2
  <2> QED
    BY <2>3, <2>4 DEF x, y
<1>9. /\ bh' \in [Heads -> BhType] /\ inq' \in Seq(InType)
      /\ fill' \in Heads /\ sent' \in Seq(Int) /\ UNCHANGED <<outq, halted, written>>
      /\ Len(sent') = Len(sent) + n
      /\ \A k \in 1 .. Len(sent) : sent'[k] = sent[k]
      /\ \A k \in 1 .. n : sent'[Len(sent) + k] = d[k]
  <2>1. \A k \in 1 .. n : (IF k <= Len(d) THEN d[k] ELSE Junk) = d[k]
    <3>1. Len(d) = n /\ \A k \in 1 .. n : k <= n
      BY <1>7, <1>8
    <3> QED
      BY <3>1
  <2>2. SendData(n, d, 0)
    BY <1>6, <1>8
  <2> QED
    BY <2>1, <2>2, Sends
<1>10. /\ fsg' \in FsgType /\ fsg'.left = fsg.left - n /\ fsg'.residue = fsg.residue
       /\ fsg'.phase_error = fsg.phase_error /\ fsg'.sense = fsg.sense
       /\ io' \in IoType /\ io'.keep = 0
  <2>1. fsg.left - n \in Nat /\ 0 \in 0 .. BufLen
    BY <1>4, <1>7
  <2>2. fsg \in FsgType /\ io \in IoType
    BY DEF Ranges
  <2>3. /\ fsg' \in FsgType /\ fsg'.left = fsg.left - n /\ fsg'.residue = fsg.residue
        /\ fsg'.phase_error = fsg.phase_error /\ fsg'.sense = fsg.sense
    BY <1>6, <2>1, <2>2 DEF FsgType
  <2>4. io' \in IoType /\ io'.keep = 0
    BY <1>6, <2>1, <2>2 DEF IoType
  <2> QED
    BY <2>3, <2>4
<1>11. Ranges'
  BY <1>1, <1>9, <1>10 DEF Ranges
<1>12. Sz' = Sz /\ Base' = Base /\ Done' = Done
  BY <1>1, <1>10, SameCommand DEF Done
<1>13. /\ \E q \in [Heads -> Nat] : InOrder(q)'
       /\ Queues' /\ ~CswQueued' /\ NoData'
       /\ \A b \in Heads : Full(b)' => b # fill /\ Full(b)
  <2>1. Sending' <=> fsg'.left > 0
    BY <1>1 DEF Sending, GotCbw
  <2>2. fsg'.left > 0 => n = BufLen /\ Len(sent) + n < cbw.size
    BY <1>3, <1>4, <1>6, <1>7, <1>10
  <2>3. ~(fsg'.left > 0) => Len(sent) + n >= cbw.size
    BY <1>3, <1>4, <1>6, <1>7, <1>10
  <2>4. (0 = 1 \/ n = 0 \/ n % Block # 0 \/ Len(sent) + n >= cbw.size) <=> ~Sending'
    <3>1. BufLen % Block = 0
      BY Lengths
    <3>2. CASE fsg'.left > 0
      <4>1. ~(Len(sent) + n >= cbw.size) /\ n # 0 /\ n % Block = 0
        BY <1>4, <1>7, <2>2, <3>1, <3>2
      <4> QED
        BY <2>1, <3>2, <4>1
    <3> QED
      BY <2>1, <2>3, <3>2
  <2>5. SendData(n, d, 0)
    BY <1>6, <1>8
  <2> QED
    BY <1>1, <1>2, <1>5, <2>4, <2>5, Joins
<1>14. host.phase # "csw"
  BY <1>2 DEF Safe, Phases
<1>15. Exceptions' /\ Stages' /\ Phases' /\ Passed'
  BY <1>1, <1>2, <1>9, <1>13, <1>14, GoesOn
<1>16. \A q : Tiled(q)' /\ Served(q)' /\ TakenSoFar'
  BY <1>1, <1>2, NotTaking
<1>17. PICK m \in Nat : PaddedFrom(m) /\ (j > 0 => m = Len(sent)) /\ m + j = Done
  <2>1. CASE j > 0
    <3>1. Len(sent) + j = Done /\ Len(sent) < Done
      BY <1>3, <1>4, <1>6, <2>1
    <3> QED
      BY <1>3, <1>4, <2>1, <3>1
  <2>2. CASE ~(j > 0)
    <3>1. j = 0 /\ Done \in Nat /\ ~(Len(sent) < Done) /\ Done + j = Done
      BY <1>3, <1>4, <1>6, <2>2
    <3> QED
      BY <1>3, <2>2, <3>1
  <2> QED
    BY <2>1, <2>2
<1>18. DataInPlace' /\ PaddedFrom(m + j)'
  <2>1. ASSUME NEW k \in 1 .. n
        PROVE  IF k <= j THEN /\ sent'[Len(sent) + k] \in Nat
                              /\ cbw.op = "read" => sent'[Len(sent) + k] = Base + Len(sent) + k - 1
               ELSE sent'[Len(sent) + k] = Zero
    <3>1. CASE k <= j
      <4>1. j > 0 /\ k \in 1 .. j
        BY <1>6, <1>7, <3>1
      <4>2. k \in DOMAIN bh[fill].buf
        BY <1>3, <1>5, <1>6, <4>1
      <4>3. sent'[Len(sent) + k] = bh[fill].buf[k]
        BY <1>8, <1>9, <3>1
      <4>4. /\ bh[fill].buf[k] \in Nat
            /\ cbw.op = "read" => bh[fill].buf[k] = Base + Len(sent) + k - 1
        BY <1>3, <1>6, <4>1, <4>2
      <4> QED
        BY <3>1, <4>3, <4>4
    <3>2. CASE ~(k <= j)
      BY <1>8, <1>9, <3>2
    <3> QED
      BY <3>1, <3>2
  <2>2. UNCHANGED <<cbw, written>> /\ DataInPlace
    BY <1>1, <1>9 DEF Safe
  <2> QED
    BY <1>7, <1>9, <1>17, <2>1, <2>2, Appended
<1>19. SentSoFar'
  <2>1. PaddedFrom(Done)'
    BY <1>12, <1>17, <1>18 DEF PaddedFrom
  <2>2. Len(sent') + fsg'.left = cbw.size
    BY <1>3, <1>4, <1>7, <1>9, <1>10
  <2>3. Len(sent') >= Done' /\ ~(Len(sent') < Done')
    <3>1. Done \in Int /\ m <= Len(sent)
      BY <1>4, <1>17 DEF PaddedFrom
    <3>2. \A l, i \in Nat : i <= n /\ m <= l => l + n >= m + i /\ ~(l + n < m + i)
      BY <1>7
    <3> QED
      BY <1>4, <1>7, <1>9, <1>12, <1>17, <3>1, <3>2
  <2> QED
    BY <1>1, <1>3, <1>9, <1>10, <2>1, <2>2, <2>3 DEF SentSoFar
<1>20. Counted'
  <2>1. /\ fsg.left <= cbw.size
        /\ (fsg.phase_error = 0 => ~Conflict(cbw) /\ Sz <= cbw.size)
        /\ (Clean => (cbw.op = "read" => Done >= Sz)
                   /\ (cbw.op = "write" => Done <= Sz /\ (Done = Sz \/ Done = host.moved)))
    BY <1>1 DEF Safe, Counted, CmdPcs
  <2>2. fsg'.left <= cbw.size
    BY <1>4, <1>7, <1>10, <2>1
  <2> QED
    BY <1>1, <1>4, <1>10, <1>12, <2>1, <2>2 DEF Counted, Clean
<1> QED
  BY <1>11, <1>13, <1>15, <1>16, <1>18, <1>19, <1>20 DEF Safe


-----------------------------------------------------------------------------
(* The status phase.                                                       *)

\* As many units are written as there are positions.
LEMMA PrefixSize ==
    ASSUME Ranges, NEW w \in Nat
    PROVE  Cardinality(Prefix(w)) = w
<1>1. Base \in Nat
  BY Numbers
<1> DEFINE f == [k \in 0 .. w - 1 |-> <<Base + k, k>>]
<1>2. f \in Injection(0 .. w - 1, Prefix(w))
  <2>1. f \in [0 .. w - 1 -> Prefix(w)]
    BY DEF Prefix
  <2>2. \A a, b \in 0 .. w - 1 : f[a] = f[b] => a = b
    OBVIOUS
  <2> HIDE DEF f
  <2> QED
    BY <2>1, <2>2, Fun_IsInj
<1>3. f \in Surjection(0 .. w - 1, Prefix(w))
  <2>1. f \in [0 .. w - 1 -> Prefix(w)]
    BY DEF Prefix
  <2>2. \A t \in Prefix(w) : \E s \in 0 .. w - 1 : f[s] = t
    BY DEF Prefix
  <2> HIDE DEF f
  <2> QED
    BY <2>1, <2>2, Fun_IsSurj
<1> HIDE DEF f
<1>4. ExistsBijection(0 .. w - 1, Prefix(w))
  BY <1>2, <1>3 DEF ExistsBijection, Bijection
<1>5. IsFiniteSet(0 .. w - 1) /\ Cardinality(0 .. w - 1) = w
  <2>1. 0 \in Int /\ w - 1 \in Int
    OBVIOUS
  <2>2. IsFiniteSet(0 .. w - 1) /\ Cardinality(0 .. w - 1) = IF 0 > w - 1 THEN 0 ELSE (w - 1) - 0 + 1
    BY <2>1, FS_Interval
  <2> QED
    BY <2>2
<1> QED
  BY <1>4, <1>5, FS_Bijection

\* send_status queues the status behind the data; if it says "pass", that is true.
LEMMA SendStatusStep ==
    ASSUME Ranges, tag \in Nat, NEW pos \in [Heads -> Nat], Safe(pos), SendStatus
    PROVE  Ranges' /\ Safe(pos)'
<1> DEFINE t == [b |-> fill, kind |-> "csw", data |-> <<>>, zero |-> 0,
                 csw |-> [tag |-> tag, residue |-> ResidueOf, status |-> StatusOf]]
<1>1. /\ pc = "status" /\ pc' = "get" /\ Empty(fill) /\ inq' = Append(inq, t)
      /\ bh' = [bh EXCEPT ![fill].state = "BUSY", ![fill].inlen = CswLen]
      /\ fill' = NextBh(fill)
      /\ UNCHANGED <<drain, outq, halted, ignore, exc, fsg, io, cbw, host, resets, sent, written>>
  BY DEF SendStatus, Goto, ASIDE, HOST, UNITS
<1>2. t \in InType /\ t.b = fill /\ t.kind = "csw" /\ t.csw.status = StatusOf
  <2>1. tag \in Nat /\ ResidueOf \in Nat /\ StatusOf \in {"none", "pass", "fail", "phase"}
        /\ <<>> \in Seq(Int) /\ fill \in Heads
    BY SizesAssumption DEF Ranges, HostType, FsgType, ResidueOf, StatusOf
  <2> QED
    BY <2>1 DEF InType, CswType
<1> HIDE DEF t
<1>3. /\ inq' \in Seq(InType) /\ Len(inq') = Len(inq) + 1 /\ inq'[Len(inq) + 1] = t
      /\ \A i \in 1 .. Len(inq) : inq'[i] = inq[i]
      /\ Len(inq) \in Nat /\ DOMAIN inq = 1 .. Len(inq) /\ DOMAIN inq' = 1 .. Len(inq) + 1
      /\ inq' # <<>> /\ inq'[Len(inq')] = t
  <2>1. inq \in Seq(InType) /\ inq' = Append(inq, t)
    BY <1>1 DEF Ranges
  <2>2. /\ inq' \in Seq(InType) /\ Len(inq') = Len(inq) + 1 /\ inq'[Len(inq) + 1] = t
        /\ \A i \in 1 .. Len(inq) : inq'[i] = inq[i]
    BY <1>2, <2>1
  <2>3. Len(inq) \in Nat /\ DOMAIN inq = 1 .. Len(inq) /\ DOMAIN inq' = 1 .. Len(inq) + 1
    BY <2>1, <2>2
  <2> QED
    BY <2>2, <2>3
<1>4. /\ bh' \in [Heads -> BhType] /\ fill \in Heads /\ fill' \in Heads
      /\ \A b \in Heads : b # fill => bh'[b] = bh[b]
      /\ bh[fill].state = "EMPTY" /\ bh'[fill].state = "BUSY" /\ bh'[fill].want = bh[fill].want
  <2> DEFINE r == [bh[fill] EXCEPT !.state = "BUSY", !.inlen = CswLen]
  <2>1. bh \in [Heads -> BhType] /\ fill \in Heads /\ bh[fill] \in BhType /\ CswLen \in 0 .. BufLen
    BY SizesAssumption DEF Ranges
  <2>2. bh' = [bh EXCEPT ![fill] = r]
    BY <1>1, <2>1
  <2>3. r \in BhType /\ r.state = "BUSY" /\ r.want = bh[fill].want
    BY <2>1 DEF BhType
  <2> HIDE DEF r
  <2> QED
    BY <1>1, <2>1, <2>2, <2>3, Ring DEF Empty
<1>5. Ranges'
  BY <1>1, <1>3, <1>4 DEF Ranges
<1>6. /\ outq = <<>> /\ NoData /\ cbw.form = "ok" /\ cbw \in Cbws /\ exc # "abort"
      /\ host.phase # "cbw" /\ ~CswQueued /\ (\A b \in Heads : ~Full(b))
  BY <1>1 DEF Safe, Stages, Exceptions, Phases, CmdPcs, NoData
<1>7. \A i \in DOMAIN inq : inq[i] \in InType /\ inq[i].b \in Heads /\ inq[i].b # fill
  BY <1>4, InFlight DEF Safe
<1>8. \A i \in DOMAIN inq : inq[i].kind = "data"
  <2>1. \A i \in DOMAIN inq : inq[i].kind = "csw" => i = Len(inq)
    BY DEF Safe, Queues
  <2> QED
    BY <1>3, <1>6, <1>7, <2>1 DEF CswQueued, InType
<1>9. NoData' /\ (\A b \in Heads : ~Full(b)') /\ ~GotCbw' /\ CswQueued' /\ ~Sending' /\ ~Sending
      /\ ~GotCbw
  BY <1>1, <1>2, <1>3, <1>4, <1>6 DEF NoData, Data, Full, GotCbw, CswQueued, Sending
<1>10. Exceptions' /\ DataInPlace'
  BY <1>1 DEF Safe, Exceptions, DataInPlace
<1>11. Queues'
  <2>1. ASSUME NEW i \in DOMAIN inq'
        PROVE  bh'[inq'[i].b].state = "BUSY" /\ inq'[i].b \in Heads
               /\ (inq'[i].kind = "csw" => i = Len(inq'))
    <3>1. CASE i \in 1 .. Len(inq)
      <4>1. inq'[i] = inq[i] /\ i \in DOMAIN inq
        BY <1>3, <3>1
      <4> QED
        BY <1>4, <1>7, <1>8, <4>1 DEF Safe, Queues
    <3>2. CASE i = Len(inq) + 1
      BY <1>2, <1>3, <1>4, <3>2
    <3> QED
      BY <1>3, <3>1, <3>2
  <2>2. \A i, j \in DOMAIN inq' : inq'[i].b = inq'[j].b => i = j
    <3>1. \A i, j \in 1 .. Len(inq) : inq'[i].b = inq'[j].b => i = j
      <4>1. \A i, j \in 1 .. Len(inq) : inq[i].b = inq[j].b => i = j
        BY <1>3 DEF Safe, Queues
      <4>2. \A i \in 1 .. Len(inq) : inq'[i] = inq[i]
        BY <1>3
      <4> QED
        BY <4>1, <4>2
    <3>2. ASSUME NEW i \in 1 .. Len(inq) PROVE inq'[i].b # inq'[Len(inq) + 1].b
      <4>1. inq'[i] = inq[i] /\ inq[i].b # fill /\ inq'[Len(inq) + 1].b = fill
        BY <1>2, <1>3, <1>7
      <4> QED
        BY <4>1
    <3>3. \A i \in DOMAIN inq' : i \in 1 .. Len(inq) \/ i = Len(inq) + 1
      BY <1>3
    <3> QED
      BY <3>1, <3>2, <3>3
  <2>3. (\A i \in DOMAIN outq' : FALSE) /\ \A b \in Heads : bh'[b].want # "data"
    <3>1. outq' = <<>>
      BY <1>1, <1>6
    <3>2. \A b \in Heads : bh'[b].want # "data"
      BY <1>9 DEF NoData, Data
    <3> QED
      BY <3>1, <3>2
  <2> QED
    BY <2>1, <2>2, <2>3 DEF Queues, Data
<1>12. Stages'
  BY <1>1, <1>6, <1>9 DEF Stages, CmdPcs
<1>13. host.phase = "csw" => inq = <<>>
  <2>1. host.phase = "csw" => \A i \in DOMAIN inq : inq[i].kind = "csw"
    BY DEF Safe, Phases
  <2>2. inq # <<>> => 1 \in DOMAIN inq
    BY <1>3 DEF Ranges
  <2> QED
    BY <1>8, <2>1, <2>2
<1>14. host.phase = "data" => cbw.dir = "in"
  <2>1. cbw.dir # "in" => host.phase # "data"
    BY <1>1 DEF Safe, TakenSoFar, CmdPcs
  <2> QED
    BY <2>1
<1>15. Phases'
  <2>1. host.phase = "csw" => \A i \in DOMAIN inq' : inq'[i].kind = "csw"
    <3>1. SUFFICES ASSUME host.phase = "csw" PROVE \A i \in DOMAIN inq' : i = Len(inq) + 1
      BY <1>2, <1>3
    <3>2. Len(inq) = 0
      BY <1>13, <3>1
    <3> QED
      BY <1>3, <3>2
  <2> QED
    BY <1>1, <1>6, <1>9, <1>14, <2>1 DEF Safe, Phases
<1>16. InOrder(pos)'
  <2>1. SUFFICES ASSUME host.phase = "data", cbw.dir = "in" PROVE InOrder(pos)'
    BY <1>1 DEF InOrder
  <2>2. inq # <<>> /\ Len(inq) > 0
    BY <1>3, <1>9, <2>1 DEF Safe, InOrder, Ranges
  <2>3. inq'[1] = inq[1]
    BY <1>3, <2>2
  <2>4. inq'[1].kind = "data" /\ pos[inq'[1].b] = host'.moved
    BY <1>1, <2>1, <2>2, <2>3 DEF Safe, InOrder
  <2>5. ASSUME NEW i \in DOMAIN inq', inq'[i].kind = "data"
        PROVE  LET p == pos[inq'[i].b] IN
               IF i < Len(inq') /\ inq'[i + 1].kind = "data"
               THEN pos[inq'[i + 1].b] = p + Len(inq'[i].data) /\ ~Ending(inq'[i], p, cbw'.size)
               ELSE p + Len(inq'[i].data) = Len(sent') /\ (Ending(inq'[i], p, cbw'.size) <=> ~Sending')
    <3>1. i \in 1 .. Len(inq)
      BY <1>2, <1>3, <2>5
    <3>2. inq'[i] = inq[i] /\ i \in DOMAIN inq /\ inq[i].kind = "data"
      BY <1>3, <1>8, <3>1
    <3>3. CASE i < Len(inq)
      <4>1. inq'[i + 1] = inq[i + 1] /\ inq[i + 1].kind = "data" /\ i < Len(inq')
        BY <1>3, <1>8, <3>1, <3>3
      <4> QED
        BY <1>1, <2>1, <3>2, <3>3, <4>1 DEF Safe, InOrder
    <3>4. CASE i = Len(inq)
      <4>1. inq'[i + 1].kind = "csw" /\ ~(i < Len(inq))
        BY <1>2, <1>3, <3>4
      <4> QED
        BY <1>1, <1>9, <2>1, <3>2, <4>1 DEF Safe, InOrder
    <3> QED
      BY <1>3, <3>1, <3>3, <3>4
  <2> QED
    BY <1>3, <2>4, <2>5 DEF InOrder
<1>17. SentSoFar' /\ TakenSoFar' /\ Counted' /\ Tiled(pos)' /\ Served(pos)'
  BY <1>1, <1>6, Quiet
<1>18. Passed'
  <2>1. SUFFICES ASSUME StatusOf = "pass"
                 PROVE  /\ cbw.op = "read" => Len(sent) >= Sz
                        /\ cbw.op = "write" => /\ cbw.dir # "in"
                                               /\ Cardinality(written) = Least({Sz, host.moved})
    BY <1>1, <1>2, <1>3, SameCommand DEF Passed
  <2>2. Clean
    BY <2>1 DEF StatusOf, Clean, Ranges, FsgType
  <2>3. /\ fsg.residue <= cbw.size /\ ~Conflict(cbw) /\ Sz <= cbw.size
        /\ cbw.op = "read" => Done >= Sz
        /\ cbw.op = "write" => Done <= Sz /\ (Done = Sz \/ Done = host.moved)
    BY <1>1, <2>2 DEF Safe, Counted, CmdPcs, Clean
  <2>4. /\ Done \in Nat /\ Sz \in Nat /\ Goal = Sz /\ host.moved \in Nat /\ Len(sent) \in Nat
    <3>1. fsg.residue \in Nat /\ cbw.size \in Nat /\ Sz \in Nat /\ Goal = Sz /\ host.moved \in Nat
      BY <2>3, Numbers
    <3>2. Len(sent) \in Nat
      BY DEF Ranges
    <3> QED
      BY <2>3, <3>1, <3>2 DEF Done
  <2>5. cbw.dir = "in" => Len(sent) >= Done
    BY <1>1 DEF Safe, SentSoFar, CmdPcs
  <2>6. cbw.dir # "in" => written = Prefix(Done) /\ Done <= host.moved
    BY <1>1 DEF Safe, TakenSoFar, CmdPcs
  <2>7. cbw.op = "read" /\ cbw.dir # "in" => Sz = 0
    BY <2>3, <2>4 DEF Conflict, DirFromCmnd, Goal, Sz
  <2>8. cbw.op = "write" => cbw.dir # "in"
    <3>1. cbw.op = "write" /\ cbw.dir = "in" => Sz = 0
      BY <2>3, <2>4 DEF Conflict, DirFromCmnd, Goal, Sz
    <3> QED
      BY <1>6, <3>1, OrdinaryAssumption DEF Unusual, Sz
  <2>9. cbw.op = "read" => Len(sent) >= Sz
    BY <2>3, <2>4, <2>5, <2>7
  <2>10. cbw.op = "write" => Cardinality(written) = Least({Sz, host.moved})
    <3>1. Cardinality(Prefix(Done)) = Done
      BY <2>4, PrefixSize
    <3>2. Least({Sz, host.moved}) = IF Sz <= host.moved THEN Sz ELSE host.moved
      BY <2>4, LeastOfTwo
    <3> QED
      BY <2>3, <2>4, <2>6, <2>8, <3>1, <3>2
  <2> QED
    BY <2>8, <2>9, <2>10
<1> QED
  BY <1>5, <1>10, <1>11, <1>12, <1>15, <1>16, <1>17, <1>18 DEF Safe


\* The host takes a transfer: the others stay as they are.
LEMMA Takes ==
    ASSUME Ranges, NEW pos \in [Heads -> Nat], Safe(pos), inq # <<>>, InDone
    PROVE  /\ Queues' /\ (NoData => NoData') /\ UNCHANGED <<outq, halted>>
           /\ bh' \in [Heads -> BhType] /\ inq' \in Seq(InType)
           /\ Len(inq) \in Nat /\ Len(inq) > 0 /\ Len(inq') = Len(inq) - 1
           /\ \A i \in 1 .. Len(inq) - 1 : inq'[i] = inq[i + 1]
           /\ \A i \in 1 .. Len(inq) : inq[i] \in InType
           /\ \A i \in 1 .. Len(inq) : inq[i].kind = "csw" => i = Len(inq)
           /\ inq' = <<>> <=> Len(inq) = 1
           /\ CswQueued' => CswQueued
           /\ CswQueued /\ Len(inq) > 1 => CswQueued'
           /\ inq'# <<>> => inq'[Len(inq')] = inq[Len(inq)]
           /\ \A b \in Heads : bh[b].state # "BUSY" => bh'[b] = bh[b]
           /\ \A b \in Heads : Full(b)' => Full(b)
           /\ \A b \in Heads : Data(b)' <=> Data(b)
<1>1. /\ bh' \in [Heads -> BhType] /\ inq' \in Seq(InType) /\ UNCHANGED <<outq, halted>>
      /\ inq[1] \in InType /\ inq[1].b \in Heads /\ Head(inq) = inq[1]
      /\ \A b \in Heads : b # inq[1].b => bh'[b] = bh[b]
      /\ bh'[inq[1].b].state = "EMPTY" /\ bh'[inq[1].b].want = bh[inq[1].b].want
      /\ Len(inq') = Len(inq) - 1
      /\ \A i \in 1 .. Len(inq) - 1 : inq'[i] = inq[i + 1]
  BY InFinishes
<1>2. /\ Len(inq) \in Nat /\ Len(inq) > 0 /\ DOMAIN inq = 1 .. Len(inq)
      /\ DOMAIN inq' = 1 .. Len(inq) - 1 /\ (\A i \in 1 .. Len(inq) : inq[i] \in InType)
  BY <1>1 DEF Ranges
<1>3. inq' = <<>> <=> Len(inq) = 1
  BY <1>1, <1>2
<1>4. inq' # <<>> => Len(inq) > 1 /\ inq'[Len(inq')] = inq[Len(inq)]
  <2>1. SUFFICES ASSUME inq' # <<>> PROVE Len(inq) > 1 /\ inq'[Len(inq')] = inq[Len(inq)]
    OBVIOUS
  <2>2. Len(inq) > 1
    BY <1>2, <1>3, <2>1
  <2>3. Len(inq) - 1 \in 1 .. Len(inq) - 1 /\ (Len(inq) - 1) + 1 = Len(inq)
    BY <1>2, <2>2
  <2> QED
    BY <1>1, <2>2, <2>3
<1>5. (CswQueued' => CswQueued) /\ (CswQueued /\ Len(inq) > 1 => CswQueued')
  BY <1>2, <1>3, <1>4 DEF CswQueued
<1>6. \A i \in 1 .. Len(inq) : inq[i].kind = "csw" => i = Len(inq)
  BY <1>2 DEF Safe, Queues
<1>7. bh[inq[1].b].state = "BUSY" /\ ~Data(inq[1].b)
  BY <1>2 DEF Safe, Queues
<1>8. /\ \A b \in Heads : bh[b].state # "BUSY" => bh'[b] = bh[b]
      /\ \A b \in Heads : Full(b)' => Full(b)
      /\ \A b \in Heads : Data(b)' <=> Data(b)
  BY <1>1, <1>7 DEF Full, Data
<1>9. NoData => NoData'
  BY <1>8 DEF NoData
<1>10. Queues'
  <2>1. ASSUME NEW i \in DOMAIN inq'
        PROVE  /\ bh'[inq'[i].b].state = "BUSY" /\ bh'[inq'[i].b].want # "data"
               /\ inq'[i].kind = "csw" => i = Len(inq')
    <3>1. i + 1 \in DOMAIN inq /\ 1 \in DOMAIN inq /\ i + 1 # 1 /\ inq'[i] = inq[i + 1]
      BY <1>1, <1>2
    <3>2. inq[i + 1].b # inq[1].b /\ bh[inq[i + 1].b].state = "BUSY" /\ ~Data(inq[i + 1].b)
          /\ (inq[i + 1].kind = "csw" => i + 1 = Len(inq))
      BY <3>1 DEF Safe, Queues
    <3>3. inq[i + 1].b \in Heads
      BY <1>2, <3>1 DEF InType
    <3>4. bh'[inq'[i].b] = bh[inq[i + 1].b]
      BY <1>1, <3>1, <3>2, <3>3
    <3> QED
      BY <1>1, <1>2, <3>1, <3>2, <3>4 DEF Data
  <2>2. ASSUME NEW i \in DOMAIN inq', NEW j \in DOMAIN inq', inq'[i].b = inq'[j].b PROVE i = j
    <3>1. i + 1 \in DOMAIN inq /\ j + 1 \in DOMAIN inq /\ inq'[i] = inq[i + 1] /\ inq'[j] = inq[j + 1]
      BY <1>1, <1>2
    <3>2. i + 1 = j + 1
      BY <2>2, <3>1 DEF Safe, Queues
    <3> QED
      BY <1>2, <3>2
  <2>3. \A i \in DOMAIN outq' : bh'[outq'[i]].state = "BUSY" /\ bh'[outq'[i]].want # "none"
    <3>1. ASSUME NEW i \in DOMAIN outq PROVE bh'[outq[i]].state = "BUSY" /\ bh'[outq[i]].want # "none"
      <4>1. bh[outq[i]].state = "BUSY" /\ bh[outq[i]].want # "none" /\ outq[i] \in Heads
        BY DEF Safe, Queues, Ranges
      <4>2. outq[i] # inq[1].b
        BY <1>2 DEF Safe, Queues
      <4> QED
        BY <1>1, <4>1, <4>2
    <3> QED
      BY <1>1, <3>1
  <2>4. \A i, j \in DOMAIN outq' : outq'[i] = outq'[j] => i = j
    BY <1>1 DEF Safe, Queues
  <2>5. \A b \in Heads : Data(b)' => ~Empty(b)'
    BY <1>1, <1>7, <1>8 DEF Safe, Queues, Empty, Data
  <2>6. \A i \in DOMAIN inq', j \in DOMAIN outq' : inq'[i].b # outq'[j]
    <3>1. ASSUME NEW i \in DOMAIN inq', NEW j \in DOMAIN outq PROVE inq'[i].b # outq[j]
      <4>1. i + 1 \in DOMAIN inq /\ inq'[i] = inq[i + 1]
        BY <1>1, <1>2
      <4> QED
        BY <4>1 DEF Safe, Queues
    <3> QED
      BY <1>1, <3>1
  <2> QED
    BY <2>1, <2>2, <2>3, <2>4, <2>5, <2>6 DEF Queues, Data
<1> QED
  BY <1>1, <1>2, <1>3, <1>4, <1>5, <1>6, <1>8, <1>9, <1>10


\* The host takes a transfer of the data phase.
LEMMA HostTakesDataStep ==
    ASSUME Ranges, NEW pos \in [Heads -> Nat], Safe(pos), HostTakesData
    PROVE  Ranges' /\ Safe(pos)'
<1>1. /\ host.phase = "data" /\ cbw.dir = "in" /\ inq # <<>> /\ "in" \notin halted /\ InDone
      /\ UNCHANGED <<pc, fill, drain, ignore, exc, fsg, io, cbw, resets, sent, written>>
  BY DEF HostTakesData, THREAD, UNITS
<1>2. /\ Queues' /\ (NoData => NoData') /\ UNCHANGED <<outq, halted>>
      /\ bh' \in [Heads -> BhType] /\ inq' \in Seq(InType)
      /\ Len(inq) \in Nat /\ Len(inq) > 0 /\ Len(inq') = Len(inq) - 1
      /\ \A i \in 1 .. Len(inq) - 1 : inq'[i] = inq[i + 1]
      /\ \A i \in 1 .. Len(inq) : inq[i] \in InType
      /\ \A i \in 1 .. Len(inq) : inq[i].kind = "csw" => i = Len(inq)
      /\ inq' = <<>> <=> Len(inq) = 1
      /\ CswQueued' => CswQueued
      /\ CswQueued /\ Len(inq) > 1 => CswQueued'
      /\ inq'# <<>> => inq'[Len(inq')] = inq[Len(inq)]
      /\ \A b \in Heads : bh[b].state # "BUSY" => bh'[b] = bh[b]
      /\ \A b \in Heads : Full(b)' => Full(b)
      /\ \A b \in Heads : Data(b)' <=> Data(b)
  BY <1>1, Takes
<1>3. DOMAIN inq = 1 .. Len(inq) /\ DOMAIN inq' = 1 .. Len(inq) - 1 /\ 1 \in DOMAIN inq
      /\ inq[1] = Head(inq)
  BY <1>2 DEF Ranges
<1>4. inq[1].kind = "data" /\ pos[inq[1].b] = host.moved /\ exc = "none" /\ pc # "exc"
      /\ cbw.form = "ok"
  BY <1>1 DEF Safe, InOrder, Exceptions, Phases, Ranges
<1>5. PICK n \in Nat : n = Len(inq[1].data)
  <2>1. inq[1] \in InType
    BY <1>2, <1>3
  <2>2. inq[1].data \in Seq(Int)
    BY <2>1 DEF InType
  <2>3. Len(inq[1].data) \in Nat
    BY <2>2
  <2> QED
    BY <2>3
<1>6. /\ host' \in HostType /\ host'.moved = host.moved + n
      /\ host'.phase = IF Ending(inq[1], host.moved, cbw.size) THEN "csw" ELSE "data"
  <2>1. host' = [host EXCEPT !.moved = host.moved + n,
                             !.phase = IF Ending(inq[1], host.moved, cbw.size) THEN "csw" ELSE "data"]
    BY <1>3, <1>5 DEF HostTakesData, Ending
  <2>2. host \in HostType
    BY DEF Ranges
  <2>3. host.moved + n \in Nat
    BY <2>2 DEF HostType
  <2> QED
    BY <2>1, <2>2, <2>3 DEF HostType
<1>7. Ranges'
  BY <1>1, <1>2, <1>6 DEF Ranges
<1>8. IF 1 < Len(inq) /\ inq[2].kind = "data"
      THEN pos[inq[2].b] = host'.moved /\ host'.phase = "data"
      ELSE host'.moved = Len(sent) /\ (host'.phase = "csw" <=> ~Sending)
  <2>1. LET p == pos[inq[1].b] IN
        IF 1 < Len(inq) /\ inq[1 + 1].kind = "data"
        THEN pos[inq[1 + 1].b] = p + Len(inq[1].data) /\ ~Ending(inq[1], p, cbw.size)
        ELSE p + Len(inq[1].data) = Len(sent) /\ (Ending(inq[1], p, cbw.size) <=> ~Sending)
    BY <1>1, <1>3, <1>4 DEF Safe, InOrder
  <2> QED
    BY <1>4, <1>5, <1>6, <2>1
<1>9. /\ fill \in Heads
      /\ \A b \in Heads : Full(b) <=> Full(b)'
      /\ \A b \in Heads : Empty(b) => bh'[b] = bh[b]
      /\ \A b \in Heads : Full(b) => bh'[b] = bh[b]
  BY <1>2 DEF Ranges, Full, Empty
<1>10. (GotCbw' <=> GotCbw) /\ (Sending' <=> Sending)
  BY <1>1, <1>9 DEF GotCbw, Sending
<1>11. Exceptions' /\ DataInPlace'
  BY <1>1, <1>4, <1>6 DEF Safe, Exceptions, DataInPlace
<1>12. ~((GotCbw /\ bh[fill].err = 0) \/ pc = "scsi")
  BY <1>1 DEF Safe, Stages
<1>13. Stages'
  <2>1. ~((GotCbw /\ bh[fill].err = 0) \/ pc = "scsi")'
    BY <1>1, <1>9, <1>10, <1>12 DEF GotCbw
  <2>2. pc = "cbw" => NoData' /\ \/ outq' = <<fill>> /\ bh'[fill].want = "cbw"
                                 \/ outq' = <<>> /\ Full(fill)'
    <3>1. SUFFICES ASSUME pc = "cbw"
          PROVE  /\ NoData'
                 /\ \/ outq' = <<fill>> /\ bh'[fill].want = "cbw"
                    \/ outq' = <<>> /\ Full(fill)'
      OBVIOUS
    <3>2. /\ NoData
          /\ \/ outq = <<fill>> /\ bh[fill].want = "cbw"
             \/ outq = <<>> /\ Full(fill)
      BY <3>1 DEF Safe, Stages
    <3>3. CASE outq = <<fill>> /\ bh[fill].want = "cbw"
      <4>1. 1 \in DOMAIN outq /\ outq[1] = fill
        BY <3>3
      <4>2. inq[1].b # fill
        BY <1>3, <4>1 DEF Safe, Queues
      <4>3. bh'[fill] = bh[fill]
        BY <1>1, <1>9, <4>2, InFinishes
      <4> QED
        BY <1>2, <3>2, <3>3, <4>3
    <3>4. CASE outq = <<>> /\ Full(fill)
      BY <1>1, <1>2, <1>9, <3>2, <3>4
    <3> QED
      BY <3>2, <3>3, <3>4
  <2> QED
    BY <1>1, <1>2, <1>9, <2>1, <2>2 DEF Safe, Stages, NoData
<1>14. CswQueued => Len(inq) > 1
  BY <1>2, <1>4 DEF CswQueued
<1>15. host'.phase = "csw" => \A i \in DOMAIN inq' : inq'[i].kind = "csw"
  <2>1. SUFFICES ASSUME host'.phase = "csw", NEW i \in 1 .. Len(inq) - 1 PROVE inq'[i].kind = "csw"
    BY <1>3
  <2>2. ~(1 < Len(inq) /\ inq[2].kind = "data")
    BY <1>8, <2>1
  <2>3. 2 \in 1 .. Len(inq) /\ 1 < Len(inq)
    BY <1>2, <2>1
  <2>4. inq[2].kind = "csw"
    <3>1. inq[2] \in InType
      BY <1>2, <2>3
    <3> QED
      BY <2>2, <2>3, <3>1 DEF InType
  <2>5. Len(inq) = 2
    BY <1>2, <2>3, <2>4
  <2>6. i = 1 /\ inq'[1] = inq[1 + 1]
    BY <1>2, <2>1, <2>5
  <2> QED
    BY <2>4, <2>6
<1>16. host'.phase = "csw" => ~Sending
  BY <1>6, <1>8
<1>17. Phases'
  <2>1. /\ cbw \in Cbws /\ "out" \notin halted /\ ignore = 0
        /\ pc \in {"get", "cbw"} /\ ~GotCbw => CswQueued
        /\ GotCbw /\ bh[fill].err = 1 => FALSE
        /\ CswQueued => pc \in {"get", "cbw", "exc"} /\ ~GotCbw
    BY <1>1, <1>4 DEF Safe, Phases
  <2>2. CswQueued <=> CswQueued'
    BY <1>2, <1>14
  <2>3. host'.phase \in {"data", "csw"}
    BY <1>6
  <2>4. ~GotCbw
    <3>1. GotCbw => bh[fill] \in BhType
      BY <1>9 DEF Ranges
    <3> QED
      BY <1>12, <2>1, <3>1 DEF BhType
  <2>5. ~GotCbw' /\ cbw' = cbw /\ halted' = halted /\ ignore' = ignore /\ pc' = pc
    BY <1>1, <1>2, <1>10, <2>4
  <2> QED
    BY <1>1, <1>4, <1>10, <1>15, <1>16, <2>1, <2>2, <2>3, <2>4, <2>5 DEF Phases
<1>18. InOrder(pos)'
  <2>1. SUFFICES ASSUME host'.phase = "data" PROVE InOrder(pos)'
    BY DEF InOrder
  <2>2. ASSUME inq' = <<>> PROVE host'.moved = Len(sent') /\ Sending'
    <3>1. Len(inq) = 1
      BY <1>2, <2>2
    <3>2. ~(1 < Len(inq))
      BY <3>1
    <3>3. host'.moved = Len(sent) /\ (host'.phase = "csw" <=> ~Sending)
      BY <1>8, <3>2
    <3> QED
      BY <1>1, <1>10, <2>1, <3>3
  <2>3. ASSUME inq' # <<>> PROVE inq'[1].kind = "data" /\ pos[inq'[1].b] = host'.moved
    <3>1. 1 < Len(inq) /\ inq'[1] = inq[1 + 1] /\ 2 \in 1 .. Len(inq)
      BY <1>2, <2>3
    <3>2. CASE inq[2].kind = "data"
      BY <1>8, <3>1, <3>2
    <3>3. CASE inq[2].kind # "data"
      <4>1. inq[2].kind = "csw" /\ Len(inq) = 2
        BY <1>2, <3>1, <3>3 DEF InType
      <4>2. CswQueued
        BY <1>1, <4>1 DEF CswQueued
      <4>3. ~Sending
        BY <4>2 DEF Safe, Phases, Sending
      <4> QED
        BY <1>8, <2>1, <3>1, <3>3, <4>3
    <3> QED
      BY <3>2, <3>3
  <2>4. ASSUME NEW i \in DOMAIN inq', inq'[i].kind = "data"
        PROVE  LET p == pos[inq'[i].b] IN
               IF i < Len(inq') /\ inq'[i + 1].kind = "data"
               THEN pos[inq'[i + 1].b] = p + Len(inq'[i].data) /\ ~Ending(inq'[i], p, cbw'.size)
               ELSE p + Len(inq'[i].data) = Len(sent') /\ (Ending(inq'[i], p, cbw'.size) <=> ~Sending')
    <3>1. i + 1 \in DOMAIN inq /\ inq'[i] = inq[i + 1] /\ inq[i + 1].kind = "data"
          /\ (i < Len(inq') <=> i + 1 < Len(inq))
          /\ (i < Len(inq') => inq'[i + 1] = inq[(i + 1) + 1])
      BY <1>2, <1>3, <2>4
    <3> QED
      BY <1>1, <1>10, <3>1 DEF Safe, InOrder
  <2> QED
    BY <2>2, <2>3, <2>4 DEF InOrder
<1>19. Tiled(pos)' /\ Served(pos)' /\ TakenSoFar'
  BY <1>1, <1>4 DEF Safe, Stages, Tiled, Served, TakenSoFar, Receiving
<1>20. Sz' = Sz /\ Goal' = Goal /\ Base' = Base /\ Done' = Done
  BY <1>1, SameCommand
<1>21. SentSoFar'
  <2>1. pc = "finish" => Full(fill)
    BY <1>1 DEF Safe, SentSoFar, CmdPcs
  <2>2. pc = "pad" /\ io.keep > 0 => Empty(fill)
    BY <1>1 DEF Safe, SentSoFar, CmdPcs
  <2>3. (pc = "finish" \/ (pc = "pad" /\ io.keep > 0)) => bh'[fill] = bh[fill]
    BY <1>9, <2>1, <2>2
  <2>4. \A x \in Nat : PaddedFrom(x) => PaddedFrom(x)'
    BY <1>1 DEF PaddedFrom
  <2>5. (IF Len(sent) < Done THEN PaddedFrom(Len(sent)) ELSE PaddedFrom(Done)) =>
        IF Len(sent') < Done' THEN PaddedFrom(Len(sent))' ELSE PaddedFrom(Done)'
    BY <1>1, <1>20 DEF PaddedFrom
  <2> QED
    BY <1>1, <1>9, <1>20, <2>3, <2>5 DEF Safe, SentSoFar, Empty, Full
<1>22. Counted'
  <2>1. pc \in CmdPcs \ {"scsi"} /\ Clean => ~(cbw.op = "write")
    <3>1. SUFFICES ASSUME pc \in CmdPcs \ {"scsi"}, fsg.phase_error = 0, cbw.op = "write" PROVE FALSE
      BY DEF Clean
    <3>2. ~Conflict(cbw) /\ Sz <= cbw.size /\ cbw \in Cbws
      BY <3>1 DEF Safe, Counted, Stages
    <3>3. Sz = 0
      BY <1>1, <3>1, <3>2, Numbers DEF Conflict, DirFromCmnd, Goal, Sz
    <3> QED
      BY <1>1, <3>1, <3>2, <3>3, OrdinaryAssumption DEF Unusual, Sz
  <2> QED
    BY <1>1, <1>4, <1>20, <2>1 DEF Safe, Counted, Clean
<1>23. Passed'
  BY <1>1, <1>2, <1>20 DEF Safe, Passed, CswQueued
<1> QED
  BY <1>2, <1>7, <1>11, <1>13, <1>17, <1>18, <1>19, <1>21, <1>22, <1>23 DEF Safe

=============================================================================
