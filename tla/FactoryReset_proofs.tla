------------------------ MODULE FactoryReset_proofs ------------------------
(***************************************************************************)
(* Proofs about the scripts that restore or keep the settings: a boot that *)
(* comes to its end leaves what was promised, however often the power was  *)
(* cut, for any set of files and any number of cuts, resets and edits.     *)
(***************************************************************************)
EXTENDS FactoryReset, TLAPS

Whole == {"user", "new", "factory"}

-----------------------------------------------------------------------------
(* The inductive invariant.                                                *)

\* What br_recover makes of a file, on the directories dirs: the copy it takes
\* last is the one that counts.
Outcome(dirs, p) ==
    IF dirs["default_bk"].f[p] # "none" THEN dirs["default_bk"].f[p]
    ELSE IF dirs["recover"].f[p] # "none" THEN dirs["recover"].f[p]
    ELSE dirs["etc"].f[p]

\* The copy that counts, if there is one, is a version of S.
CopyIn(dirs, p, S) ==
    /\ dirs["default_bk"].f[p] # "none" => dirs["default_bk"].f[p] \in S
    /\ dirs["default_bk"].f[p] = "none" /\ dirs["recover"].f[p] # "none" =>
           dirs["recover"].f[p] \in S

\* A directory that is not there holds nothing.
Housed(dirs) ==
    \A d \in UserData : /\ dirs[d].config => dirs[d].there
                        /\ \A p \in Parts : dirs[d].f[p] # "none" => dirs[d].there

\* What br_recover has done so far: the files it is done with are copied, those it
\* has still to copy are there, recover is gone when default_bk's turn has come,
\* and the flash may lag behind but has every copy that is left.
RecoverInv ==
    Booting =>
      /\ \A p \in Parts : p \in left \/ p = busy => ram[script].f[p] # "none"
      /\ at # "look" =>
            \A p \in Parts : ram[script].f[p] # "none" /\ p \notin left /\ p # busy =>
                                ram["etc"].f[p] = ram[script].f[p]
      /\ script = "default_bk" => \A p \in Parts : ram["recover"].f[p] = "none"
      /\ \A d \in UserData : \A p \in Parts :
            ram[d].f[p] # "none" => flash[d].f[p] = ram[d].f[p]

\* default_bk is empty or complete, unless br_default.sh is at it or br_recover is.
Rewriting == script \in Resets /\ at \in {"copy", "answer"}

DefaultInv ==
    /\ ~Booting /\ ~Rewriting =>
          \/ ram["default_bk"].config /\ \A p \in Parts : ram["default_bk"].f[p] = "factory"
          \/ ~ram["default_bk"].config /\ \A p \in Parts : ram["default_bk"].f[p] = "none"
    /\ Rewriting =>
          /\ ram["default_bk"].config
          /\ \A p \in Parts : p \notin left /\ p # busy => ram["default_bk"].f[p] = "factory"

Structure ==
    /\ Housed(ram) /\ Housed(flash)
    /\ Building /\ at \in {"config", "copy"} => ram[Target].there
    /\ at = "upgrade" => flash = ram
    /\ RecoverInv /\ DefaultInv

\* No script is changing what the next boot will find.
Settled == Up \/ (script \in Resets /\ at \in {"mkdir", "fail", "reboot"})

\* The next boot will leave a version of S, also after a power cut that is none of
\* the known mishaps.
Safe(p, S) ==
    /\ Booting => Outcome(ram, p) \in S /\ CopyIn(flash, p, S)
    /\ Settled => /\ CopyIn(ram, p, S)
                  /\ ram["default_bk"].f[p] = "none" => ram["etc"].f[p] \in S
                  /\ \/ ram["default_bk"].f[p] \notin {"none", flash["default_bk"].f[p]}
                     \/ CopyIn(flash, p, S)
    /\ script \in Upgrades =>
           /\ ram["default_bk"].f[p] # "none" => ram["default_bk"].f[p] \in S
           /\ p # busy => CopyIn(ram, p, S)

WholeInv ==
    mishaps \subseteq {"upgrade"} => \A p \in Parts :
        /\ Safe(p, Whole)
        /\ script \in Upgrades /\ ram["default_bk"].f[p] = "none" => ram["etc"].f[p] \in Whole

\* The version of p that the next boot is to leave.
Promised(p) == IF script = "nokeep" THEN "factory" ELSE expect[p]

RestoreInv ==
    mishaps = {} => \A p \in Parts :
        /\ Safe(p, {Promised(p)})
        /\ Settled /\ ram["default_bk"].f[p] = "none" => ram["recover"].f[p] = "none"
        /\ script = "keep" /\ ram["default_bk"].f[p] = "none" =>
              /\ ram["etc"].f[p] = expect[p]
              /\ at \in {"copy", "sync", "upgrade"} /\ p \notin left /\ p # busy =>
                    ram["recover"].f[p] = expect[p]

Inv == TypeOK /\ Structure /\ WholeInv /\ RestoreInv

-----------------------------------------------------------------------------
(* What the operations on files and directories do to the directories.    *)

PutFile(D, d, p, v) == [D EXCEPT ![d].f[p] = v]
PutThere(D, d, b)   == [D EXCEPT ![d].there = b]
PutConfig(D, d, b)  == [D EXCEPT ![d].config = b]
PutEtc(D)           == [D EXCEPT !["etc"].f = All("factory")]

\* A directory is a record of its type, and so is each of its files.
LEMMA DirFields ==
  ASSUME NEW D \in [Dirs -> Dir], NEW d \in Dirs
  PROVE  /\ D[d] \in Dir /\ D[d].there \in BOOLEAN /\ D[d].config \in BOOLEAN
         /\ \A p \in Parts : D[d].f[p] \in Versions
BY DEF Dir

\* Writing one file changes that file only.
LEMMA SetFile ==
  ASSUME NEW D \in [Dirs -> Dir], NEW d \in Dirs, NEW p \in Parts, NEW v \in Versions,
         NEW E, E = PutFile(D, d, p, v)
  PROVE  /\ E \in [Dirs -> Dir]
         /\ \A e \in Dirs : \A q \in Parts : E[e].f[q] = IF e = d /\ q = p THEN v ELSE D[e].f[q]
         /\ \A e \in Dirs : E[e].there = D[e].there /\ E[e].config = D[e].config
         /\ \A e \in Dirs : e # d => E[e] = D[e]
<1>0. E = [D EXCEPT ![d].f[p] = v]  BY DEF PutFile
<1>1. D[d] \in Dir /\ D[d].f \in [Parts -> Versions]  BY DEF Dir
<1>2. E[d] = [D[d] EXCEPT !.f[p] = v] /\ \A e \in Dirs : e # d => E[e] = D[e]  BY <1>0
<1>3. E[d].f = [D[d].f EXCEPT ![p] = v] /\ E[d].there = D[d].there /\ E[d].config = D[d].config
      /\ E[d] \in Dir
  <2>1. PICK g \in [Parts -> Versions] : g = [D[d].f EXCEPT ![p] = v]  BY <1>1
  <2>2. E[d] = [D[d] EXCEPT !.f = g]  BY <1>1, <1>2, <2>1 DEF Dir
  <2>3. E[d].f = g /\ E[d].there = D[d].there /\ E[d].config = D[d].config /\ E[d] \in Dir
    BY <1>1, <2>1, <2>2 DEF Dir
  <2> QED  BY <2>1, <2>3
<1>4. E \in [Dirs -> Dir]  BY <1>0, <1>2, <1>3
<1>5. \A q \in Parts : E[d].f[q] = IF q = p THEN v ELSE D[d].f[q]  BY <1>1, <1>3
<1> QED  BY <1>2, <1>3, <1>4, <1>5

\* Making or removing a directory leaves its files and the other directories alone.
LEMMA SetThere ==
  ASSUME NEW D \in [Dirs -> Dir], NEW d \in Dirs, NEW b \in BOOLEAN,
         NEW E, E = PutThere(D, d, b)
  PROVE  /\ E \in [Dirs -> Dir]
         /\ \A e \in Dirs : \A q \in Parts : E[e].f[q] = D[e].f[q]
         /\ \A e \in Dirs : E[e].config = D[e].config
         /\ E[d].there = b
         /\ \A e \in Dirs : e # d => E[e] = D[e]
<1>0. E = [D EXCEPT ![d].there = b]  BY DEF PutThere
<1>1. D[d] \in Dir  OBVIOUS
<1>2. E[d] = [D[d] EXCEPT !.there = b] /\ \A e \in Dirs : e # d => E[e] = D[e]  BY <1>0
<1>3. E[d].f = D[d].f /\ E[d].there = b /\ E[d].config = D[d].config /\ E[d] \in Dir
  BY <1>1, <1>2 DEF Dir
<1>4. E \in [Dirs -> Dir]  BY <1>0, <1>2, <1>3
<1> QED  BY <1>2, <1>3, <1>4

\* The same for its config directory.
LEMMA SetConfig ==
  ASSUME NEW D \in [Dirs -> Dir], NEW d \in Dirs, NEW b \in BOOLEAN,
         NEW E, E = PutConfig(D, d, b)
  PROVE  /\ E \in [Dirs -> Dir]
         /\ \A e \in Dirs : \A q \in Parts : E[e].f[q] = D[e].f[q]
         /\ \A e \in Dirs : E[e].there = D[e].there
         /\ E[d].config = b
         /\ \A e \in Dirs : e # d => E[e] = D[e]
<1>0. E = [D EXCEPT ![d].config = b]  BY DEF PutConfig
<1>1. D[d] \in Dir  OBVIOUS
<1>2. E[d] = [D[d] EXCEPT !.config = b] /\ \A e \in Dirs : e # d => E[e] = D[e]  BY <1>0
<1>3. E[d].f = D[d].f /\ E[d].config = b /\ E[d].there = D[d].there /\ E[d] \in Dir
  BY <1>1, <1>2 DEF Dir
<1>4. E \in [Dirs -> Dir]  BY <1>0, <1>2, <1>3
<1> QED  BY <1>2, <1>3, <1>4

\* A new firmware brings its own /etc and leaves the userdata partition alone.
LEMMA SetEtc ==
  ASSUME NEW D \in [Dirs -> Dir], NEW E, E = PutEtc(D)
  PROVE  /\ E \in [Dirs -> Dir]
         /\ \A q \in Parts : E["etc"].f[q] = "factory"
         /\ \A e \in UserData : E[e] = D[e]
<1>0. E = [D EXCEPT !["etc"].f = All("factory")]  BY DEF PutEtc
<1>1. D["etc"] \in Dir  BY DEF Dirs
<1>2. All("factory") \in [Parts -> Versions] /\ \A q \in Parts : All("factory")[q] = "factory"
  BY DEF All, Versions
<1>3. E["etc"] = [D["etc"] EXCEPT !.f = All("factory")] /\ \A e \in Dirs : e # "etc" => E[e] = D[e]
  BY <1>0 DEF Dirs
<1>4. E["etc"].f = All("factory") /\ E["etc"] \in Dir
  <2>1. PICK g \in [Parts -> Versions] : g = All("factory")  BY <1>2
  <2>2. E["etc"] = [D["etc"] EXCEPT !.f = g]  BY <1>3, <2>1
  <2>3. E["etc"].f = g /\ E["etc"] \in Dir  BY <1>1, <2>1, <2>2 DEF Dir
  <2> QED  BY <2>1, <2>3
<1>5. E \in [Dirs -> Dir]  BY <1>0, <1>3, <1>4
<1> QED  BY <1>2, <1>3, <1>4, <1>5 DEF Dirs, UserData

\* A copy has a version.
LEMMA SourceType ==
  ASSUME TypeOK, NEW p \in Parts
  PROVE  Source(p) \in Versions
<1>1. \A d \in Dirs : ram[d].f[p] \in Versions  BY DirFields DEF TypeOK
<1> QED  BY <1>1 DEF Source, Versions, Dirs, UserData

\* The directory a script copies to is one of the three.
LEMMA TargetType == Target \in Dirs
BY DEF Target, Dirs

-----------------------------------------------------------------------------
(* Every step keeps the invariant.                                         *)

\* It holds when the device is new.
LEMMA InitInv == Init => Inv
<1> SUFFICES ASSUME Init PROVE Inv  OBVIOUS
<1>1. Absent \in Dir /\ Etc \in Dir /\ All("user") \in [Parts -> Versions]
  BY DEF Absent, Etc, Dir, All, Versions
<1>2. /\ \A d \in UserData : ram[d] = Absent
      /\ ram["etc"] = Etc /\ flash = ram /\ ram \in [Dirs -> Dir]
  BY <1>1 DEF Init, Dirs, UserData
<1>3. \A p \in Parts : /\ ram["etc"].f[p] = "user" /\ expect[p] = "user"
                       /\ ram["recover"].f[p] = "none" /\ ram["default_bk"].f[p] = "none"
  BY <1>2 DEF Init, Absent, Etc, All, UserData
<1>4. \A d \in UserData : ~ram[d].config  BY <1>2 DEF Absent
<1>5. TypeOK
  <2>1. defaults \in [{"data", "userdata"} -> SUBSET {"config", "passwd"}]  BY DEF Init
  <2>2. n \in [cuts : 0 .. MaxCuts, asks : 0 .. MaxAsks, edits : 0 .. MaxEdits]
    BY FactoryResetAssumption DEF Init
  <2> QED  BY <1>1, <1>2, <2>1, <2>2 DEF Init, TypeOK, Up
<1>6. Structure
  BY <1>2, <1>3, <1>4 DEF Init, Structure, Housed, RecoverInv, DefaultInv, Rewriting, Booting,
     Building, Resets, Upgrades, UserData
<1>7. \A p \in Parts : Safe(p, {"user"}) /\ Safe(p, Whole)
  BY <1>2, <1>3 DEF Init, Safe, CopyIn, Booting, Settled, Upgrades, UserData, Whole
<1>8. WholeInv
  BY <1>7 DEF Init, WholeInv, Upgrades
<1>9. RestoreInv
  BY <1>3, <1>7 DEF Init, RestoreInv, Promised
<1> QED  BY <1>5, <1>6, <1>8, <1>9 DEF Inv

\* cp empties a file.
LEMMA CpOpenInv == ASSUME Inv, NEW o \in Parts, CpOpen(o) PROVE Inv'
<1> USE DEF Booting, Building, Resets, Upgrades, UserData, Up, Settled, Rewriting
<1>1. TypeOK /\ Structure /\ WholeInv /\ RestoreInv  BY DEF Inv
<1>2. ram \in [Dirs -> Dir] /\ flash \in [Dirs -> Dir] /\ Target \in Dirs /\ "torn" \in Versions
  BY <1>1, TargetType DEF TypeOK, Versions
<1>3. /\ ram' \in [Dirs -> Dir]
      /\ \A e \in Dirs : \A q \in Parts :
            ram'[e].f[q] = IF e = Target /\ q = o THEN "torn" ELSE ram[e].f[q]
      /\ \A e \in Dirs : ram'[e].there = ram[e].there /\ ram'[e].config = ram[e].config
      /\ \A e \in Dirs : e # Target => ram'[e] = ram[e]
  <2>1. ram' = PutFile(ram, Target, o, "torn")  BY DEF CpOpen, PutFile
  <2> QED  BY <1>2, <2>1, SetFile
<1>4. /\ at = "copy" /\ busy = "none" /\ o \in left /\ busy' = o /\ left' = left \ {o}
      /\ UNCHANGED <<defaults, flash, script, at, expect, mishaps, n>>
  BY DEF CpOpen
<1>5. script \in UserData \cup Resets \cup Upgrades  BY <1>1, <1>4 DEF TypeOK
<1>6. "none" \notin Parts  BY FactoryResetAssumption DEF Parts
<1>7. TypeOK'  BY <1>1, <1>3, <1>4 DEF TypeOK
<1>8. CASE script \in UserData
  <2>1. Target = "etc" /\ Target' = "etc" BY <1>4, <1>8 DEF Target
  <2>2. \A q \in Parts : \A e \in UserData : ram'[e] = ram[e] /\ (q # o => ram'["etc"].f[q] = ram["etc"].f[q])
    BY <1>3, <2>1 DEF Dirs
  <2>3. Structure'
    BY <1>1, <1>4, <1>6, <1>8, <2>2 DEF Structure, Housed, RecoverInv, DefaultInv
  <2>4. \A q \in Parts : Outcome(ram', q) = Outcome(ram, q)
    BY <1>1, <1>4, <1>8, <2>2 DEF Outcome, Structure, RecoverInv
  <2>5. \A q \in Parts : \A S : Safe(q, S) => Safe(q, S)'
    BY <1>4, <1>8, <2>4 DEF Safe
  <2>6. WholeInv'
    BY <1>1, <1>4, <1>8, <2>5 DEF WholeInv
  <2>7. RestoreInv'
    BY <1>1, <1>4, <1>8, <2>5 DEF RestoreInv, Promised
  <2> QED  BY <1>7, <2>3, <2>6, <2>7 DEF Inv
<1>9. CASE script \in Resets
  <2>1. Target = "default_bk" /\ Target' = "default_bk"  BY <1>4, <1>9 DEF Target
  <2>2. Structure'
    <3>1. Housed(ram)' /\ Housed(flash)'
      BY <1>1, <1>3, <1>4, <1>9, <2>1 DEF Structure, Housed, Dirs
    <3>2. DefaultInv'
      BY <1>1, <1>3, <1>4, <1>6, <1>9, <2>1 DEF Structure, DefaultInv, Dirs
    <3>3. RecoverInv'  BY <1>4, <1>9 DEF RecoverInv
    <3> QED  BY <1>1, <1>3, <1>4, <2>1, <3>1, <3>2, <3>3 DEF Structure, Dirs
  <2>3. WholeInv' /\ RestoreInv'
    BY <1>4, <1>9 DEF WholeInv, RestoreInv, Safe
  <2> QED  BY <1>7, <2>2, <2>3 DEF Inv
<1>10. CASE script \in Upgrades
  <2>1. Target = "recover" /\ Target' = "recover"  BY <1>4, <1>10 DEF Target
  <2>2. Structure'
    <3>1. Housed(ram)' /\ Housed(flash)'
      BY <1>1, <1>3, <1>4, <1>10, <2>1 DEF Structure, Housed, Dirs
    <3>2. DefaultInv'
      BY <1>1, <1>3, <1>4, <1>10, <2>1 DEF Structure, DefaultInv, Dirs
    <3>3. RecoverInv'  BY <1>4, <1>10 DEF RecoverInv
    <3> QED  BY <1>1, <1>3, <1>4, <2>1, <3>1, <3>2, <3>3 DEF Structure, Dirs
  <2>3. \A q \in Parts : /\ ram'["default_bk"].f[q] = ram["default_bk"].f[q]
                         /\ ram'["etc"].f[q] = ram["etc"].f[q]
                         /\ q # o => ram'["recover"].f[q] = ram["recover"].f[q]
    BY <1>3, <2>1 DEF Dirs
  <2>4. \A q \in Parts : \A S : Safe(q, S) => Safe(q, S)'
    BY <1>4, <1>6, <1>10, <2>3 DEF Safe, CopyIn
  <2>5. WholeInv'
    BY <1>1, <1>4, <1>10, <2>3, <2>4 DEF WholeInv
  <2>6. RestoreInv'
    BY <1>1, <1>4, <1>6, <1>10, <2>3, <2>4 DEF RestoreInv, Promised
  <2> QED  BY <1>7, <2>2, <2>5, <2>6 DEF Inv
<1> QED  BY <1>5, <1>8, <1>9, <1>10

\* cp fills the file it has emptied.
LEMMA CpWriteInv == ASSUME Inv, CpWrite PROVE Inv'
<1> USE DEF Booting, Building, Resets, Upgrades, UserData, Up, Settled, Rewriting
<1>1. TypeOK /\ Structure /\ WholeInv /\ RestoreInv  BY DEF Inv
<1>2. /\ at = "copy" /\ busy # "none" /\ busy' = "none"
      /\ UNCHANGED <<defaults, flash, script, at, left, expect, mishaps, n>>
  BY DEF CpWrite
<1>3. PICK o \in Parts : o = busy  BY <1>1, <1>2 DEF TypeOK
<1>4. ram \in [Dirs -> Dir] /\ Target \in Dirs /\ Source(o) \in Versions
  BY <1>1, TargetType, SourceType DEF TypeOK
<1>5. /\ ram' \in [Dirs -> Dir]
      /\ \A e \in Dirs : \A q \in Parts :
            ram'[e].f[q] = IF e = Target /\ q = o THEN Source(o) ELSE ram[e].f[q]
      /\ \A e \in Dirs : ram'[e].there = ram[e].there /\ ram'[e].config = ram[e].config
      /\ \A e \in Dirs : e # Target => ram'[e] = ram[e]
  <2>1. ram' = PutFile(ram, Target, o, Source(o))  BY <1>3 DEF CpWrite, PutFile
  <2> QED  BY <1>4, <2>1, SetFile
<1>6. script \in UserData \cup Resets \cup Upgrades  BY <1>1, <1>2 DEF TypeOK
<1>7. "none" \notin Parts  BY FactoryResetAssumption DEF Parts
<1>8. TypeOK'  BY <1>1, <1>2, <1>5 DEF TypeOK
<1>9. CASE script \in UserData
  <2>1. Target = "etc" /\ Target' = "etc" /\ Source(o) = ram[script].f[o]
    BY <1>2, <1>9 DEF Target, Source
  <2>2. /\ \A e \in UserData : ram'[e] = ram[e]
        /\ \A q \in Parts : ram'["etc"].f[q] = IF q = o THEN ram[script].f[o] ELSE ram["etc"].f[q]
    BY <1>5, <2>1 DEF Dirs
  <2>3. Structure'
    BY <1>1, <1>2, <1>3, <1>7, <1>9, <2>2 DEF Structure, Housed, RecoverInv, DefaultInv
  <2>4. \A q \in Parts : Outcome(ram', q) = Outcome(ram, q)
    BY <1>1, <1>3, <1>9, <2>2 DEF Outcome, Structure, RecoverInv
  <2>5. \A q \in Parts : \A S : Safe(q, S) => Safe(q, S)'
    BY <1>2, <1>9, <2>4 DEF Safe
  <2>6. WholeInv'  BY <1>1, <1>2, <1>9, <2>5 DEF WholeInv
  <2>7. RestoreInv'  BY <1>1, <1>2, <1>9, <2>5 DEF RestoreInv, Promised
  <2> QED  BY <1>8, <2>3, <2>6, <2>7 DEF Inv
<1>10. CASE script \in Resets
  <2>1. Target = "default_bk" /\ Target' = "default_bk" /\ Source(o) = "factory"
    BY <1>2, <1>10 DEF Target, Source
  <2>2. Structure'
    <3>1. Housed(ram)' /\ Housed(flash)'
      BY <1>1, <1>2, <1>5, <1>10, <2>1 DEF Structure, Housed, Dirs
    <3>2. DefaultInv'
      BY <1>1, <1>2, <1>3, <1>5, <1>10, <2>1 DEF Structure, DefaultInv, Dirs
    <3>3. RecoverInv'  BY <1>2, <1>10 DEF RecoverInv
    <3> QED  BY <1>1, <1>2, <1>5, <2>1, <3>1, <3>2, <3>3 DEF Structure, Dirs
  <2>3. WholeInv' /\ RestoreInv'  BY <1>2, <1>10 DEF WholeInv, RestoreInv, Safe
  <2> QED  BY <1>8, <2>2, <2>3 DEF Inv
<1>11. CASE script \in Upgrades
  <2>1. Target = "recover" /\ Target' = "recover"  BY <1>2, <1>11 DEF Target
  <2>2. /\ script = "keep" => Source(o) = ram["etc"].f[o]
        /\ script = "nokeep" => Source(o) \in {"none", "factory"}
    BY <1>11 DEF Source
  <2>3. Structure'
    <3>1. Housed(ram)' /\ Housed(flash)'
      BY <1>1, <1>2, <1>5, <1>11, <2>1 DEF Structure, Housed, Dirs
    <3>2. DefaultInv'
      BY <1>1, <1>2, <1>5, <1>11, <2>1 DEF Structure, DefaultInv, Dirs
    <3>3. RecoverInv'  BY <1>2, <1>11 DEF RecoverInv
    <3> QED  BY <1>1, <1>2, <1>5, <2>1, <3>1, <3>2, <3>3 DEF Structure, Dirs
  <2>4. \A q \in Parts : /\ ram'["default_bk"].f[q] = ram["default_bk"].f[q]
                         /\ ram'["etc"].f[q] = ram["etc"].f[q]
                         /\ ram'["recover"].f[q] = IF q = o THEN Source(o) ELSE ram["recover"].f[q]
    BY <1>5, <2>1 DEF Dirs
  <2>5. ASSUME NEW q \in Parts, NEW S, Safe(q, S),
               ram["default_bk"].f[q] = "none" => Source(q) \in S \cup {"none"}
        PROVE  Safe(q, S)'
    BY <1>2, <1>3, <1>7, <1>11, <2>4, <2>5 DEF Safe, CopyIn
  <2>6. WholeInv'
    <3> SUFFICES ASSUME mishaps \subseteq {"upgrade"}, NEW q \in Parts
                 PROVE  /\ Safe(q, Whole)'
                        /\ ram'["default_bk"].f[q] = "none" => ram'["etc"].f[q] \in Whole
      BY <1>2 DEF WholeInv
    <3>1. Safe(q, Whole) /\ (ram["default_bk"].f[q] = "none" => ram["etc"].f[q] \in Whole)
      BY <1>1, <1>11 DEF WholeInv
    <3>2. ram["default_bk"].f[q] = "none" => Source(q) \in Whole \cup {"none"}
      BY <1>11, <3>1 DEF Source, Whole
    <3> QED  BY <2>4, <2>5, <3>1, <3>2
  <2>7. RestoreInv'
    <3> SUFFICES ASSUME mishaps = {}, NEW q \in Parts
                 PROVE  /\ Safe(q, {Promised(q)})'
                        /\ script = "keep" /\ ram'["default_bk"].f[q] = "none" =>
                             /\ ram'["etc"].f[q] = expect[q]
                             /\ q \notin left => ram'["recover"].f[q] = expect[q]
      BY <1>2, <1>11 DEF RestoreInv
    <3>1. /\ Safe(q, {Promised(q)})
          /\ script = "keep" /\ ram["default_bk"].f[q] = "none" =>
               /\ ram["etc"].f[q] = expect[q]
               /\ q \notin left /\ q # busy => ram["recover"].f[q] = expect[q]
      BY <1>1, <1>2, <1>11 DEF RestoreInv
    <3>2. ram["default_bk"].f[q] = "none" => Source(q) \in {Promised(q)} \cup {"none"}
      BY <1>11, <3>1 DEF Source, Promised
    <3>3. Promised(q)' = Promised(q)  BY <1>2 DEF Promised
    <3>4. Safe(q, {Promised(q)})'  BY <2>5, <3>1, <3>2, <3>3
    <3>5. script = "keep" => Source(q) = ram["etc"].f[q]  BY DEF Source
    <3> QED  BY <1>3, <2>4, <3>1, <3>4, <3>5
  <2> QED  BY <1>8, <2>3, <2>6, <2>7 DEF Inv
<1> QED  BY <1>6, <1>9, <1>10, <1>11

\* cp is done.
LEMMA CpEndsInv == ASSUME Inv, CpEnds PROVE Inv'
<1> USE DEF Booting, Building, Resets, Upgrades, UserData, Up, Settled, Rewriting
<1>1. TypeOK /\ Structure /\ WholeInv /\ RestoreInv  BY DEF Inv
<1>2. /\ at = "copy" /\ left = {} /\ busy = "none"
      /\ at' = IF Booting THEN "remove" ELSE IF script \in Resets THEN "answer" ELSE "sync"
      /\ UNCHANGED <<defaults, ram, flash, script, left, busy, expect, mishaps, n>>
  BY DEF CpEnds, disk, cp
<1>3. script \in UserData \cup Resets \cup Upgrades  BY <1>1, <1>2 DEF TypeOK
<1>4. TypeOK'  BY <1>1, <1>2, <1>3 DEF TypeOK
<1>5. Structure'
  BY <1>1, <1>2, <1>3 DEF Structure, Housed, RecoverInv, DefaultInv
<1>6. \A q \in Parts : \A S : Safe(q, S) => Safe(q, S)'  BY <1>2, <1>3 DEF Safe
<1>7. WholeInv'  BY <1>1, <1>2, <1>6 DEF WholeInv
<1>8. RestoreInv'  BY <1>1, <1>2, <1>3, <1>6 DEF RestoreInv, Promised
<1> QED  BY <1>4, <1>5, <1>7, <1>8 DEF Inv

\* br_recover goes on to the next directory, or the system is up: the directory
\* it leaves is gone.
LEMMA NextDirInv ==
  ASSUME Inv, Booting, NextDir, at # "copy", TypeOK', Housed(ram)',
         ~ram[script].config, \A p \in Parts : ram[script].f[p] = "none",
         \A e \in Dirs : \A p \in Parts : ram'[e].f[p] = ram[e].f[p],
         ram'["default_bk"].config = ram["default_bk"].config,
         UNCHANGED <<defaults, flash, left, busy, expect, mishaps, n>>
  PROVE  Inv'
<1> USE DEF Booting, Building, Resets, Upgrades, UserData, Up, Settled, Rewriting
<1>1. TypeOK /\ Structure /\ WholeInv /\ RestoreInv  BY DEF Inv
<1>2. left = {} /\ busy = "none"  BY <1>1 DEF TypeOK
<1>3. \A e \in Dirs : \A p \in Parts : ram'[e].f[p] = ram[e].f[p]  OBVIOUS
<1>4. \/ script = "recover" /\ script' = "default_bk" /\ at' = "look"
      \/ script = "default_bk" /\ script' = "none" /\ at' = "idle"
  BY DEF NextDir, br_recover
<1>5. "none" \notin Parts  BY FactoryResetAssumption DEF Parts
<1>6. script = "default_bk" => \A p \in Parts : ram["recover"].f[p] = "none"
  BY <1>1 DEF Structure, RecoverInv
<1>7. Structure'
  <2>1. RecoverInv'
    BY <1>1, <1>2, <1>3, <1>4, <1>5 DEF Structure, RecoverInv, Dirs
  <2>2. DefaultInv'  BY <1>3, <1>4 DEF DefaultInv, Dirs
  <2> QED  BY <1>1, <1>4, <2>1, <2>2 DEF Structure, Housed
<1>8. \A q \in Parts : Outcome(ram', q) = Outcome(ram, q)  BY <1>3 DEF Outcome, Dirs
<1>9. \A q \in Parts : \A S : Safe(q, S) => Safe(q, S)'
  BY <1>3, <1>4, <1>6, <1>8 DEF Safe, Outcome, CopyIn, Dirs
<1>10. WholeInv'  BY <1>1, <1>4, <1>9 DEF WholeInv
<1>11. RestoreInv'
  BY <1>1, <1>3, <1>4, <1>6, <1>9 DEF RestoreInv, Promised, Dirs
<1> QED  BY <1>7, <1>10, <1>11 DEF Inv

\* br_recover looks for its directory: it starts to copy, or there is nothing to do.
LEMMA LookInv == ASSUME Inv, Look PROVE Inv'
<1> USE DEF Booting, Building, Resets, Upgrades, UserData, Up, Settled, Rewriting
<1>1. TypeOK /\ Structure /\ WholeInv /\ RestoreInv  BY DEF Inv
<1>2. at = "look" /\ UNCHANGED <<defaults, ram, flash, busy, expect, mishaps, n>>  BY DEF Look, disk
<1>3. script \in UserData /\ left = {} /\ busy = "none"  BY <1>1, <1>2 DEF TypeOK
<1>4. CASE ram[script].there
  <2>1. at' = "copy" /\ left' = Sources /\ script' = script  BY <1>4 DEF Look
  <2>2. Sources = {p \in Parts : ram[script].f[p] # "none"}  BY <1>3 DEF Sources, Source
  <2>3. TypeOK'  BY <1>1, <1>2, <1>3, <2>1, <2>2 DEF TypeOK
  <2>4. Structure'
    <3>1. RecoverInv'
      BY <1>1, <1>2, <1>3, <2>1, <2>2, FactoryResetAssumption DEF Structure, RecoverInv, Parts
    <3>2. DefaultInv'  BY <1>2, <1>3, <2>1 DEF DefaultInv
    <3> QED  BY <1>1, <1>2, <1>3, <2>1, <3>1, <3>2 DEF Structure, Housed
  <2>5. \A q \in Parts : \A S : Safe(q, S) => Safe(q, S)'  BY <1>2, <1>3, <2>1 DEF Safe
  <2>6. WholeInv'  BY <1>1, <1>2, <1>3, <2>1, <2>5 DEF WholeInv
  <2>7. RestoreInv'  BY <1>1, <1>2, <1>3, <2>1, <2>5 DEF RestoreInv, Promised
  <2> QED  BY <2>3, <2>4, <2>6, <2>7 DEF Inv
<1>5. CASE ~ram[script].there
  <2>1. NextDir /\ left' = left  BY <1>5 DEF Look
  <2>2. ~ram[script].config /\ \A p \in Parts : ram[script].f[p] = "none"
    BY <1>1, <1>3, <1>5 DEF Structure, Housed
  <2>3. TypeOK'
    <3>1. (script' \in UserData /\ at' = "look") \/ (script' = "none" /\ at' = "idle")
      BY <1>3, <2>1 DEF NextDir, br_recover
    <3> QED  BY <1>1, <1>2, <1>3, <2>1, <3>1 DEF TypeOK
  <2>4. Housed(ram)'  BY <1>1, <1>2 DEF Structure, Housed
  <2> QED  BY <1>2, <1>3, <2>1, <2>2, <2>3, <2>4, NextDirInv
<1> QED  BY <1>4, <1>5

\* rm removes a file: /etc has what was in it.
LEMMA UnlinkInv == ASSUME Inv, NEW o \in Parts, Unlink(o) PROVE Inv'
<1> USE DEF Booting, Building, Resets, Upgrades, UserData, Up, Settled, Rewriting
<1>1. TypeOK /\ Structure /\ WholeInv /\ RestoreInv  BY DEF Inv
<1>2. /\ at = "remove" /\ ram[script].f[o] # "none"
      /\ UNCHANGED <<defaults, flash, script, at, left, busy, expect, mishaps, n>>
  BY DEF Unlink, cp
<1>3. script \in UserData /\ left = {} /\ busy = "none"  BY <1>1, <1>2 DEF TypeOK
<1>4. /\ ram' \in [Dirs -> Dir]
      /\ \A e \in Dirs : \A q \in Parts :
            ram'[e].f[q] = IF e = script /\ q = o THEN "none" ELSE ram[e].f[q]
      /\ \A e \in Dirs : ram'[e].there = ram[e].there /\ ram'[e].config = ram[e].config
  <2>1. ram \in [Dirs -> Dir] /\ script \in Dirs /\ "none" \in Versions
    BY <1>1, <1>3 DEF TypeOK, Dirs, Versions
  <2>2. ram' = PutFile(ram, script, o, "none")  BY DEF Unlink, PutFile
  <2> QED  BY <2>1, <2>2, SetFile
<1>5. "none" \notin Parts  BY FactoryResetAssumption DEF Parts
<1>6. TypeOK'  BY <1>1, <1>2, <1>4 DEF TypeOK
<1>7. Structure'
  <2>1. Housed(ram)' /\ Housed(flash)'
    BY <1>1, <1>2, <1>4 DEF Structure, Housed, Dirs
  <2>2. RecoverInv'
    BY <1>1, <1>2, <1>3, <1>4, <1>5 DEF Structure, RecoverInv, Dirs
  <2>3. DefaultInv'  BY <1>2, <1>3 DEF DefaultInv
  <2> QED  BY <1>2, <1>3, <2>1, <2>2, <2>3 DEF Structure
<1>8. \A q \in Parts : Outcome(ram', q) = Outcome(ram, q)
  BY <1>1, <1>2, <1>3, <1>4, <1>5 DEF Outcome, Structure, RecoverInv, Dirs
<1>9. \A q \in Parts : \A S : Safe(q, S) => Safe(q, S)'  BY <1>2, <1>3, <1>8 DEF Safe
<1>10. WholeInv'  BY <1>1, <1>2, <1>3, <1>9 DEF WholeInv
<1>11. RestoreInv'  BY <1>1, <1>2, <1>3, <1>9 DEF RestoreInv, Promised
<1> QED  BY <1>6, <1>7, <1>10, <1>11 DEF Inv

\* rm removes the config directory, which is empty by then.
LEMMA RmConfigInv == ASSUME Inv, RmConfig PROVE Inv'
<1> USE DEF Booting, Building, Resets, Upgrades, UserData, Up, Settled, Rewriting
<1>1. TypeOK /\ Structure /\ WholeInv /\ RestoreInv  BY DEF Inv
<1>2. /\ at = "remove"
      /\ UNCHANGED <<defaults, flash, script, at, left, busy, expect, mishaps, n>>
  BY DEF RmConfig, cp
<1>3. script \in UserData /\ left = {} /\ busy = "none"  BY <1>1, <1>2 DEF TypeOK
<1>4. /\ ram' \in [Dirs -> Dir]
      /\ \A e \in Dirs : \A q \in Parts : ram'[e].f[q] = ram[e].f[q]
      /\ \A e \in Dirs : ram'[e].there = ram[e].there /\ (e # script => ram'[e] = ram[e])
      /\ ram'[script].config = FALSE
  <2>1. ram \in [Dirs -> Dir] /\ script \in Dirs  BY <1>1, <1>3 DEF TypeOK, Dirs
  <2>2. PICK b \in BOOLEAN : b = FALSE  OBVIOUS
  <2>3. ram' = PutConfig(ram, script, b)  BY <2>2 DEF RmConfig, PutConfig
  <2>4. /\ ram' \in [Dirs -> Dir]
        /\ \A e \in Dirs : \A q \in Parts : ram'[e].f[q] = ram[e].f[q]
        /\ \A e \in Dirs : ram'[e].there = ram[e].there /\ (e # script => ram'[e] = ram[e])
        /\ ram'[script].config = b
    BY <2>1, <2>3, SetConfig
  <2> QED  BY <2>2, <2>4
<1>5. TypeOK'  BY <1>1, <1>2, <1>4 DEF TypeOK
<1>6. Structure'
  <2>1. Housed(ram)' /\ Housed(flash)'
    BY <1>1, <1>2, <1>3, <1>4 DEF Structure, Housed, Dirs
  <2>2. RecoverInv'  BY <1>1, <1>2, <1>3, <1>4 DEF Structure, RecoverInv, Dirs
  <2>3. DefaultInv'  BY <1>2, <1>3 DEF DefaultInv
  <2> QED  BY <1>2, <1>3, <2>1, <2>2, <2>3 DEF Structure
<1>7. \A q \in Parts : Outcome(ram', q) = Outcome(ram, q)  BY <1>4 DEF Outcome, Dirs
<1>8. \A q \in Parts : \A S : Safe(q, S) => Safe(q, S)'  BY <1>2, <1>3, <1>7 DEF Safe
<1>9. WholeInv'  BY <1>1, <1>2, <1>3, <1>8 DEF WholeInv
<1>10. RestoreInv'  BY <1>1, <1>2, <1>3, <1>8 DEF RestoreInv, Promised
<1> QED  BY <1>5, <1>6, <1>9, <1>10 DEF Inv

\* rm removes the directory, and br_recover is done with it.
LEMMA RmDirInv == ASSUME Inv, RmDir PROVE Inv'
<1> USE DEF Booting, UserData, Up
<1>1. TypeOK /\ Structure  BY DEF Inv
<1>2. /\ at = "remove" /\ ~ram[script].config /\ \A p \in Parts : ram[script].f[p] = "none"
      /\ NextDir /\ UNCHANGED <<defaults, flash, left, busy, expect, mishaps, n>>
  BY DEF RmDir, cp
<1>3. script \in UserData /\ left = {} /\ busy = "none"  BY <1>1, <1>2 DEF TypeOK, Resets, Upgrades
<1>4. /\ ram' \in [Dirs -> Dir]
      /\ \A e \in Dirs : \A q \in Parts : ram'[e].f[q] = ram[e].f[q]
      /\ \A e \in Dirs : ram'[e].config = ram[e].config /\ (e # script => ram'[e] = ram[e])
  <2>1. ram \in [Dirs -> Dir] /\ script \in Dirs  BY <1>1, <1>3 DEF TypeOK, Dirs
  <2>2. PICK b \in BOOLEAN : b = FALSE  OBVIOUS
  <2>3. ram' = PutThere(ram, script, b)  BY <2>2 DEF RmDir, PutThere
  <2>4. /\ ram' \in [Dirs -> Dir]
        /\ \A e \in Dirs : \A q \in Parts : ram'[e].f[q] = ram[e].f[q]
        /\ \A e \in Dirs : ram'[e].config = ram[e].config /\ (e # script => ram'[e] = ram[e])
        /\ ram'[script].there = b
    BY <2>1, <2>3, SetThere
  <2> QED  BY <2>2, <2>4
<1>5. TypeOK'
  <2>1. (script' \in UserData /\ at' = "look") \/ (script' = "none" /\ at' = "idle")
    BY <1>2 DEF NextDir, br_recover
  <2> QED  BY <1>1, <1>2, <1>3, <1>4, <2>1 DEF TypeOK
<1>6. Housed(ram)'
  BY <1>1, <1>2, <1>3, <1>4 DEF Structure, Housed, Dirs
<1>7. ram'["default_bk"].config = ram["default_bk"].config  BY <1>4 DEF Dirs
<1> QED  BY <1>2, <1>3, <1>4, <1>5, <1>6, <1>7, NextDirInv

\* A reset or an upgrade is asked for.  What an upgrade without the settings is to
\* bring back is promised from here on.
LEMMA RunInv == ASSUME Inv, NEW s \in Resets \cup Upgrades, Run(s) PROVE Inv'
<1> USE DEF Booting, Building, Resets, Upgrades, UserData, Up, Settled, Rewriting
<1>1. TypeOK /\ Structure /\ WholeInv /\ RestoreInv  BY DEF Inv
<1>2. /\ script = "none" /\ n.asks < MaxAsks /\ script' = s /\ at' = "mkdir"
      /\ n' = [n EXCEPT !.asks = @ + 1]
      /\ UNCHANGED <<defaults, ram, flash, left, busy, expect, mishaps>>
  BY DEF Run, disk, cp
<1>3. left = {} /\ busy = "none"  BY <1>1, <1>2 DEF TypeOK
<1>4. "none" \notin Parts  BY FactoryResetAssumption DEF Parts
<1>5. TypeOK'
  <2>1. n' \in [cuts : 0 .. MaxCuts, asks : 0 .. MaxAsks, edits : 0 .. MaxEdits]
    BY <1>1, <1>2, FactoryResetAssumption DEF TypeOK
  <2> QED  BY <1>1, <1>2, <1>3, <2>1 DEF TypeOK
<1>6. Structure'
  <2>1. RecoverInv' /\ DefaultInv'
    BY <1>1, <1>2 DEF Structure, RecoverInv, DefaultInv
  <2> QED  BY <1>1, <1>2, <2>1 DEF Structure, Housed
<1>7. \A q \in Parts : \A S : Safe(q, S) => Safe(q, S)'
  BY <1>2 DEF Safe, CopyIn
<1>8. WholeInv'
  BY <1>1, <1>2, <1>7 DEF WholeInv, Safe
<1>9. RestoreInv'
  <2> SUFFICES ASSUME mishaps = {}, NEW q \in Parts
               PROVE  /\ Safe(q, {Promised(q)})'
                      /\ Settled' /\ ram["default_bk"].f[q] = "none" => ram["recover"].f[q] = "none"
                      /\ s = "keep" /\ ram["default_bk"].f[q] = "none" => ram["etc"].f[q] = expect[q]
    BY <1>2 DEF RestoreInv
  <2>1. /\ Safe(q, {expect[q]})
        /\ ram["default_bk"].f[q] = "none" => ram["recover"].f[q] = "none"
    BY <1>1, <1>2 DEF RestoreInv, Promised
  <2>2. ram["default_bk"].f[q] = "none" => ram["etc"].f[q] = expect[q]
    BY <1>2, <2>1 DEF Safe
  <2>3. CASE s # "nokeep"
    <3>1. Promised(q)' = expect[q]  BY <1>2, <2>3 DEF Promised
    <3>2. Safe(q, {expect[q]})'  BY <1>2, <1>7, <2>1
    <3> QED  BY <1>2, <2>1, <2>2, <3>1, <3>2
  <2>4. CASE s = "nokeep"
    <3>1. Promised(q)' = "factory"  BY <1>2, <2>4 DEF Promised
    <3>2. ram["default_bk"].f[q] \in {"none", "factory"}
      BY <1>1, <1>2 DEF Structure, DefaultInv
    <3>3. Safe(q, {"factory"})'  BY <1>2, <2>1, <2>4, <3>2 DEF Safe, CopyIn
    <3> QED  BY <1>2, <2>1, <2>4, <3>1, <3>3
  <2> QED  BY <2>3, <2>4
<1> QED  BY <1>5, <1>6, <1>8, <1>9 DEF Inv

\* The directory is made.
LEMMA MkDirInv == ASSUME Inv, MkDir PROVE Inv'
<1> USE DEF Booting, Building, Resets, Upgrades, UserData, Up, Settled, Rewriting
<1>1. TypeOK /\ Structure /\ WholeInv /\ RestoreInv  BY DEF Inv
<1>2. /\ at = "mkdir" /\ at' = IF script \in Resets /\ ~Found THEN "fail" ELSE "config"
      /\ UNCHANGED <<defaults, flash, script, left, busy, expect, mishaps, n>>
  BY DEF MkDir, cp
<1>3. script \in Resets \cup Upgrades /\ left = {} /\ busy = "none"  BY <1>1, <1>2 DEF TypeOK
<1>4. /\ ram' \in [Dirs -> Dir]
      /\ \A e \in Dirs : \A q \in Parts : ram'[e].f[q] = ram[e].f[q]
      /\ \A e \in Dirs : ram'[e].config = ram[e].config /\ (e # Target => ram'[e] = ram[e])
      /\ ram'[Target].there
  <2>1. ram \in [Dirs -> Dir] /\ Target \in Dirs  BY <1>1, TargetType DEF TypeOK
  <2>2. PICK b \in BOOLEAN : b = TRUE  OBVIOUS
  <2>3. ram' = PutThere(ram, Target, b)  BY <2>2 DEF MkDir, PutThere
  <2>4. /\ ram' \in [Dirs -> Dir]
        /\ \A e \in Dirs : \A q \in Parts : ram'[e].f[q] = ram[e].f[q]
        /\ \A e \in Dirs : ram'[e].config = ram[e].config /\ (e # Target => ram'[e] = ram[e])
        /\ ram'[Target].there = b
    BY <2>1, <2>3, SetThere
  <2> QED  BY <2>2, <2>4
<1>5. TypeOK'  BY <1>1, <1>2, <1>3, <1>4 DEF TypeOK
<1>6. Target' = Target /\ Target \in UserData  BY <1>2, <1>3 DEF Target
<1>7. Structure'
  <2>1. Housed(ram)' /\ Housed(flash)'
    BY <1>1, <1>2, <1>4, <1>6 DEF Structure, Housed, Dirs
  <2>2. RecoverInv'  BY <1>2, <1>3 DEF RecoverInv
  <2>3. DefaultInv'  BY <1>1, <1>2, <1>3, <1>4 DEF Structure, DefaultInv, Dirs
  <2> QED  BY <1>2, <1>3, <1>4, <1>6, <2>1, <2>2, <2>3 DEF Structure
<1>8. \A q \in Parts : \A S : Safe(q, S) => Safe(q, S)'
  BY <1>2, <1>3, <1>4 DEF Safe, CopyIn, Dirs
<1>9. WholeInv'  BY <1>1, <1>2, <1>3, <1>4, <1>8 DEF WholeInv, Dirs
<1>10. RestoreInv'  BY <1>1, <1>2, <1>3, <1>4, <1>8 DEF RestoreInv, Promised, Dirs
<1> QED  BY <1>5, <1>7, <1>9, <1>10 DEF Inv

\* Its config directory is made, and cp starts.
LEMMA MkConfigInv == ASSUME Inv, MkConfig PROVE Inv'
<1> USE DEF Booting, Building, Resets, Upgrades, UserData, Up, Settled, Rewriting
<1>1. TypeOK /\ Structure /\ WholeInv /\ RestoreInv  BY DEF Inv
<1>2. /\ at = "config" /\ at' = "copy"
      /\ left' = IF script \in Resets /\ ram["default_bk"].config THEN {"passwd"} ELSE Sources
      /\ UNCHANGED <<defaults, flash, script, busy, expect, mishaps, n>>
  BY DEF MkConfig
<1>3. script \in Resets \cup Upgrades /\ left = {} /\ busy = "none"  BY <1>1, <1>2 DEF TypeOK
<1>4. /\ ram' \in [Dirs -> Dir]
      /\ \A e \in Dirs : \A q \in Parts : ram'[e].f[q] = ram[e].f[q]
      /\ \A e \in Dirs : ram'[e].there = ram[e].there /\ (e # Target => ram'[e] = ram[e])
      /\ ram'[Target].config
  <2>1. ram \in [Dirs -> Dir] /\ Target \in Dirs  BY <1>1, TargetType DEF TypeOK
  <2>2. PICK b \in BOOLEAN : b = TRUE  OBVIOUS
  <2>3. ram' = PutConfig(ram, Target, b)  BY <2>2 DEF MkConfig, PutConfig
  <2>4. /\ ram' \in [Dirs -> Dir]
        /\ \A e \in Dirs : \A q \in Parts : ram'[e].f[q] = ram[e].f[q]
        /\ \A e \in Dirs : ram'[e].there = ram[e].there /\ (e # Target => ram'[e] = ram[e])
        /\ ram'[Target].config = b
    BY <2>1, <2>3, SetConfig
  <2> QED  BY <2>2, <2>4
<1>5. left' \subseteq Parts  BY <1>2 DEF Sources, Parts
<1>6. TypeOK'  BY <1>1, <1>2, <1>3, <1>4, <1>5 DEF TypeOK
<1>7. Target' = Target /\ Target \in UserData  BY <1>2, <1>3 DEF Target
<1>8. Structure'
  <2>1. Housed(ram)' /\ Housed(flash)'
    BY <1>1, <1>2, <1>3, <1>4, <1>7 DEF Structure, Housed, Dirs
  <2>2. RecoverInv'  BY <1>2, <1>3 DEF RecoverInv
  <2>3. DefaultInv'
    <3>1. CASE script \in Upgrades
      <4>1. Target = "recover"  BY <3>1 DEF Target
      <4> QED  BY <1>1, <1>2, <1>4, <3>1, <4>1 DEF Structure, DefaultInv, Dirs
    <3>2. CASE script \in Resets
      <4>1. Target = "default_bk"  BY <3>2 DEF Target
      <4>2. Sources = Parts  BY <3>2 DEF Sources, Source
      <4> QED  BY <1>1, <1>2, <1>4, <3>2, <4>1, <4>2 DEF Structure, DefaultInv, Dirs
    <3> QED  BY <1>3, <3>1, <3>2
  <2>4. ram'[Target].there  BY <1>1, <1>2, <1>3, <1>4, <1>7 DEF Structure, Dirs
  <2> QED  BY <1>2, <1>7, <2>1, <2>2, <2>3, <2>4 DEF Structure
<1>9. \A q \in Parts : \A S : Safe(q, S) => Safe(q, S)'
  BY <1>2, <1>3, <1>4 DEF Safe, CopyIn, Dirs
<1>10. WholeInv'  BY <1>1, <1>2, <1>3, <1>4, <1>9 DEF WholeInv, Dirs
<1>11. RestoreInv'
  <2> SUFFICES ASSUME mishaps = {}, NEW q \in Parts
               PROVE  /\ Safe(q, {Promised(q)})'
                      /\ script = "keep" /\ ram["default_bk"].f[q] = "none" =>
                            ram["etc"].f[q] = expect[q] /\ q \in left'
    BY <1>2, <1>3, <1>4 DEF RestoreInv, Dirs
  <2>1. /\ Safe(q, {Promised(q)})
        /\ script = "keep" /\ ram["default_bk"].f[q] = "none" => ram["etc"].f[q] = expect[q]
    BY <1>1 DEF RestoreInv
  <2>2. Safe(q, {Promised(q)})'  BY <1>2, <1>9, <2>1 DEF Promised
  <2>3. script = "keep" /\ ram["default_bk"].f[q] = "none" => q \in left'
    <3>1. script = "keep" /\ ram["default_bk"].f[q] = "none" => ram["etc"].f[q] # "none"
      BY <1>1 DEF WholeInv, Whole
    <3> QED  BY <1>2, <3>1 DEF Sources, Source
  <2> QED  BY <2>1, <2>2, <2>3
<1> QED  BY <1>6, <1>8, <1>10, <1>11 DEF Inv

\* br_default.sh ends: with default_bk complete, or without having done anything.
LEMMA AnswerInv == ASSUME Inv, Answer PROVE Inv'
<1> USE DEF Booting, Building, Resets, Upgrades, UserData, Up, Settled, Rewriting
<1>1. TypeOK /\ Structure /\ WholeInv /\ RestoreInv  BY DEF Inv
<1>2. /\ at \in {"answer", "fail"}
      /\ \/ script = "lcd" /\ at' = "reboot" /\ script' = script
         \/ script # "lcd" /\ at' = "idle" /\ script' = "none"
      /\ expect' = IF at = "answer" THEN All("factory") ELSE expect
      /\ mishaps' = IF at = "answer" THEN {} ELSE mishaps
      /\ UNCHANGED <<defaults, ram, flash, left, busy, n>>
  BY DEF Answer, disk, cp
<1>3. script \in Resets /\ left = {} /\ busy = "none"  BY <1>1, <1>2 DEF TypeOK
<1>4. "none" \notin Parts  BY FactoryResetAssumption DEF Parts
<1>5. Settled' /\ ~Rewriting' /\ ~Booting' /\ script' \notin Upgrades  BY <1>2, <1>3
<1>6. All("factory") \in [Parts -> Versions] /\ \A q \in Parts : All("factory")[q] = "factory"
  BY DEF All, Versions
<1>7. TypeOK'
  <2>1. expect' \in [Parts -> Versions]  BY <1>1, <1>2, <1>6 DEF TypeOK
  <2> QED  BY <1>1, <1>2, <1>3, <2>1 DEF TypeOK
<1>8. Structure'
  <2>1. DefaultInv'
    BY <1>1, <1>2, <1>3, <1>4, <1>5 DEF Structure, DefaultInv
  <2>2. RecoverInv'  BY <1>5 DEF RecoverInv
  <2> QED  BY <1>1, <1>2, <2>1, <2>2 DEF Structure, Housed
<1>9. CASE at = "answer"
  <2>1. \A q \in Parts : ram["default_bk"].f[q] = "factory" /\ expect'[q] = "factory"
    BY <1>1, <1>2, <1>3, <1>4, <1>6, <1>9 DEF Structure, DefaultInv
  <2>2. \A q \in Parts : Safe(q, {"factory"})' /\ Safe(q, Whole)'
    BY <1>2, <1>5, <2>1 DEF Safe, CopyIn, Whole
  <2>3. WholeInv'  BY <1>5, <2>2 DEF WholeInv
  <2>4. \A q \in Parts : Promised(q)' = "factory"  BY <1>5, <2>1 DEF Promised
  <2>5. RestoreInv'  BY <1>2, <1>5, <2>1, <2>2, <2>4 DEF RestoreInv
  <2> QED  BY <1>7, <1>8, <2>3, <2>5 DEF Inv
<1>10. CASE at = "fail"
  <2>1. \A q \in Parts : \A S : Safe(q, S) => Safe(q, S)'
    BY <1>2, <1>3, <1>5, <1>10 DEF Safe
  <2>2. WholeInv'  BY <1>1, <1>2, <1>5, <1>10, <2>1 DEF WholeInv
  <2>3. \A q \in Parts : Promised(q)' = Promised(q)  BY <1>2, <1>3, <1>5, <1>10 DEF Promised
  <2>4. RestoreInv'  BY <1>1, <1>2, <1>3, <1>5, <1>10, <2>1, <2>3 DEF RestoreInv
  <2> QED  BY <1>7, <1>8, <2>2, <2>4 DEF Inv
<1> QED  BY <1>2, <1>9, <1>10

\* The system starts on whatever directories it finds: the boot ahead will leave of
\* each file what br_recover makes of it.
LEMMA RestartInv ==
  ASSUME NEW D, Restart(D), Housed(D)
  PROVE  /\ script' = "recover" /\ at' = "look" /\ left' = {} /\ busy' = "none"
         /\ ram' = D /\ flash' = D
         /\ Structure'
         /\ \A q \in Parts : \A S : Outcome(D, q) \in S => Safe(q, S)'
         /\ mishaps' \subseteq {"upgrade"} /\ (\A q \in Parts : Outcome(D, q) \in Whole) => WholeInv'
         /\ mishaps' = {} /\ (\A q \in Parts : Outcome(D, q) = expect'[q]) => RestoreInv'
<1> USE DEF Booting, Building, Resets, Upgrades, UserData, Up, Settled, Rewriting
<1>1. /\ script' = "recover" /\ at' = "look" /\ left' = {} /\ busy' = "none"
      /\ ram' = D /\ flash' = D
  BY DEF Restart, br_recover
<1>2. "none" \notin Parts  BY FactoryResetAssumption DEF Parts
<1>3. Structure'
  <2>1. Housed(ram)' /\ Housed(flash)'  BY <1>1 DEF Housed
  <2>2. RecoverInv' /\ DefaultInv'  BY <1>1, <1>2 DEF RecoverInv, DefaultInv
  <2> QED  BY <1>1, <2>1, <2>2 DEF Structure
<1>4. \A q \in Parts : \A S : Outcome(D, q) \in S => Safe(q, S)'
  BY <1>1 DEF Safe, Outcome, CopyIn
<1>5. (\A q \in Parts : Outcome(D, q) \in Whole) => WholeInv'
  BY <1>1, <1>4 DEF WholeInv
<1>6. ASSUME \A q \in Parts : Outcome(D, q) = expect'[q] PROVE RestoreInv'
  <2>1. \A q \in Parts : Promised(q)' = expect'[q]  BY <1>1 DEF Promised
  <2>2. \A q \in Parts : Safe(q, {Promised(q)})'  BY <1>4, <1>6, <2>1
  <2> QED  BY <1>1, <2>2 DEF RestoreInv
<1> QED  BY <1>1, <1>3, <1>4, <1>5, <1>6

\* An orderly restart.
LEMMA RebootInv == ASSUME Inv, Reboot PROVE Inv'
<1> USE DEF Booting, Resets, Upgrades, UserData, Up, Settled
<1>1. TypeOK /\ Structure /\ WholeInv /\ RestoreInv  BY DEF Inv
<1>2. /\ script = "none" \/ at = "reboot"
      /\ Restart(ram) /\ UNCHANGED <<defaults, expect, mishaps, n>>
  BY DEF Reboot
<1>3. Settled /\ script # "nokeep"  BY <1>1, <1>2 DEF TypeOK
<1>4. Housed(ram)  BY <1>1 DEF Structure
<1>5. /\ script' = "recover" /\ at' = "look" /\ left' = {} /\ busy' = "none"
      /\ ram' = ram /\ flash' = ram /\ Structure'
  BY <1>2, <1>4, RestartInv
<1>6. TypeOK'  BY <1>1, <1>2, <1>5 DEF TypeOK
<1>7. \A q \in Parts : \A S : Safe(q, S) => Outcome(ram, q) \in S
  BY <1>3 DEF Safe, CopyIn, Outcome
<1>8. WholeInv'
  BY <1>1, <1>2, <1>4, <1>7, RestartInv DEF WholeInv
<1>9. RestoreInv'
  <2>1. mishaps = {} => \A q \in Parts : Outcome(ram, q) = expect[q]
    BY <1>1, <1>3, <1>7 DEF RestoreInv, Promised
  <2>2. mishaps # {} => RestoreInv'  BY <1>2 DEF RestoreInv
  <2> QED  BY <1>2, <1>4, <2>1, <2>2, RestartInv
<1> QED  BY <1>5, <1>6, <1>8, <1>9 DEF Inv

\* The upgrade page writes the buffers out.
LEMMA SyncInv == ASSUME Inv, Sync PROVE Inv'
<1> USE DEF Booting, Building, Resets, Upgrades, UserData, Up, Settled, Rewriting
<1>1. TypeOK /\ Structure /\ WholeInv /\ RestoreInv  BY DEF Inv
<1>2. /\ at = "sync" /\ at' = "upgrade" /\ flash' = ram
      /\ UNCHANGED <<defaults, ram, script, left, busy, expect, mishaps, n>>
  BY DEF Sync, cp
<1>3. script \in Upgrades /\ left = {} /\ busy = "none"  BY <1>1, <1>2 DEF TypeOK
<1>4. TypeOK'  BY <1>1, <1>2, <1>3 DEF TypeOK
<1>5. Structure'
  <2>1. RecoverInv' /\ DefaultInv'
    BY <1>1, <1>2, <1>3 DEF Structure, RecoverInv, DefaultInv
  <2> QED  BY <1>1, <1>2, <2>1 DEF Structure, Housed
<1>6. \A q \in Parts : \A S : Safe(q, S) => Safe(q, S)'  BY <1>2, <1>3 DEF Safe
<1>7. WholeInv'  BY <1>1, <1>2, <1>6 DEF WholeInv
<1>8. RestoreInv'  BY <1>1, <1>2, <1>3, <1>6 DEF RestoreInv, Promised
<1> QED  BY <1>4, <1>5, <1>7, <1>8 DEF Inv

\* The firmware is replaced and the system restarted, or it was no firmware.
LEMMA UpgradeEndsInv == ASSUME Inv, UpgradeEnds PROVE Inv'
<1> USE DEF Booting, Building, Resets, Upgrades, UserData, Up, Settled, Rewriting
<1>1. TypeOK /\ Structure /\ WholeInv /\ RestoreInv  BY DEF Inv
<1>2. at = "upgrade" /\ UNCHANGED <<defaults, n>>  BY DEF UpgradeEnds
<1>3. script \in Upgrades /\ left = {} /\ busy = "none"  BY <1>1, <1>2 DEF TypeOK
<1>4. "none" \notin Parts  BY FactoryResetAssumption DEF Parts
<1>5. flash = ram /\ ram \in [Dirs -> Dir] /\ Housed(ram)  BY <1>1, <1>2 DEF Structure, TypeOK
<1>6. All("factory") \in [Parts -> Versions] /\ \A q \in Parts : All("factory")[q] = "factory"
  BY DEF All, Versions
<1>7. CASE /\ Restart(PutEtc(ram))
           /\ expect' = (IF script = "keep" THEN expect ELSE All("factory"))
           /\ mishaps' = mishaps
  <2>1. PICK E : E = PutEtc(ram)  OBVIOUS
  <2>2. /\ E \in [Dirs -> Dir]
        /\ \A q \in Parts : E["etc"].f[q] = "factory"
        /\ \A e \in UserData : E[e] = ram[e]
    BY <1>5, <2>1, SetEtc
  <2>3. Restart(E) /\ Housed(E)  BY <1>5, <1>7, <2>1, <2>2 DEF Housed
  <2>4. /\ script' = "recover" /\ at' = "look" /\ left' = {} /\ busy' = "none"
        /\ ram' = E /\ flash' = E /\ Structure'
    BY <2>3, RestartInv
  <2>5. expect' \in [Parts -> Versions]  BY <1>1, <1>6, <1>7 DEF TypeOK
  <2>6. TypeOK'  BY <1>1, <1>2, <1>7, <2>2, <2>4, <2>5 DEF TypeOK
  <2>7. WholeInv'
    <3>1. mishaps \subseteq {"upgrade"} => \A q \in Parts : Outcome(E, q) \in Whole
      BY <1>1, <1>3, <1>4, <2>2 DEF WholeInv, Safe, CopyIn, Outcome, Whole
    <3>2. ~(mishaps \subseteq {"upgrade"}) => WholeInv'  BY <1>7 DEF WholeInv
    <3> QED  BY <1>7, <2>3, <3>1, <3>2, RestartInv
  <2>8. RestoreInv'
    <3>1. ASSUME mishaps = {}, NEW q \in Parts PROVE Outcome(E, q) = expect'[q]
      <4>1. CopyIn(ram, q, {Promised(q)})
        BY <1>1, <1>3, <1>4, <3>1 DEF RestoreInv, Safe
      <4>2. CASE script = "keep"
        <5>1. ram["default_bk"].f[q] = "none" => ram["recover"].f[q] = expect[q] /\ expect[q] # "none"
          BY <1>1, <1>2, <1>3, <1>4, <3>1, <4>2 DEF RestoreInv, WholeInv, Whole
        <5> QED  BY <1>7, <2>2, <4>1, <4>2, <5>1 DEF CopyIn, Promised, Outcome
      <4>3. CASE script = "nokeep"
        BY <1>6, <1>7, <2>2, <4>1, <4>3 DEF CopyIn, Promised, Outcome
      <4> QED  BY <1>3, <4>2, <4>3
    <3>2. mishaps # {} => RestoreInv'  BY <1>7 DEF RestoreInv
    <3> QED  BY <1>7, <2>3, <3>1, <3>2, RestartInv
  <2> QED  BY <2>4, <2>6, <2>7, <2>8 DEF Inv
<1>8. CASE /\ script' = "none" /\ at' = "idle" /\ mishaps' = mishaps \cup {"upgrade"}
           /\ UNCHANGED <<ram, flash, left, busy, expect>>
  <2>1. TypeOK'  BY <1>1, <1>2, <1>3, <1>8 DEF TypeOK
  <2>2. Structure'
    <3>1. RecoverInv' /\ DefaultInv'
      BY <1>1, <1>2, <1>3, <1>8 DEF Structure, RecoverInv, DefaultInv
    <3> QED  BY <1>1, <1>8, <3>1 DEF Structure, Housed
  <2>3. WholeInv'
    <3>1. mishaps' \subseteq {"upgrade"} => mishaps \subseteq {"upgrade"}  BY <1>8
    <3> QED  BY <1>1, <1>3, <1>4, <1>5, <1>8, <3>1 DEF WholeInv, Safe, CopyIn
  <2>4. RestoreInv'  BY <1>8 DEF RestoreInv
  <2> QED  BY <2>1, <2>2, <2>3, <2>4 DEF Inv
<1>9. \/ /\ Restart(PutEtc(ram))
         /\ expect' = (IF script = "keep" THEN expect ELSE All("factory"))
         /\ mishaps' = mishaps
      \/ /\ script' = "none" /\ at' = "idle" /\ mishaps' = mishaps \cup {"upgrade"}
         /\ UNCHANGED <<ram, flash, left, busy, expect>>
  BY DEF UpgradeEnds, PutEtc, disk, cp
<1> QED  BY <1>7, <1>8, <1>9

\* The user changes a setting: the flash has no copy that would undo it.
LEMMA UserEditsInv == ASSUME Inv, NEW o \in Parts, UserEdits(o) PROVE Inv'
<1> USE DEF Booting, Building, Resets, Upgrades, UserData, Up, Settled, Rewriting
<1>1. TypeOK /\ Structure /\ WholeInv /\ RestoreInv  BY DEF Inv
<1>2. /\ script = "none" /\ ram = flash /\ n.edits < MaxEdits
      /\ expect' = IF ram["default_bk"].f[o] = "none" THEN [expect EXCEPT ![o] = "new"] ELSE expect
      /\ n' = [n EXCEPT !.edits = @ + 1]
      /\ UNCHANGED <<defaults, flash, script, at, left, busy, mishaps>>
  BY DEF UserEdits, cp
<1>3. /\ ram' \in [Dirs -> Dir]
      /\ \A q \in Parts : ram'["etc"].f[q] = IF q = o THEN "new" ELSE ram["etc"].f[q]
      /\ \A e \in UserData : ram'[e] = ram[e]
  <2>1. ram \in [Dirs -> Dir] /\ "etc" \in Dirs /\ "new" \in Versions
    BY <1>1 DEF TypeOK, Dirs, Versions
  <2>2. ram' = PutFile(ram, "etc", o, "new")  BY DEF UserEdits, PutFile
  <2>3. /\ ram' \in [Dirs -> Dir]
        /\ \A e \in Dirs : \A q \in Parts :
              ram'[e].f[q] = IF e = "etc" /\ q = o THEN "new" ELSE ram[e].f[q]
        /\ \A e \in Dirs : e # "etc" => ram'[e] = ram[e]
    BY <2>1, <2>2, SetFile
  <2> QED  BY <2>3 DEF Dirs
<1>4. /\ expect' \in [Parts -> Versions]
      /\ \A q \in Parts : expect'[q] = IF q = o /\ ram["default_bk"].f[o] = "none" THEN "new"
                                       ELSE expect[q]
  BY <1>1, <1>2 DEF TypeOK, Versions
<1>5. TypeOK'
  <2>1. n' \in [cuts : 0 .. MaxCuts, asks : 0 .. MaxAsks, edits : 0 .. MaxEdits]
    BY <1>1, <1>2, FactoryResetAssumption DEF TypeOK
  <2> QED  BY <1>1, <1>2, <1>3, <1>4, <2>1 DEF TypeOK
<1>6. Structure'
  <2>1. RecoverInv' /\ DefaultInv'
    BY <1>1, <1>2, <1>3 DEF Structure, RecoverInv, DefaultInv
  <2>2. at # "upgrade"  BY <1>1, <1>2 DEF TypeOK
  <2> QED  BY <1>1, <1>2, <1>3, <2>1, <2>2 DEF Structure, Housed
<1>7. WholeInv'
  BY <1>1, <1>2, <1>3 DEF WholeInv, Safe, CopyIn, Whole
<1>8. RestoreInv'
  <2> SUFFICES ASSUME mishaps = {}, NEW q \in Parts
               PROVE  /\ Safe(q, {Promised(q)})'
                      /\ ram'["default_bk"].f[q] = "none" => ram'["recover"].f[q] = "none"
    BY <1>2 DEF RestoreInv
  <2>1. /\ Safe(q, {expect[q]})
        /\ ram["default_bk"].f[q] = "none" => ram["recover"].f[q] = "none"
    BY <1>1, <1>2 DEF RestoreInv, Promised
  <2>2. PICK v : v = expect'[q]  OBVIOUS
  <2>3. Promised(q)' = v  BY <1>2, <2>2 DEF Promised
  <2>4. CASE v = expect[q] /\ (q = o => ram["default_bk"].f[o] # "none")
    <3>1. Safe(q, {v})  BY <2>1, <2>4
    <3>2. Safe(q, {v})'  BY <1>2, <1>3, <2>4, <3>1 DEF Safe, CopyIn
    <3> QED  BY <1>3, <2>1, <2>3, <3>2
  <2>5. CASE q = o /\ ram["default_bk"].f[o] = "none"
    <3>1. v = "new"  BY <1>4, <2>2, <2>5
    <3>2. Safe(q, {"new"})'  BY <1>2, <1>3, <2>1, <2>5 DEF Safe, CopyIn
    <3> QED  BY <1>3, <2>1, <2>3, <3>1, <3>2
  <2> QED  BY <1>4, <2>2, <2>4, <2>5
<1> QED  BY <1>5, <1>6, <1>7, <1>8 DEF Inv

\* A buffer reaches the flash, the one of /etc or the one of userdata.
LEMMA FlushInv == ASSUME Inv, Flush PROVE Inv'
<1> USE DEF Booting, Building, Resets, Upgrades, UserData, Up, Settled, Rewriting
<1>1. TypeOK /\ Structure /\ WholeInv /\ RestoreInv  BY DEF Inv
<1>2. UNCHANGED <<defaults, ram, script, at, left, busy, expect, mishaps, n>>  BY DEF Flush, cp
<1>3. PICK ds \in {{"etc"}, UserData} :
            /\ \E d \in ds : flash[d] # ram[d]
            /\ flash' = [d \in Dirs |-> IF d \in ds THEN ram[d] ELSE flash[d]]
  BY DEF Flush
<1>4. flash' \in [Dirs -> Dir]  BY <1>1, <1>3 DEF TypeOK
<1>5. \/ \A d \in UserData : flash'[d] = ram[d]
      \/ \A d \in UserData : flash'[d] = flash[d]
  BY <1>3 DEF Dirs
<1>6. at # "upgrade"  BY <1>1, <1>3 DEF Structure
<1>7. TypeOK'  BY <1>1, <1>2, <1>4 DEF TypeOK
<1>8. Structure'
  <2>1. Housed(flash)' /\ Housed(ram)'  BY <1>1, <1>2, <1>5 DEF Structure, Housed
  <2>2. RecoverInv'  BY <1>1, <1>2, <1>5 DEF Structure, RecoverInv
  <2>3. DefaultInv'  BY <1>1, <1>2 DEF Structure, DefaultInv
  <2>4. Target' = Target  BY <1>2 DEF Target
  <2> QED  BY <1>1, <1>2, <1>6, <2>1, <2>2, <2>3, <2>4 DEF Structure
<1>9. \A q \in Parts : \A S : Safe(q, S) => Safe(q, S)'
  <2> SUFFICES ASSUME NEW q \in Parts, NEW S, Safe(q, S) PROVE Safe(q, S)'  OBVIOUS
  <2>1. Outcome(ram, q) \in S => CopyIn(ram, q, S)  BY DEF Outcome, CopyIn
  <2>2. CASE \A d \in UserData : flash'[d] = ram[d]
    <3>1. CopyIn(ram, q, S) => CopyIn(flash', q, S)  BY <2>2 DEF CopyIn
    <3> QED  BY <1>2, <2>1, <3>1 DEF Safe
  <2>3. CASE \A d \in UserData : flash'[d] = flash[d]
    <3>1. CopyIn(flash, q, S) => CopyIn(flash', q, S)  BY <2>3 DEF CopyIn
    <3> QED  BY <1>2, <2>3, <3>1 DEF Safe
  <2> QED  BY <1>5, <2>2, <2>3
<1>10. WholeInv'  BY <1>1, <1>2, <1>9 DEF WholeInv
<1>11. RestoreInv'  BY <1>1, <1>2, <1>9 DEF RestoreInv, Promised
<1> QED  BY <1>7, <1>8, <1>10, <1>11 DEF Inv

\* What a power cut leaves behind that is none of the known mishaps: the flash has
\* the copy that counts, or the file of /etc that it was made into.
LEMMA CutOutcome ==
  ASSUME Inv, ~Building, ~InBufferOnly, NEW q \in Parts, NEW S, Safe(q, S)
  PROVE  Outcome(flash, q) \in S
<1> USE DEF Booting, Building, UserData, Up, Settled
<1>1. TypeOK /\ Structure  BY DEF Inv
<1>2. flash["etc"].f[q] = ram["etc"].f[q] \/ \E d \in UserData : flash[d].f[q] # "none"
  BY DEF InBufferOnly
<1>3. CASE Booting
  <2>1. Outcome(ram, q) \in S /\ CopyIn(flash, q, S)  BY <1>3 DEF Safe
  <2>2. \A d \in UserData : ram[d].f[q] # "none" => flash[d].f[q] = ram[d].f[q]
    BY <1>1, <1>3 DEF Structure, RecoverInv
  <2> QED  BY <1>2, <2>1, <2>2 DEF Outcome, CopyIn
<1>4. CASE Up
  <2>1. /\ CopyIn(ram, q, S)
        /\ ram["default_bk"].f[q] = "none" => ram["etc"].f[q] \in S
        /\ \/ ram["default_bk"].f[q] \notin {"none", flash["default_bk"].f[q]}
           \/ CopyIn(flash, q, S)
    BY <1>4 DEF Safe
  <2>2. ram["default_bk"].f[q] # "none" => flash["default_bk"].f[q] = ram["default_bk"].f[q]
    <3>1. ram["default_bk"].f[q] # "none" => ram["default_bk"].there
      BY <1>1 DEF Structure, Housed
    <3>2. ram["default_bk"].there => flash["default_bk"] = ram["default_bk"]
      BY <1>4 DEF InBufferOnly
    <3> QED  BY <3>1, <3>2
  <2> QED  BY <1>2, <2>1, <2>2 DEF Outcome, CopyIn
<1> QED  BY <1>1, <1>3, <1>4 DEF TypeOK

\* The power fails.
LEMMA PowerCutInv == ASSUME Inv, PowerCut PROVE Inv'
<1> USE DEF Booting, Resets, Upgrades, UserData, Up
<1>1. TypeOK /\ Structure /\ WholeInv /\ RestoreInv  BY DEF Inv
<1>2. /\ n.cuts < MaxCuts /\ Restart(flash)
      /\ n' = [n EXCEPT !.cuts = @ + 1] /\ UNCHANGED <<defaults, expect>>
      /\ mishaps' = (mishaps \cup (IF Building THEN {"cut"} ELSE {}))
                        \cup (IF InBufferOnly THEN {"unflushed"} ELSE {})
  BY DEF PowerCut
<1>3. Housed(flash)  BY <1>1 DEF Structure
<1>4. /\ script' = "recover" /\ at' = "look" /\ left' = {} /\ busy' = "none"
      /\ ram' = flash /\ flash' = flash /\ Structure'
  BY <1>2, <1>3, RestartInv
<1>5. TypeOK'
  <2>1. n' \in [cuts : 0 .. MaxCuts, asks : 0 .. MaxAsks, edits : 0 .. MaxEdits]
    BY <1>1, <1>2, FactoryResetAssumption DEF TypeOK
  <2>2. mishaps' \subseteq {"cut", "unflushed", "upgrade"}  BY <1>1, <1>2 DEF TypeOK
  <2> QED  BY <1>1, <1>2, <1>4, <2>1, <2>2 DEF TypeOK
<1>6. mishaps' \subseteq {"upgrade"} => mishaps \subseteq {"upgrade"} /\ ~Building /\ ~InBufferOnly
  BY <1>2
<1>7. mishaps' = {} => mishaps = {} /\ ~Building /\ ~InBufferOnly
  BY <1>2
<1>8. WholeInv'
  <2>1. CASE mishaps' \subseteq {"upgrade"}
    <3>1. \A q \in Parts : Outcome(flash, q) \in Whole
      BY <1>1, <1>6, <2>1, CutOutcome DEF WholeInv
    <3> QED  BY <1>2, <1>3, <2>1, <3>1, RestartInv
  <2>2. CASE ~(mishaps' \subseteq {"upgrade"})  BY <2>2 DEF WholeInv
  <2> QED  BY <2>1, <2>2
<1>9. RestoreInv'
  <2>1. CASE mishaps' = {}
    <3>1. ASSUME NEW q \in Parts PROVE Outcome(flash, q) = expect'[q]
      <4>1. Safe(q, {Promised(q)})  BY <1>1, <1>7, <2>1 DEF RestoreInv
      <4>2. Promised(q) = expect[q]  BY <1>7, <2>1 DEF Promised, Building
      <4>3. Outcome(flash, q) \in {Promised(q)}  BY <1>7, <2>1, <4>1, CutOutcome
      <4> QED  BY <1>2, <4>2, <4>3
    <3> QED  BY <1>2, <1>3, <2>1, <3>1, RestartInv
  <2>2. CASE mishaps' # {}  BY <2>2 DEF RestoreInv
  <2> QED  BY <2>1, <2>2
<1> QED  BY <1>4, <1>5, <1>8, <1>9 DEF Inv

\* Nothing happens.
LEMMA StutterInv == ASSUME Inv, UNCHANGED vars PROVE Inv'
<1> USE DEF Booting, Building, Resets, Upgrades, UserData, Up, Settled, Rewriting
<1>1. TypeOK /\ Structure /\ WholeInv /\ RestoreInv  BY DEF Inv
<1>2. UNCHANGED <<defaults, ram, flash, script, at, left, busy, expect, mishaps, n>>
  BY DEF vars, disk, cp
<1>3. TypeOK'  BY <1>1, <1>2 DEF TypeOK
<1>4. Structure'
  <2>1. Housed(ram)' /\ Housed(flash)'  BY <1>1, <1>2 DEF Structure, Housed
  <2>2. RecoverInv' /\ DefaultInv'  BY <1>1, <1>2 DEF Structure, RecoverInv, DefaultInv
  <2>3. Target' = Target  BY <1>2 DEF Target
  <2> QED  BY <1>1, <1>2, <2>1, <2>2, <2>3 DEF Structure
<1>5. \A q \in Parts : \A S : Safe(q, S) => Safe(q, S)'  BY <1>2 DEF Safe
<1>6. WholeInv'  BY <1>1, <1>2, <1>5 DEF WholeInv
<1>7. RestoreInv'  BY <1>1, <1>2, <1>5 DEF RestoreInv, Promised
<1> QED  BY <1>3, <1>4, <1>6, <1>7 DEF Inv

-----------------------------------------------------------------------------
(* The theorems.                                                           *)

\* The invariant holds in every behaviour of the scripts, whatever the files, the
\* number of power cuts and the moments they come at.
THEOREM Inductive == Spec => []Inv
<1>1. Init => Inv  BY InitInv
<1>2. ASSUME Inv, [Next]_vars PROVE Inv'
  <2>1. ASSUME LcdReset \/ WebReset \/ WebUpgrade PROVE Inv'
    <3>1. PICK s \in Resets \cup Upgrades : Run(s)
      BY <2>1 DEF LcdReset, WebReset, WebUpgrade, Resets, Upgrades
    <3> QED  BY <1>2, <3>1, RunInv
  <2>2. ASSUME (\E p \in Parts : CpOpen(p)) \/ CpWrite \/ CpEnds PROVE Inv'
    BY <1>2, <2>2, CpOpenInv, CpWriteInv, CpEndsInv
  <2>3. ASSUME Look \/ (\E p \in Parts : Unlink(p)) \/ RmConfig \/ RmDir PROVE Inv'
    BY <1>2, <2>3, LookInv, UnlinkInv, RmConfigInv, RmDirInv
  <2>4. ASSUME MkDir \/ MkConfig \/ Answer \/ Reboot \/ Sync \/ UpgradeEnds PROVE Inv'
    BY <1>2, <2>4, MkDirInv, MkConfigInv, AnswerInv, RebootInv, SyncInv, UpgradeEndsInv
  <2>5. ASSUME (\E p \in Parts : UserEdits(p)) \/ Flush \/ PowerCut PROVE Inv'
    BY <1>2, <2>5, UserEditsInv, FlushInv, PowerCutInv
  <2>6. CASE UNCHANGED vars  BY <1>2, <2>6, StutterInv
  <2> QED  BY <1>2, <2>1, <2>2, <2>3, <2>4, <2>5, <2>6 DEF Next
<1> QED  BY <1>1, <1>2, PTL DEF Spec

\* The state is of its type.
THEOREM TypeCorrect == Spec => []TypeOK
<1>1. Inv => TypeOK  BY DEF Inv
<1> QED  BY <1>1, Inductive, PTL

\* A boot that comes to its end leaves in /etc exactly what was promised or set
\* last, unless one of the known mishaps came between.
THEOREM BootLeavesWhatWasPromised == Spec => []BootRestores
<1>1. Inv => BootRestores
  <2> SUFFICES ASSUME Inv, Up, mishaps = {}, \A d \in UserData : ~ram[d].there
               PROVE  ram["etc"].f = expect
    BY DEF BootRestores
  <2>1. \A p \in Parts : ram["default_bk"].f[p] = "none"
    BY DEF Inv, Structure, Housed, UserData
  <2>2. \A p \in Parts : Safe(p, {expect[p]})
    BY DEF Inv, RestoreInv, Promised, Up
  <2>3. \A p \in Parts : ram["etc"].f[p] = expect[p]
    BY <2>1, <2>2 DEF Safe, Settled
  <2>4. ram["etc"].f \in [Parts -> Versions] /\ expect \in [Parts -> Versions]
    BY DEF Inv, TypeOK, Dir, Dirs
  <2> QED  BY <2>3, <2>4
<1> QED  BY <1>1, Inductive, PTL

\* No boot leaves a setting missing or half written, also when an upgrade that did
\* not happen has left its directory behind.
THEOREM BootLeavesWholeFiles == Spec => []WholeFiles
<1>1. Inv => WholeFiles
  <2> SUFFICES ASSUME Inv, Up, mishaps \subseteq {"upgrade"}, ~ram["default_bk"].there,
                      NEW p \in Parts
               PROVE  ram["etc"].f[p] \notin {"torn", "none"}
    BY DEF WholeFiles
  <2>1. ram["default_bk"].f[p] = "none"  BY DEF Inv, Structure, Housed, UserData
  <2>2. Safe(p, Whole)  BY DEF Inv, WholeInv
  <2>3. ram["etc"].f[p] \in Whole  BY <2>1, <2>2 DEF Safe, Settled
  <2> QED  BY <2>3 DEF Whole
<1> QED  BY <1>1, Inductive, PTL
=============================================================================
