------------------------ MODULE FsgLifecycle_proofs ------------------------
(***************************************************************************)
(* Proofs about FsgLifecycle, for any number of LUNs and with or without   *)
(* the rare events: the driver is deregistered at most once, and nobody    *)
(* uses its memory or its buffers after they were freed.                   *)
(***************************************************************************)
EXTENDS FsgLifecycle, FiniteSetTheorems, TLAPS

Leaving == UnregPcs \cup UnbindPcs

\* Which code each process runs.
PcOK ==
    /\ pc["insmod"] \in InsmodPcs \cup UnbindPcs
    /\ pc["thread"] \in {"none", "loop", "cmd", "exit", "complete", "dead"} \cup Leaving
    /\ pc["rmmod"]  \in RmmodPcs \cup Leaving

\* What insmod, rmmod and the state of the thread tell of each other.
Stages ==
    /\ pc["thread"] = "none" =>
          /\ pc["rmmod"] = "none" /\ pc["insmod"] \notin {"run", "ok", "ub_wait", "ub_again"}
          /\ ~killed /\ ~REGISTERED
          /\ pc["insmod"] \in UnbindPcs \cup {"out_complete"} => state = "TERMINATED"
          /\ pc["insmod"] \in {"alloc", "hook", "lun", "open", "bufs", "create", "set", "out"}
             => state = "IDLE"
    /\ pc["thread"] # "none" =>
          pc["insmod"] \in {"run", "ok", "out_unhook", "put", "failed"} \cup UnbindPcs
    /\ pc["rmmod"] # "none" => pc["insmod"] = "ok"
    /\ pc["thread"] \in {"loop", "cmd"} => state # "TERMINATED"
    /\ pc["thread"] \in {"exit", "complete", "dead"} \cup Leaving => state = "TERMINATED"
    /\ pc["insmod"] \in UnbindPcs \ {"ub_clear"} => ~REGISTERED

\* The REGISTERED bit is a token: whoever takes it may deregister the driver.
Token ==
    /\ REGISTERED => unregs = 0 /\ pc["thread"] \notin Leaving /\ pc["rmmod"] \notin Leaving
    /\ pc["thread"] = "none" \/ "ur_stop" \in {pc["thread"], pc["rmmod"]} => unregs = 0
    /\ unregs <= 1
    /\ pc["thread"] \in Leaving => pc["rmmod"] \notin Leaving

\* thread_notifier: complete says that the thread is dead, or never was.
Completion ==
    /\ notifier <= 1
    /\ notifier = 1 =>
          \/ pc["thread"] = "dead" /\ \A p \in Procs : pc[p] # "ub_again"
          \/ pc["thread"] = "none" /\ pc["insmod"] \in {"out_unhook", "put", "failed"}
    /\ \A p \in Procs : pc[p] = "ub_again" => pc["thread"] = "dead"
    /\ \A p \in Procs : pc[p] = "ub_free" => pc["thread"] \notin {"loop", "cmd"}
    /\ pc["rmmod"] \in {"put", "done"} => pc["thread"] = "dead"

\* Without a kill before the end of insmod, the thread serves insmod until that
\* fails, and insmod waits for its death.
Orderly ==
    "early" \notin faulted =>
        /\ killed => pc["insmod"] = "ok"
        /\ pc["thread"] # "none" /\ pc["insmod"] \in {"run", "ub_clear", "ub_lun", "ub_test"}
           => pc["thread"] \in {"loop", "cmd"} /\ state = "IDLE"
        /\ pc["insmod"] \in {"ub_free", "out_unhook", "put", "failed"} => pc["thread"] \in {"none", "dead"}
        /\ pc["thread"] \in Leaving => pc["insmod"] = "ok"
        /\ pc["thread"] = "exit" /\ REGISTERED => pc["insmod"] = "ok"

\* Who has, or may come to have, a use for the buffers.
Buffers ==
    /\ udc_on => pc["insmod"] = "ok"
    /\ pc["insmod"] \in {"create", "set"} => bufs
    /\ "early" \notin faulted =>
          /\ pc["thread"] \in {"loop", "cmd"} \/ udc_on => bufs
          /\ \A p \in {"thread", "rmmod"} :
                pc[p] \in UnbindPcs \cup {"ur_disc", "ur_unhook"} => ~udc_on

Live == {l \in Luns : lundev[l] \in {"registered", "zombie"}}
Base == IF pc["insmod"] \in {"alloc", "failed"} \/ pc["rmmod"] = "done" THEN 0 ELSE 1
Lost == IF "attr" \in faulted THEN 1 ELSE 0

\* Every LUN device that is not released holds a reference to fsg_dev, and so do
\* insmod and later the loaded module; device_unregister of a LUN that never took
\* one drops one too many.
Refs ==
    /\ refs = Base + Cardinality(Live) - Lost
    /\ allocated <=> refs >= 1
    /\ pc["insmod"] \in {"alloc", "hook"} => i["insmod"] = 0
    /\ pc["insmod"] \in {"alloc", "hook", "lun"} =>
          \A l \in Luns : l >= i["insmod"] => lundev[l] = "none"
    /\ pc["insmod"] = "open" =>
          i["insmod"] < NLuns /\ \A l \in Luns : l > i["insmod"] => lundev[l] = "none"
    /\ pc["insmod"] \in {"alloc", "hook", "lun", "open"} => "attr" \notin faulted
    /\ op # NoOp => op.lun \in Luns /\ lundev[op.lun] = "registered"

Control == PcOK /\ Stages /\ Token /\ Completion /\ Orderly /\ Buffers
IInv == TypeOK /\ Control /\ Refs

-----------------------------------------------------------------------------
USE DEF Goto, kref_put, udc, luns, mem, flow, aux, Procs, NoOp, Leaving, InsmodPcs, UnbindPcs,
        UnregPcs, ThreadPcs, RmmodPcs

\* Every step keeps the invariant on the control flow.
LEMMA ControlStep == IInv /\ [Next]_vars => Control'
<1> SUFFICES ASSUME IInv, [Next]_vars PROVE Control'
  OBVIOUS
<1> USE DEF IInv, TypeOK, Control, PcOK, Stages, Token, Completion, Orderly, Buffers
<1>1. CASE Alloc
  BY <1>1 DEF Alloc
<1>2. CASE Hook
  BY <1>2 DEF Hook
<1>3. CASE RegisterLun
  BY <1>3 DEF RegisterLun
<1>4. CASE OpenLun
  BY <1>4 DEF OpenLun
<1>5. CASE AllocBuffers
  BY <1>5 DEF AllocBuffers
<1>6. CASE CreateThread
  BY <1>6 DEF CreateThread
<1>7. CASE SetRegistered
  BY <1>7 DEF SetRegistered
<1>8. CASE RunController
  <2>1. PcOK'
    BY <1>8 DEF RunController
  <2>2. Stages'
    BY <1>8 DEF RunController
  <2>3. Token'
    BY <1>8 DEF RunController
  <2>4. Completion'
    BY <1>8 DEF RunController
  <2>5. Orderly'
    BY <1>8 DEF RunController
  <2>6. Buffers'
    BY <1>8 DEF RunController
  <2> QED
    BY <2>1, <2>2, <2>3, <2>4, <2>5, <2>6
<1>9. CASE BindFails
  BY <1>9 DEF BindFails
<1>10. CASE BindCompletes
  BY <1>10 DEF BindCompletes
<1>11. CASE RegisterFails
  <2>1. PcOK'
    BY <1>11 DEF RegisterFails
  <2>2. Stages'
    BY <1>11 DEF RegisterFails
  <2>3. Token'
    BY <1>11 DEF RegisterFails
  <2>4. Completion'
    BY <1>11 DEF RegisterFails
  <2>5. Orderly'
    BY <1>11 DEF RegisterFails
  <2>6. Buffers'
    BY <1>11 DEF RegisterFails
  <2> QED
    BY <2>1, <2>2, <2>3, <2>4, <2>5, <2>6
<1>12. CASE InitFails
  BY <1>12 DEF InitFails
<1>13. CASE Configure
  BY <1>13 DEF Configure
<1>14. CASE CommandBegins
  BY <1>14 DEF CommandBegins
<1>15. CASE CommandEnds
  BY <1>15 DEF CommandEnds
<1>16. CASE HandleException
  <2>1. PcOK'
    BY <1>16 DEF HandleException
  <2>2. Stages'
    BY <1>16 DEF HandleException
  <2>3. Token'
    BY <1>16 DEF HandleException
  <2>4. Completion'
    BY <1>16 DEF HandleException
  <2>5. Orderly'
    BY <1>16 DEF HandleException
  <2>6. Buffers'
    BY <1>16 DEF HandleException
  <2> QED
    BY <2>1, <2>2, <2>3, <2>4, <2>5, <2>6
<1>17. CASE ThreadTestsRegistered
  <2>1. PcOK'
    BY <1>17 DEF ThreadTestsRegistered
  <2>2. Stages'
    BY <1>17 DEF ThreadTestsRegistered
  <2>3. Token'
    BY <1>17 DEF ThreadTestsRegistered
  <2>4. Completion'
    BY <1>17 DEF ThreadTestsRegistered
  <2>5. Orderly'
    BY <1>17 DEF ThreadTestsRegistered
  <2>6. Buffers'
    BY <1>17 DEF ThreadTestsRegistered
  <2> QED
    BY <2>1, <2>2, <2>3, <2>4, <2>5, <2>6
<1>18. CASE ThreadCompletes
  BY <1>18 DEF ThreadCompletes
<1>19. CASE RmmodTestsRegistered
  <2>1. PcOK'
    BY <1>19 DEF RmmodTestsRegistered
  <2>2. Stages'
    BY <1>19 DEF RmmodTestsRegistered
  <2>3. Token'
    BY <1>19 DEF RmmodTestsRegistered
  <2>4. Completion'
    BY <1>19 DEF RmmodTestsRegistered
  <2>5. Orderly'
    BY <1>19 DEF RmmodTestsRegistered
  <2>6. Buffers'
    BY <1>19 DEF RmmodTestsRegistered
  <2> QED
    BY <2>1, <2>2, <2>3, <2>4, <2>5, <2>6
<1>20. CASE RmmodWaits
  BY <1>20 DEF RmmodWaits
<1>21. CASE RmmodPuts
  <2>1. PcOK'
    BY <1>21 DEF RmmodPuts
  <2>2. Stages'
    BY <1>21 DEF RmmodPuts
  <2>3. Token'
    BY <1>21 DEF RmmodPuts
  <2>4. Completion'
    BY <1>21 DEF RmmodPuts
  <2>5. Orderly'
    BY <1>21 DEF RmmodPuts
  <2>6. Buffers'
    BY <1>21 DEF RmmodPuts
  <2> QED
    BY <2>1, <2>2, <2>3, <2>4, <2>5, <2>6
<1>22. CASE StoreFileLocks
  BY <1>22 DEF StoreFileLocks
<1>23. CASE StoreFileEnds
  BY <1>23 DEF StoreFileEnds
<1>24. CASE Kill
  BY <1>24 DEF Kill
<1>25. CASE RmmodBegins
  BY <1>25 DEF RmmodBegins
<1>26. ASSUME NEW p \in Procs, StopController(p) PROVE Control'
  <2>1. PcOK'
    BY <1>26 DEF StopController, AfterUnregister
  <2>2. Stages'
    BY <1>26 DEF StopController, AfterUnregister
  <2>3. Token'
    BY <1>26 DEF StopController, AfterUnregister
  <2>4. Completion'
    BY <1>26 DEF StopController, AfterUnregister
  <2>5. Orderly'
    BY <1>26 DEF StopController, AfterUnregister
  <2>6. Buffers'
    BY <1>26 DEF StopController, AfterUnregister
  <2> QED
    BY <2>1, <2>2, <2>3, <2>4, <2>5, <2>6
<1>27. ASSUME NEW p \in Procs, Disconnect(p) PROVE Control'
  BY <1>27 DEF Disconnect, raise_exception
<1>28. ASSUME NEW p \in Procs, UnbindClear(p) PROVE Control'
  <2>1. PcOK'
    BY <1>28 DEF UnbindClear
  <2>2. Stages'
    BY <1>28 DEF UnbindClear
  <2>3. Token'
    BY <1>28 DEF UnbindClear
  <2>4. Completion'
    BY <1>28 DEF UnbindClear
  <2>5. Orderly'
    BY <1>28 DEF UnbindClear
  <2>6. Buffers'
    BY <1>28 DEF UnbindClear
  <2> QED
    BY <2>1, <2>2, <2>3, <2>4, <2>5, <2>6
<1>29. ASSUME NEW p \in Procs, UnbindLun(p) PROVE Control'
  BY <1>29 DEF UnbindLun
<1>30. ASSUME NEW p \in Procs, UnbindTest(p) PROVE Control'
  BY <1>30 DEF UnbindTest, raise_exception
<1>31. ASSUME NEW p \in Procs, UnbindWait(p) PROVE Control'
  BY <1>31 DEF UnbindWait
<1>32. ASSUME NEW p \in Procs, UnbindAgain(p) PROVE Control'
  BY <1>32 DEF UnbindAgain
<1>33. ASSUME NEW p \in Procs, UnbindFree(p) PROVE Control'
  <2>1. PcOK'
    BY <1>33 DEF UnbindFree
  <2>2. Stages'
    BY <1>33 DEF UnbindFree
  <2>3. Token'
    BY <1>33 DEF UnbindFree
  <2>4. Completion'
    BY <1>33 DEF UnbindFree
  <2>5. Orderly'
    BY <1>33 DEF UnbindFree
  <2>6. Buffers'
    BY <1>33 DEF UnbindFree
  <2> QED
    BY <2>1, <2>2, <2>3, <2>4, <2>5, <2>6
<1>34. ASSUME NEW p \in Procs, Unhook(p) PROVE Control'
  <2>1. PcOK'
    BY <1>34 DEF Unhook, AfterUnregister
  <2>2. Stages'
    BY <1>34 DEF Unhook, AfterUnregister
  <2>3. Token'
    BY <1>34 DEF Unhook, AfterUnregister
  <2>4. Completion'
    BY <1>34 DEF Unhook, AfterUnregister
  <2>5. Orderly'
    BY <1>34 DEF Unhook, AfterUnregister
  <2>6. Buffers'
    BY <1>34 DEF Unhook, AfterUnregister
  <2> QED
    BY <2>1, <2>2, <2>3, <2>4, <2>5, <2>6
<1>35. ASSUME NEW l \in Luns, LunRelease(l) PROVE Control'
  BY <1>35 DEF LunRelease
<1>36. ASSUME NEW l \in Luns, StoreFileBegins(l) PROVE Control'
  BY <1>36 DEF StoreFileBegins
<1>37. CASE UNCHANGED vars
  BY <1>37 DEF vars
<1> QED
  BY <1>1, <1>2, <1>3, <1>4, <1>5, <1>6, <1>7, <1>8, <1>9, <1>10, <1>11, <1>12, <1>13, <1>14, <1>15, <1>16, <1>17, <1>18, <1>19, <1>20, <1>21, <1>22, <1>23, <1>24, <1>25, <1>26, <1>27, <1>28, <1>29, <1>30, <1>31, <1>32, <1>33, <1>34, <1>35, <1>36, <1>37
     DEF Next, Insmod, Thread, Rmmod, Unregister, StoreFile, Others

-----------------------------------------------------------------------------
\* There are at most NLuns LUN devices in any state.
LEMMA LunsFinite ==
    ASSUME NEW S \in SUBSET Luns
    PROVE  IsFiniteSet(S) /\ Cardinality(S) \in 0 .. NLuns
<1>1. IsFiniteSet(Luns) /\ Cardinality(Luns) = NLuns
  BY LunsAssumption, FS_Interval DEF Luns
<1>2. IsFiniteSet(S) /\ Cardinality(S) <= NLuns
  BY <1>1, FS_Subset
<1> QED
  BY <1>2, LunsAssumption, FS_CardinalityType

\* Registering a LUN's device adds it to the live ones.
LEMMA LiveGrows ==
    ASSUME TypeOK, NEW l \in Luns, NEW s \in {"registered", "zombie"},
           lundev[l] = "none", lundev' = [lundev EXCEPT ![l] = s]
    PROVE  Cardinality(Live') = Cardinality(Live) + 1
<1>1. Live' = Live \cup {l} /\ l \notin Live /\ Live \in SUBSET Luns
  BY DEF TypeOK, Live
<1> QED
  BY <1>1, LunsFinite, FS_AddElement

\* Releasing it takes it away.
LEMMA LiveShrinks ==
    ASSUME TypeOK, NEW l \in Luns, lundev[l] = "zombie",
           lundev' = [lundev EXCEPT ![l] = "released"]
    PROVE  Cardinality(Live') = Cardinality(Live) - 1
<1>1. Live' = Live \ {l} /\ l \in Live /\ Live \in SUBSET Luns
  BY DEF TypeOK, Live
<1> QED
  BY <1>1, LunsFinite, FS_RemoveElement

\* Every step keeps the account of the references.
LEMMA RefsStep == IInv /\ [Next]_vars => Refs'
<1> SUFFICES ASSUME IInv, [Next]_vars PROVE Refs'
  OBVIOUS
<1> DEFINE Card == Cardinality(Live)
<1>0. Card \in 0 .. NLuns /\ refs \in Int /\ Luns \subseteq Nat /\ NLuns \in Nat
  <2>1. Live \subseteq Luns
    BY DEF Live
  <2> QED
    BY <2>1, LunsFinite, LunsAssumption DEF IInv, TypeOK, Luns
<1> USE <1>0 DEF IInv, TypeOK, Refs
<1> HIDE DEF Card
<1>1. ASSUME lundev' = lundev PROVE Card' = Card
  BY <1>1 DEF Live, Card
<1>2. CASE Alloc
  <2>1. Live = {}
    <3>1. i["insmod"] = 0 /\ \A l \in Luns : l >= i["insmod"] => lundev[l] = "none"
      BY <1>2 DEF Alloc
    <3>2. \A l \in Luns : lundev[l] = "none"
      BY <3>1
    <3> QED
      BY <3>2 DEF Live
  <2>2. Card = 0 /\ Card' = 0
    BY <1>2, <1>1, <2>1, FS_EmptySet DEF Alloc, Card
  <2>3. pc["rmmod"] = "none" /\ "attr" \notin faulted
    BY <1>2 DEF Alloc, Control, Stages
  <2> QED
    BY <1>2, <2>2, <2>3 DEF Alloc, Base, Lost, Card
<1>3. CASE RegisterLun
  <2> DEFINE l == i["insmod"]
  <2>1. CASE l < NLuns /\ lundev' # lundev
    <3>1. l \in Luns /\ lundev[l] = "none" /\ "attr" \notin faulted
      BY <1>3, <2>1 DEF RegisterLun, Luns
    <3>2. PICK s \in {"registered", "zombie"} : lundev' = [lundev EXCEPT ![l] = s]
      BY <1>3, <2>1 DEF RegisterLun
    <3>3. Card' = Card + 1
      BY <3>1, <3>2, LiveGrows DEF Card
    <3>4. op # NoOp => op.lun # l
      BY <3>1
    <3>5. pc["rmmod"] # "done" /\ pc'["rmmod"] # "done"
      BY <1>3 DEF RegisterLun, Control, Stages
    <3>6. refs' = Base' + Card' - Lost' /\ (allocated' <=> refs' >= 1)
      <4>1. Base = 1 /\ Base' = 1 /\ Lost = 0 /\ allocated' = allocated /\ refs = 1 + Card
        BY <1>3, <2>1, <3>1, <3>5 DEF RegisterLun, Base, Lost, Card
      <4>2. CASE refs' = refs + 1 /\ faulted' = faulted
        BY <3>3, <4>1, <4>2 DEF Lost
      <4>3. CASE refs' = refs /\ faulted' = faulted \cup {"attr"}
        BY <3>3, <4>1, <4>3 DEF Lost
      <4> QED
        BY <1>3, <2>1, <4>2, <4>3 DEF RegisterLun
    <3>7. (op # NoOp => op.lun \in Luns /\ lundev[op.lun] = "registered")'
      BY <1>3, <3>2, <3>4 DEF RegisterLun
    <3> HIDE DEF Refs
    <3>8. /\ pc'["insmod"] \in {"open", "out"} /\ i' = i
          /\ pc'["insmod"] = "open" => faulted' = faulted
      BY <1>3, <2>1, <3>2 DEF RegisterLun
    <3>9. pc'["insmod"] = "open" => \A k \in Luns : k > i["insmod"] => lundev'[k] = "none"
      BY <1>3, <3>2 DEF RegisterLun, Refs
    <3> QED
      BY <2>1, <3>1, <3>6, <3>7, <3>8, <3>9 DEF Refs, Card
  <2>2. CASE lundev' = lundev
    <3>1. Card' = Card
      BY <2>2, <1>1
    <3>2. CASE l = NLuns
      BY <1>3, <2>2, <3>1, <3>2 DEF RegisterLun, Base, Lost, Card
    <3>3. CASE l < NLuns
      <4>1. l \in Luns /\ lundev[l] = "none"
        BY <1>3, <3>3 DEF RegisterLun, Luns
      <4> QED
        BY <1>3, <2>2, <3>1, <3>3, <4>1 DEF RegisterLun, Base, Lost, Card
    <3> QED
      BY <3>2, <3>3, <1>3 DEF RegisterLun
  <2> QED
    BY <1>3, <2>1, <2>2 DEF RegisterLun
<1>4. CASE OpenLun
  BY <1>4, <1>1 DEF OpenLun, Base, Lost, Card
<1>5. CASE InitFails \/ RmmodPuts
  <2>1. Card' = Card /\ Lost' = Lost
    BY <1>5, <1>1 DEF InitFails, RmmodPuts, Lost
  <2>2. Base = 1 /\ Base' = 0 /\ refs' = refs - 1 /\ (allocated' <=> allocated /\ refs # 1)
    BY <1>5 DEF InitFails, RmmodPuts, Base, Control, Stages
  <2>3. /\ refs' = Base' + Card' - Lost'
        /\ allocated' <=> refs' >= 1
    BY <2>1, <2>2 DEF Lost, Card
  <2> QED
    BY <1>5, <2>3 DEF InitFails, RmmodPuts, Card, Control, Stages
<1>6. ASSUME NEW p \in Procs, UnbindLun(p) PROVE Refs'
  <2>1. Card' = Card
    <3>1. Live' = Live
      BY <1>6, SMTT(30) DEF UnbindLun, Live, Luns
    <3> QED
      BY <3>1 DEF Card
  <2> QED
    <3>1. /\ Base' = Base /\ Lost' = Lost /\ UNCHANGED <<refs, allocated, op, faulted>>
          /\ pc'["insmod"] \in {"alloc", "hook", "lun", "open"} => UNCHANGED <<pc["insmod"], i["insmod"]>>
      BY <1>6 DEF UnbindLun, Base, Lost
    <3>2. \A l \in Luns : lundev[l] = "none" => lundev'[l] = "none"
      BY <1>6 DEF UnbindLun
    <3>3. op # NoOp => lundev'[op.lun] = "registered"
      BY <1>6 DEF UnbindLun
    <3> QED
      BY <2>1, <3>1, <3>2, <3>3 DEF Card
<1>7. ASSUME NEW l \in Luns, LunRelease(l) PROVE Refs'
  <2>1. Card' = Card - 1
    BY <1>7, LiveShrinks DEF LunRelease, Card
  <2> QED
    <3>0. /\ Base' = Base /\ Lost' = Lost /\ Base \in {0, 1} /\ Lost \in {0, 1}
          /\ refs' = refs - 1 /\ (allocated' <=> allocated /\ refs # 1)
      BY <1>7 DEF LunRelease, Base, Lost
    <3>1. refs' = Base' + Card' - Lost' /\ (allocated' <=> refs' >= 1)
      BY <2>1, <3>0 DEF Card
    <3>2. \A k \in Luns : lundev[k] \in {"none", "registered"} => lundev'[k] = lundev[k]
      BY <1>7 DEF LunRelease
    <3> QED
      BY <1>7, <3>1, <3>2 DEF LunRelease, Card
<1>8. ASSUME NEW l \in Luns, StoreFileBegins(l) PROVE Refs'
  BY <1>8, <1>1 DEF StoreFileBegins, Base, Lost, Card
<1>9. CASE StoreFileLocks \/ StoreFileEnds
  BY <1>9, <1>1 DEF StoreFileLocks, StoreFileEnds, Base, Lost, Card
<1>10. CASE Kill
  BY <1>10, <1>1 DEF Kill, Base, Lost, Card
<1>11. CASE Configure \/ CommandBegins \/ CommandEnds \/ HandleException
            \/ ThreadTestsRegistered \/ ThreadCompletes
  BY <1>11, <1>1 DEF Configure, CommandBegins, CommandEnds, HandleException,
                     ThreadTestsRegistered, ThreadCompletes, Base, Lost, Card
<1>12. CASE RmmodTestsRegistered \/ RmmodWaits \/ RmmodBegins
  BY <1>12, <1>1 DEF RmmodTestsRegistered, RmmodWaits, RmmodBegins, Base, Lost, Card
<1>13. CASE Hook \/ AllocBuffers \/ CreateThread \/ SetRegistered \/ RunController
            \/ BindFails \/ BindCompletes \/ RegisterFails
  BY <1>13, <1>1 DEF Hook, AllocBuffers, CreateThread, SetRegistered, RunController, BindFails,
                     BindCompletes, RegisterFails, Base, Lost, Card
<1>14. ASSUME NEW p \in Procs,
              \/ StopController(p) \/ Disconnect(p) \/ UnbindClear(p) \/ UnbindTest(p)
              \/ UnbindWait(p) \/ UnbindAgain(p) \/ UnbindFree(p) \/ Unhook(p)
       PROVE  Refs'
  BY <1>14, <1>1 DEF StopController, Disconnect, UnbindClear, UnbindTest, UnbindWait, UnbindAgain,
                     UnbindFree, Unhook, AfterUnregister, Base, Lost, Card, Control, PcOK
<1>15. CASE UNCHANGED vars
  BY <1>15, <1>1 DEF vars, Base, Lost, Card
<1> QED
  BY <1>2, <1>3, <1>4, <1>5, <1>6, <1>7, <1>8, <1>9, <1>10, <1>11, <1>12, <1>13, <1>14, <1>15
     DEF Next, Insmod, Thread, Rmmod, Unregister, StoreFile, Others

\* Every variable keeps its type.
LEMMA TypeStep == IInv /\ [Next]_vars => TypeOK'
<1> SUFFICES ASSUME IInv, [Next]_vars PROVE TypeOK'
  OBVIOUS
<1>1. refs' \in -1 .. NLuns + 1
  <2>1. Cardinality(Live') \in 0 .. NLuns
    <3>1. Live' \subseteq Luns
      BY DEF Live
    <3> QED
      BY <3>1, LunsFinite
  <2>2. refs' = Base' + Cardinality(Live') - Lost'
    BY RefsStep DEF Refs
  <2> QED
    BY <2>1, <2>2, LunsAssumption DEF Base, Lost
<1> USE <1>1, LunsAssumption DEF IInv, TypeOK, Luns
<1>2. CASE Alloc
  <2>1. pc' \in [Procs -> InsmodPcs \cup UnbindPcs \cup UnregPcs \cup ThreadPcs \cup RmmodPcs]
    BY <1>2 DEF Alloc
  <2>2. allocated' \in BOOLEAN
    BY <1>2 DEF Alloc
  <2> QED
    BY <1>2, <2>1, <2>2 DEF Alloc
<1>3. CASE Hook
  BY <1>3 DEF Hook
<1>4. CASE RegisterLun
  <2>1. pc' \in [Procs -> InsmodPcs \cup UnbindPcs \cup UnregPcs \cup ThreadPcs \cup RmmodPcs]
    BY <1>4 DEF RegisterLun
  <2>2. lundev' \in [Luns -> {"none", "registered", "zombie", "released"}]
    BY <1>4 DEF RegisterLun
  <2>3. faulted' \subseteq Faults
    BY <1>4 DEF RegisterLun
  <2> QED
    BY <1>4, <2>1, <2>2, <2>3 DEF RegisterLun
<1>5. CASE OpenLun
  <2>1. pc' \in [Procs -> InsmodPcs \cup UnbindPcs \cup UnregPcs \cup ThreadPcs \cup RmmodPcs]
    BY <1>5 DEF OpenLun
  <2>2. i' \in [Procs -> 0 .. NLuns] /\ filp' \subseteq Luns
    <3>1. i["insmod"] \in 0 .. NLuns - 1 /\ i["insmod"] + 1 \in 0 .. NLuns
      BY <1>5 DEF OpenLun, Refs
    <3>2. i' \in [Procs -> 0 .. NLuns]
      BY <1>5, <3>1 DEF OpenLun
    <3>3. filp' \subseteq Luns
      BY <1>5, <3>1, ZenonT(60) DEF OpenLun
    <3> QED
      BY <3>2, <3>3
  <2> QED
    BY <1>5, <2>1, <2>2 DEF OpenLun
<1>6. CASE AllocBuffers
  BY <1>6 DEF AllocBuffers
<1>7. CASE CreateThread
  BY <1>7 DEF CreateThread
<1>8. CASE SetRegistered
  BY <1>8 DEF SetRegistered
<1>9. CASE RunController
  <2>1. pc' \in [Procs -> InsmodPcs \cup UnbindPcs \cup UnregPcs \cup ThreadPcs \cup RmmodPcs]
    BY <1>9 DEF RunController
  <2>2. i' \in [Procs -> 0 .. NLuns]
    BY <1>9 DEF RunController
  <2>3. udc_on' \in BOOLEAN
    BY <1>9 DEF RunController
  <2> QED
    BY <1>9, <2>1, <2>2, <2>3 DEF RunController
<1>10. CASE BindFails
  BY <1>10 DEF BindFails
<1>11. CASE BindCompletes
  BY <1>11 DEF BindCompletes, Control, Completion
<1>12. CASE RegisterFails
  BY <1>12, ZenonT(60) DEF RegisterFails
<1>13. CASE InitFails
  BY <1>13 DEF InitFails
<1>14. CASE Configure
  BY <1>14 DEF Configure
<1>15. CASE CommandBegins
  BY <1>15 DEF CommandBegins
<1>16. CASE CommandEnds
  BY <1>16 DEF CommandEnds
<1>17. CASE HandleException
  <2>1. pc' \in [Procs -> InsmodPcs \cup UnbindPcs \cup UnregPcs \cup ThreadPcs \cup RmmodPcs]
    BY <1>17 DEF HandleException
  <2>2. state' \in {"IDLE", "DISCONNECT", "EXIT", "TERMINATED"}
    BY <1>17 DEF HandleException
  <2> QED
    BY <1>17, <2>1, <2>2 DEF HandleException
<1>18. CASE ThreadTestsRegistered
  <2>1. pc' \in [Procs -> InsmodPcs \cup UnbindPcs \cup UnregPcs \cup ThreadPcs \cup RmmodPcs]
    BY <1>18 DEF ThreadTestsRegistered
  <2> QED
    BY <1>18, <2>1, ZenonT(60) DEF ThreadTestsRegistered
<1>19. CASE ThreadCompletes
  BY <1>19 DEF ThreadCompletes, Control, Completion
<1>20. CASE RmmodTestsRegistered
  <2>1. pc' \in [Procs -> InsmodPcs \cup UnbindPcs \cup UnregPcs \cup ThreadPcs \cup RmmodPcs]
    BY <1>20 DEF RmmodTestsRegistered
  <2> QED
    BY <1>20, <2>1, ZenonT(60) DEF RmmodTestsRegistered
<1>21. CASE RmmodWaits
  BY <1>21 DEF RmmodWaits
<1>22. CASE RmmodPuts
  BY <1>22 DEF RmmodPuts
<1>23. CASE StoreFileLocks
  <2>1. op' \in [lun : Luns, at : {"lock", "swap"}]
    BY <1>23 DEF StoreFileLocks
  <2>2. filesem' \in [readers : SUBSET {"thread"}, writer : BOOLEAN]
    BY <1>23 DEF StoreFileLocks
  <2> QED
    BY <1>23, <2>1, <2>2 DEF StoreFileLocks
<1>24. CASE StoreFileEnds
  <2>1. filp' \subseteq Luns
    BY <1>24 DEF StoreFileEnds, Refs
  <2>2. filesem' \in [readers : SUBSET {"thread"}, writer : BOOLEAN]
    BY <1>24 DEF StoreFileEnds
  <2> QED
    BY <1>24, <2>1, <2>2 DEF StoreFileEnds
<1>25. CASE Kill
  BY <1>25 DEF Kill
<1>26. CASE RmmodBegins
  BY <1>26 DEF RmmodBegins
<1>27. ASSUME NEW p \in Procs, StopController(p) PROVE TypeOK'
  <2>1. pc' \in [Procs -> InsmodPcs \cup UnbindPcs \cup UnregPcs \cup ThreadPcs \cup RmmodPcs]
    BY <1>27 DEF StopController, AfterUnregister
  <2>2. unregs' \in 0 .. 2
    BY <1>27 DEF StopController, Control, Token
  <2> QED
    BY <1>27, <2>1, <2>2, ZenonT(60) DEF StopController
<1>28. ASSUME NEW p \in Procs, Disconnect(p) PROVE TypeOK'
  BY <1>28 DEF Disconnect, raise_exception
<1>29. ASSUME NEW p \in Procs, UnbindClear(p) PROVE TypeOK'
  BY <1>29, ZenonT(60) DEF UnbindClear
<1>30. ASSUME NEW p \in Procs, UnbindLun(p) PROVE TypeOK'
  <2>1. pc' \in [Procs -> InsmodPcs \cup UnbindPcs \cup UnregPcs \cup ThreadPcs \cup RmmodPcs]
    BY <1>30 DEF UnbindLun
  <2>2. i' \in [Procs -> 0 .. NLuns]
    BY <1>30 DEF UnbindLun
  <2>3. lundev' \in [Luns -> {"none", "registered", "zombie", "released"}] /\ filp' \subseteq Luns
    BY <1>30, ZenonT(60) DEF UnbindLun
  <2> QED
    BY <1>30, <2>1, <2>2, <2>3 DEF UnbindLun
<1>31. ASSUME NEW p \in Procs, UnbindTest(p) PROVE TypeOK'
  BY <1>31 DEF UnbindTest, raise_exception
<1>32. ASSUME NEW p \in Procs, UnbindWait(p) PROVE TypeOK'
  BY <1>32 DEF UnbindWait
<1>33. ASSUME NEW p \in Procs, UnbindAgain(p) PROVE TypeOK'
  BY <1>33 DEF UnbindAgain, Control, Completion
<1>34. ASSUME NEW p \in Procs, UnbindFree(p) PROVE TypeOK'
  <2>1. pc' \in [Procs -> InsmodPcs \cup UnbindPcs \cup UnregPcs \cup ThreadPcs \cup RmmodPcs]
    BY <1>34 DEF UnbindFree
  <2> QED
    BY <1>34, <2>1, ZenonT(60) DEF UnbindFree
<1>35. ASSUME NEW p \in Procs, Unhook(p) PROVE TypeOK'
  BY <1>35, ZenonT(60) DEF Unhook, AfterUnregister
<1>36. ASSUME NEW l \in Luns, LunRelease(l) PROVE TypeOK'
  BY <1>36 DEF LunRelease
<1>37. ASSUME NEW l \in Luns, StoreFileBegins(l) PROVE TypeOK'
  BY <1>37 DEF StoreFileBegins
<1>38. CASE UNCHANGED vars
  BY <1>38 DEF vars
<1> QED
  BY <1>2, <1>3, <1>4, <1>5, <1>6, <1>7, <1>8, <1>9, <1>10, <1>11, <1>12, <1>13, <1>14, <1>15, <1>16, <1>17, <1>18, <1>19, <1>20, <1>21, <1>22, <1>23, <1>24, <1>25, <1>26, <1>27, <1>28, <1>29, <1>30, <1>31, <1>32, <1>33, <1>34, <1>35, <1>36, <1>37, <1>38
     DEF Next, Insmod, Thread, Rmmod, Unregister, StoreFile, Others

-----------------------------------------------------------------------------
\* The inductive invariant holds in every state: types, control flow and the
\* account of fsg_dev's references.
THEOREM Inductive == Spec => []IInv
<1>1. Init => IInv
  <2> SUFFICES ASSUME Init PROVE IInv
    OBVIOUS
  <2> USE LunsAssumption DEF Init
  <2>1. TypeOK
    <3>1. pc \in [Procs -> InsmodPcs \cup UnbindPcs \cup UnregPcs \cup ThreadPcs \cup RmmodPcs]
      OBVIOUS
    <3>2. filesem \in [readers : SUBSET {"thread"}, writer : BOOLEAN]
      OBVIOUS
    <3>3. i \in [Procs -> 0 .. NLuns]
      OBVIOUS
    <3>4. lundev \in [Luns -> {"none", "registered", "zombie", "released"}]
      OBVIOUS
    <3>5. notifier \in 0 .. 2 /\ refs \in -1 .. NLuns + 1 /\ unregs \in 0 .. 2
      OBVIOUS
    <3> QED
      BY <3>1, <3>2, <3>3, <3>4, <3>5 DEF TypeOK
  <2>2. Control
    BY DEF Control, PcOK, Stages, Token, Completion, Orderly, Buffers
  <2>3. Live = {}
    BY DEF Live
  <2>4. Refs
    BY <2>3, FS_EmptySet DEF Refs, Base, Lost, Luns
  <2> QED
    BY <2>1, <2>2, <2>4 DEF IInv
<1>2. IInv /\ [Next]_vars => IInv'
  BY ControlStep, RefsStep, TypeStep DEF IInv
<1> QED
  BY <1>1, <1>2, PTL DEF Spec

\* fsg_dev, the processes, the LUN devices and the semaphore keep their types.
THEOREM TypeCorrect == Spec => []TypeOK
<1>1. IInv => TypeOK
  BY DEF IInv
<1> QED
  BY <1>1, Inductive, PTL

\* usb_gadget_unregister_driver runs at most once, although rmmod and a killed
\* thread may both want to call it (test_and_clear_bit of REGISTERED).
THEOREM DeregisteredOnce == Spec => []UnregisteredOnce
<1>1. IInv => UnregisteredOnce
  BY DEF IInv, Control, Token, UnregisteredOnce
<1> QED
  BY <1>1, Inductive, PTL

\* The buffers outlive the thread's commands and the interrupts, for any number
\* of LUNs, unless the thread is killed before insmod has returned.
THEOREM BuffersSafe == Spec => []BuffersOutliveUsers
<1>1. IInv => BuffersOutliveUsers
  BY DEF IInv, Control, Buffers, BuffersOutliveUsers
<1> QED
  BY <1>1, Inductive, PTL

\* fsg_dev outlives everybody who is inside the driver, short of the two rare
\* events: the references balance, and the last is dropped last.
THEOREM MemorySafe == Spec => []NoUseAfterFree
<1>1. IInv => NoUseAfterFree
  <2> SUFFICES ASSUME IInv, faulted = {},
                      \/ pc["insmod"] \notin {"alloc", "ok", "failed"}
                      \/ pc["thread"] \notin {"none", "dead"}
                      \/ pc["rmmod"] \notin {"none", "done"}
                      \/ op # NoOp
                      \/ \E l \in Luns : lundev[l] \in {"registered", "zombie"}
               PROVE  refs >= 1
    BY DEF IInv, Refs, NoUseAfterFree
  <2>1. Lost = 0 /\ Base \in {0, 1}
    BY DEF Lost, Base
  <2>2. IsFiniteSet(Live) /\ Cardinality(Live) \in 0 .. NLuns
    <3>1. Live \subseteq Luns
      BY DEF Live
    <3> QED
      BY <3>1, LunsFinite
  <2>3. CASE \/ pc["insmod"] \notin {"alloc", "ok", "failed"}
             \/ pc["thread"] \notin {"none", "dead"}
             \/ pc["rmmod"] \notin {"none", "done"}
    <3>1. Base = 1
      BY <2>3 DEF IInv, TypeOK, Control, PcOK, Stages, Completion, Orderly, Base
    <3> QED
      BY <2>1, <2>2, <3>1, LunsAssumption DEF IInv, Refs
  <2>4. CASE op # NoOp \/ \E l \in Luns : lundev[l] \in {"registered", "zombie"}
    <3>1. Live # {}
      BY <2>4 DEF IInv, Refs, Live
    <3>2. Cardinality(Live) # 0
      BY <2>2, <3>1, FS_EmptySet
    <3> QED
      BY <2>1, <2>2, <3>2, LunsAssumption DEF IInv, Refs
  <2> QED
    BY <2>3, <2>4
<1> QED
  BY <1>1, Inductive, PTL
=============================================================================
