---------------------------- MODULE FactoryReset ----------------------------
(***************************************************************************)
(* Settings live in /etc, on the root partition.  A reset to the factory   *)
(* defaults, and an upgrade of the firmware, put files into a directory of *)
(* the userdata partition, default_bk or recover; the next boot copies     *)
(* them to /etc and removes the directory (br_default.sh, br_recover,      *)
(* advanced-upgrade.sh).  The scripts copy and remove one file after the   *)
(* other, the power may fail at any moment, and both partitions (JFFS2 on  *)
(* NAND) keep what was written last in a buffer of their own for a while.  *)
(***************************************************************************)
EXTENDS Integers

CONSTANTS Confs,                        \* the files of /etc/config
          MaxCuts, MaxAsks, MaxEdits    \* bounds: power cuts, resets and upgrades, edits

ASSUME FactoryResetAssumption ==
    /\ "passwd" \notin Confs /\ "none" \notin Confs
    /\ {MaxCuts, MaxAsks, MaxEdits} \subseteq Nat

VARIABLES
    defaults,   \* which defaults there are on the partitions data and userdata
    ram,        \* the directories as running programs see them
    flash,      \* the directories as they are on the flash
    script,     \* the script that runs, "none" when the system is up and none does
    at,         \* the command it is at
    left, busy, \* the files cp has still to copy, and the one it has emptied
    expect,     \* auxiliary: what /etc is to hold at the end of the next boot
    mishaps,    \* auxiliary: what may have spoilt it
    n           \* how many of the bounded events there were

disk == <<ram, flash>>
cp   == <<left, busy>>
vars == <<defaults, disk, script, at, cp, expect, mishaps, n>>

Parts    == Confs \cup {"passwd"}
Versions == {"none", "torn", "user", "new", "factory"}
Dirs     == {"etc", "recover", "default_bk"}
UserData == {"recover", "default_bk"}

Resets   == {"lcd", "web"}          \* br_default.sh, from the keys and from the web page
Upgrades == {"keep", "nokeep"}      \* the upgrade page, with nokeepconfig or without

Up       == script = "none"
Booting  == script \in UserData     \* br_recover, at the directory of that name
Building == script \in Resets \cup Upgrades

All(v) == [p \in Parts |-> v]
Absent == [there |-> FALSE, config |-> FALSE, f |-> All("none")]
Etc    == [there |-> TRUE, config |-> TRUE, f |-> All("user")]

Dir == [there : BOOLEAN, config : BOOLEAN, f : [Parts -> Versions]]

TypeOK ==
    /\ defaults \in [{"data", "userdata"} -> SUBSET {"config", "passwd"}]
    /\ ram \in [Dirs -> Dir] /\ flash \in [Dirs -> Dir]
    /\ \/ Up /\ at = "idle"
       \/ Booting /\ at \in {"look", "copy", "remove"}
       \/ script \in Resets /\ at \in {"mkdir", "config", "copy", "answer", "fail", "reboot"}
       \/ script \in Upgrades /\ at \in {"mkdir", "config", "copy", "sync", "upgrade"}
    /\ left \subseteq Parts /\ busy \in Parts \cup {"none"}
    /\ at # "copy" => left = {} /\ busy = "none"
    /\ expect \in [Parts -> Versions]
    /\ mishaps \subseteq {"cut", "unflushed", "upgrade"}
    /\ n \in [cuts : 0 .. MaxCuts, asks : 0 .. MaxAsks, edits : 0 .. MaxEdits]

\* The scripts look for the password file on both partitions and make the same
\* of it, and of a config on both as of one on data: a single copy will do.
Init ==
    /\ defaults \in [data : SUBSET {"config", "passwd"}, userdata : SUBSET {"config"}]
    /\ defaults.data \cap defaults.userdata = {}
    /\ ram = [d \in Dirs |-> IF d = "etc" THEN Etc ELSE Absent] /\ flash = ram
    /\ script = "none" /\ at = "idle" /\ left = {} /\ busy = "none"
    /\ expect = All("user") /\ mishaps = {}
    /\ n = [cuts |-> 0, asks |-> 0, edits |-> 0]

-----------------------------------------------------------------------------
(* Copying: cp -r of a config directory, then cp of the password file.     *)

\* Where a default file is, on either partition.
Somewhere(what) == \E place \in DOMAIN defaults : what \in defaults[place]

\* The four cases of br_default.sh: each file from either partition.
Found == Somewhere("config") /\ Somewhere("passwd")

\* The version the running script copies.  Without a default password file the
\* upgrade page says so and goes on; it takes a config from data alone.
Source(p) ==
    CASE script \in UserData -> ram[script].f[p]
      [] script \in Resets   -> "factory"
      [] script = "keep"     -> ram["etc"].f[p]
      [] script = "nokeep" /\ p = "passwd" -> IF Somewhere("passwd") THEN "factory" ELSE "none"
      [] OTHER               -> IF "config" \in defaults["data"] THEN "factory" ELSE "none"

Target == IF Booting THEN "etc" ELSE IF script \in Resets THEN "default_bk" ELSE "recover"

\* There is nothing to copy of a missing file.
Sources == {p \in Parts : Source(p) # "none"}

\* cp empties the file, then fills it.
CpOpen(p) ==
    /\ at = "copy" /\ busy = "none" /\ p \in left
    /\ p = "passwd" => left = {"passwd"}
    /\ ram' = [ram EXCEPT ![Target].f[p] = "torn"]
    /\ busy' = p /\ left' = left \ {p}
    /\ UNCHANGED <<defaults, flash, script, at, expect, mishaps, n>>

CpWrite ==
    /\ at = "copy" /\ busy # "none"
    /\ ram' = [ram EXCEPT ![Target].f[busy] = Source(busy)]
    /\ busy' = "none"
    /\ UNCHANGED <<defaults, flash, script, at, left, expect, mishaps, n>>

CpEnds ==
    /\ at = "copy" /\ left = {} /\ busy = "none"
    /\ at' = IF Booting THEN "remove" ELSE IF script \in Resets THEN "answer" ELSE "sync"
    /\ UNCHANGED <<defaults, disk, script, cp, expect, mishaps, n>>

-----------------------------------------------------------------------------
(* br_recover, when the system boots.                                      *)

\* Mutant: the directories are taken in the opposite order.
br_recover_Swapped == <<"default_bk", "recover">>

\* The directories, in the order br_recover takes them.
br_recover == <<"recover", "default_bk">>

\* Done with a directory.
NextDir ==
    IF script = br_recover[1] THEN script' = br_recover[2] /\ at' = "look"
    ELSE script' = "none" /\ at' = "idle"

\* Mutant: what is looked for is the directory's config.
Look_Config ==
    /\ at = "look"
    /\ IF ram[script].there
       THEN IF ram[script].config
            THEN at' = "copy" /\ left' = Sources /\ UNCHANGED script
            ELSE at' = "remove" /\ UNCHANGED <<script, left>>
       ELSE NextDir /\ UNCHANGED left
    /\ UNCHANGED <<defaults, disk, busy, expect, mishaps, n>>

\* [ -d ... ]
Look ==
    /\ at = "look"
    /\ IF ram[script].there THEN at' = "copy" /\ left' = Sources /\ UNCHANGED script
       ELSE NextDir /\ UNCHANGED left
    /\ UNCHANGED <<defaults, disk, busy, expect, mishaps, n>>

\* rm -rf: the files in any order, a directory once it is empty.
Unlink(p) ==
    /\ at = "remove" /\ ram[script].f[p] # "none"
    /\ ram' = [ram EXCEPT ![script].f[p] = "none"]
    /\ UNCHANGED <<defaults, flash, script, at, cp, expect, mishaps, n>>

RmConfig ==
    /\ at = "remove" /\ ram[script].config /\ \A p \in Confs : ram[script].f[p] = "none"
    /\ ram' = [ram EXCEPT ![script].config = FALSE]
    /\ UNCHANGED <<defaults, flash, script, at, cp, expect, mishaps, n>>

RmDir ==
    /\ at = "remove" /\ ~ram[script].config /\ \A p \in Parts : ram[script].f[p] = "none"
    /\ ram' = [ram EXCEPT ![script].there = FALSE]
    /\ NextDir
    /\ UNCHANGED <<defaults, flash, cp, expect, mishaps, n>>

\* The system starts.
Restart(dirs) ==
    /\ flash' = dirs /\ ram' = dirs
    /\ script' = br_recover[1] /\ at' = "look" /\ left' = {} /\ busy' = "none"

-----------------------------------------------------------------------------
(* Building default_bk or recover.                                         *)

Run(s) ==
    /\ Up /\ n.asks < MaxAsks
    /\ script' = s /\ at' = "mkdir"
    /\ n' = [n EXCEPT !.asks = @ + 1]
    /\ UNCHANGED <<defaults, disk, cp, expect, mishaps>>

\* Both keys are held for ten seconds (Timer_handle), or the web page is asked.
LcdReset   == Run("lcd")
WebReset   == Run("web")
WebUpgrade == \E s \in Upgrades : Run(s)

MkDir ==
    /\ at = "mkdir"
    /\ ram' = [ram EXCEPT ![Target].there = TRUE]
    /\ at' = IF script \in Resets /\ ~Found THEN "fail" ELSE "config"
    /\ UNCHANGED <<defaults, flash, script, cp, expect, mishaps, n>>

\* A second cp -r to default_bk/config puts the files into a directory below it
\* and leaves those that are there alone.
MkConfig ==
    /\ at = "config" /\ at' = "copy"
    /\ ram' = [ram EXCEPT ![Target].config = TRUE]
    /\ left' = IF script \in Resets /\ ram["default_bk"].config THEN {"passwd"} ELSE Sources
    /\ UNCHANGED <<defaults, flash, script, busy, expect, mishaps, n>>

\* br_default.sh ends; the reset is promised with "0".  Timer_handle restarts the
\* system whatever the script says, the page asks the browser to.
Answer ==
    /\ at \in {"answer", "fail"}
    /\ IF script = "lcd" THEN at' = "reboot" /\ UNCHANGED script
       ELSE at' = "idle" /\ script' = "none"
    /\ expect' = IF at = "answer" THEN All("factory") ELSE expect
    /\ mishaps' = IF at = "answer" THEN {} ELSE mishaps
    /\ UNCHANGED <<defaults, disk, cp, n>>

\* The system is restarted in an orderly way: reboot syncs.
Reboot ==
    /\ Up \/ at = "reboot"
    /\ Restart(ram)
    /\ UNCHANGED <<defaults, expect, mishaps, n>>

Sync ==
    /\ at = "sync" /\ at' = "upgrade"
    /\ flash' = ram
    /\ UNCHANGED <<defaults, ram, script, cp, expect, mishaps, n>>

\* The firmware is replaced, /etc with it, and the system restarted.  If the
\* file is not a firmware nothing happens, and recover stays where it is.
UpgradeEnds ==
    /\ at = "upgrade"
    /\ \/ /\ Restart([ram EXCEPT !["etc"].f = All("factory")])
          /\ expect' = IF script = "keep" THEN expect ELSE All("factory")
          /\ UNCHANGED mishaps
       \/ /\ script' = "none" /\ at' = "idle"
          /\ mishaps' = mishaps \cup {"upgrade"}
          /\ UNCHANGED <<disk, cp, expect>>
    /\ UNCHANGED <<defaults, n>>

-----------------------------------------------------------------------------
(* The user, the flash and the power.                                      *)

\* The user changes a setting.  The buffers have been written out since the boot:
\* the web pages come up long after br_recover.
UserEdits(p) ==
    /\ Up /\ ram = flash /\ n.edits < MaxEdits
    /\ ram' = [ram EXCEPT !["etc"].f[p] = "new"]
    /\ expect' = IF ram["default_bk"].f[p] = "none" THEN [expect EXCEPT ![p] = "new"] ELSE expect
    /\ n' = [n EXCEPT !.edits = @ + 1]
    /\ UNCHANGED <<defaults, flash, script, at, cp, mishaps>>

\* A partition's buffer is written to the flash: it is full, or five seconds old.
Flush ==
    /\ \E ds \in {{"etc"}, UserData} :
          /\ \E d \in ds : flash[d] # ram[d]
          /\ flash' = [d \in Dirs |-> IF d \in ds THEN ram[d] ELSE flash[d]]
    /\ UNCHANGED <<defaults, ram, script, at, cp, expect, mishaps, n>>

\* What only a buffer holds: a file of /etc of which there is no copy left to
\* make it from, or a reset that was promised.
InBufferOnly ==
    \/ \E p \in Parts : flash["etc"].f[p] # ram["etc"].f[p]
                        /\ \A d \in UserData : flash[d].f[p] = "none"
    \/ Up /\ ram["default_bk"].there /\ flash["default_bk"] # ram["default_bk"]

PowerCut ==
    /\ n.cuts < MaxCuts
    /\ Restart(flash)
    /\ mishaps' = mishaps \cup (IF Building THEN {"cut"} ELSE {})
                           \cup (IF InBufferOnly THEN {"unflushed"} ELSE {})
    /\ n' = [n EXCEPT !.cuts = @ + 1]
    /\ UNCHANGED <<defaults, expect>>

Next ==
    \/ LcdReset \/ WebReset \/ WebUpgrade
    \/ (\E p \in Parts : CpOpen(p)) \/ CpWrite \/ CpEnds
    \/ Look \/ (\E p \in Parts : Unlink(p)) \/ RmConfig \/ RmDir
    \/ MkDir \/ MkConfig \/ Answer \/ Reboot \/ Sync \/ UpgradeEnds
    \/ (\E p \in Parts : UserEdits(p)) \/ Flush \/ PowerCut

Spec == Init /\ [][Next]_vars

-----------------------------------------------------------------------------
(* Properties.                                                             *)

\* Once a boot is over, /etc holds exactly what it should: the defaults after a
\* reset that was promised, the user's settings after an upgrade that was to keep
\* them, and otherwise what the user set last, however often the power failed
\* while br_recover was copying or removing files.  Three things are known to
\* spoil it until the next reset: a power cut while the directory is being made
\* or while only a buffer holds the files, and an upgrade that did not happen.
BootRestores ==
    (Up /\ mishaps = {} /\ \A d \in UserData : ~ram[d].there) => ram["etc"].f = expect

\* Short of those power cuts, no boot leaves a setting missing or half written.
WholeFiles ==
    (Up /\ mishaps \subseteq {"upgrade"} /\ ~ram["default_bk"].there) =>
        \A p \in Parts : ram["etc"].f[p] \notin {"torn", "none"}
=============================================================================
