---------------------------- MODULE MCFsgMedium ----------------------------
(* Commands for the model checker: every operation for both LUNs, and what    *)
(* goes wrong before or in the middle of check_command.                       *)
EXTENDS FsgMedium, TLC

Cmd(op, l, form) == [op |-> op, lun |-> l, form |-> form]

MCCommands ==
    {Cmd(op, l, "ok") : op \in Ops, l \in Luns}
    \cup {Cmd("INQUIRY", NLuns, "ok"), Cmd("REQUEST_SENSE", NLuns, "ok"), Cmd("READ", NLuns, "ok"),
          Cmd("WRITE", 0, "length"), Cmd("READ", 0, "field"), Cmd("REQUEST_SENSE", 0, "field")}

Symmetry == Permutations(Writers)

Writes == {Cmd("WRITE", l, "ok") : l \in Luns}
=============================================================================
