---------------------------- MODULE MCFsgPipeline ----------------------------
(* Commands for the model checker: every kind, with the host expecting as much   *)
(* data as the command moves, less, more, none, or the other direction.          *)
EXTENDS FsgPipeline

Cbw(op, lba, n, dir, size) ==
    [form |-> "ok", op |-> op, lba |-> lba, n |-> n, dir |-> dir, size |-> size]

\* Whole and partial blocks, unaligned to a page, past the end of the file.
Transfers ==
    {Cbw(op, l[1], l[2], d[1], d[2]) :
        op \in {"read", "write"},
        l \in {<<0, 2>>, <<1, 4>>, <<3, 3>>},
        d \in {<<"in", 4>>, <<"out", 4>>, <<"in", 8>>, <<"out", 8>>,
               <<"in", 3>>, <<"out", 3>>, <<"none", 0>>}}

Others ==
    {Cbw("reply", 0, 2, "in", 3), Cbw("reply", 0, 2, "in", 2), Cbw("reply", 0, 2, "in", 1),
     Cbw("select", 0, 1, "out", 1), Cbw("select", 0, 2, "in", 2),
     Cbw("other", 0, 0, "none", 0), Cbw("other", 0, 0, "out", 4),
     Cbw("verify", 0, 1, "in", 2), Cbw("verify", 3, 3, "in", 2),
     Cbw("read", 5, 1, "in", 2), Cbw("write", 5, 1, "out", 2)}

Malformed == {[Cbw("other", 0, 0, "none", 0) EXCEPT !.form = f] : f \in {"bad", "odd"}}

MCCbws == Transfers \cup Others \cup Malformed
=============================================================================
