----------------------------- MODULE MCRecovery -----------------------------
(***************************************************************************)
(* Recovery with a key or two, and a few boots, releases and calls.        *)
(***************************************************************************)
EXTENDS Recovery

CONSTANTS k, r

Calm == [boots |-> 0, releases |-> 0, keyOps |-> 0, clipOps |-> 0, resets |-> 0,
         timeouts |-> 0, keys |-> {}]

\* One key through a boot, a release or a detach, a reset and a silent query.
Holding == [Calm EXCEPT !.keys = {k}, !.boots = 1, !.releases = 1, !.keyOps = 2,
                        !.resets = 1, !.timeouts = 1]

\* Two boots, a lock and a rule every tick sends again.
Booting == [Calm EXCEPT !.keys = {k, r}, !.boots = 2, !.keyOps = 2, !.timeouts = 1]

\* A clip through a boot, a release or a detach, played, cleared and appended again.
Clipping == [Calm EXCEPT !.boots = 1, !.releases = 1, !.clipOps = 2]

\* A clip through two releases or detaches, a reset and a silent query.
Resetting == [Calm EXCEPT !.releases = 2, !.clipOps = 1, !.resets = 1, !.timeouts = 1]

MCBudgets == {Holding, Booting, Clipping, Resetting}

\* A tick reads the ring while a recovery waits for the clone.
TickingBudgets == {[Calm EXCEPT !.releases = 1, !.clipOps = 1]}
=============================================================================
