---------------------------- MODULE MCFirmwareSync ----------------------------
(* Boards that differ in what sync asks them (whether an update needs the  *)
(* display, whether the image fits, whether there is a lid mask and the GBB *)
(* clears it), and chips of every severity on two places.                   *)
EXTENDS Auxfw

MCBoards == [slow_update: {FALSE}, fits: {TRUE}, x86: {TRUE}, lid_gbb: BOOLEAN]
            \cup {[slow_update |-> TRUE, fits |-> FALSE, x86 |-> FALSE, lid_gbb |-> FALSE]}
MCChipSets == {<<[update |-> "none", fw |-> "new"], [update |-> "fast", fw |-> "old"]>>,
               <<[update |-> "slow", fw |-> "old"], [update |-> "fast", fw |-> "new"]>>}
===============================================================================
