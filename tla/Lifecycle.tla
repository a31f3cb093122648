----------------------------- MODULE Lifecycle -----------------------------
(***************************************************************************)
(* What one `ttt' command promises, whatever the users, Discord and the    *)
(* two threads of the bot do: it is asked, it may be played, a game that   *)
(* is played may end, and only an ended game leaves ttt_list_g.  No phase  *)
(* is skipped and none is entered twice.                                   *)
(***************************************************************************)
CONSTANT Uid

VARIABLE phase

Phases == {"absent", "asked", "playing", "over", "erased"}

Init == phase = [n \in Uid |-> "absent"]

Advance(n, from, to) ==
  /\ phase[n] = from
  /\ phase' = [phase EXCEPT ![n] = to]

Ask(n)    == Advance(n, "absent", "asked")
Start(n)  == Advance(n, "asked", "playing")
Finish(n) == Advance(n, "playing", "over")
Erase(n)  == Advance(n, "over", "erased")

Next == \E n \in Uid : Ask(n) \/ Start(n) \/ Finish(n) \/ Erase(n)

Spec == Init /\ [][Next]_phase
=============================================================================
