----------------------------- MODULE TierLadder -----------------------------
(***************************************************************************)
(* What docs/tiering-and-retention.md and ARCHITECTURE.md promise of a     *)
(* memory's tier, with no clock, policy or batch: clients put a memory in  *)
(* any tier and may delete it; the lifecycle moves it one rung at a time   *)
(* and says which way in the event it records; only an archived memory is  *)
(* deleted by the lifecycle; a deleted memory stays deleted.               *)
(***************************************************************************)
CONSTANT Memories

VARIABLES
  rung,   \* the memory's tier, "unsaved" or "deleted"
  cause   \* the type of the newest event recorded for it

Tiers == {"working", "hot", "warm", "cold", "archive"}
Rungs == Tiers \cup {"unsaved", "deleted"}
Causes ==
  {"none", "created", "updated", "pinned", "deleted", "lifecycle_promoted",
   "lifecycle_demoted", "lifecycle_archived", "lifecycle_deleted"}

Init ==
  /\ rung = [m \in Memories |-> "unsaved"]
  /\ cause = [m \in Memories |-> "none"]

(* <<rung before, rung after, event>> of every move the lifecycle makes.   *)
LifecycleMoves ==
  {<<"working", "hot", "lifecycle_demoted">>, <<"hot", "warm", "lifecycle_demoted">>,
   <<"warm", "cold", "lifecycle_demoted">>, <<"cold", "archive", "lifecycle_archived">>,
   <<"archive", "deleted", "lifecycle_deleted">>,
   <<"archive", "cold", "lifecycle_promoted">>, <<"cold", "warm", "lifecycle_promoted">>,
   <<"warm", "hot", "lifecycle_promoted">>}

ClientMoves ==
  ({"unsaved"} \X Tiers \X {"created"}) \cup (Tiers \X Tiers \X {"updated"})
    \cup (Tiers \X {"deleted"} \X {"deleted"}) \cup {<<t, t, "pinned">> : t \in Tiers}

Moves(m, moves) == <<rung[m], rung'[m], cause'[m]>> \in moves
Stays(m)        == rung'[m] = rung[m] /\ cause'[m] = cause[m]

(* One client operation on one memory.                                     *)
Client(m) ==
  /\ Moves(m, ClientMoves)
  /\ \A n \in Memories \ {m} : Stays(n)

(* One run, or one promotion on access: any number of memories each move   *)
(* one rung.                                                               *)
Lifecycle == \A m \in Memories : Stays(m) \/ Moves(m, LifecycleMoves)

Next ==
  /\ rung' \in [Memories -> Rungs]
  /\ cause' \in [Memories -> Causes]
  /\ Lifecycle \/ \E m \in Memories : Client(m)

Spec == Init /\ [][Next]_<<rung, cause>>

=============================================================================
