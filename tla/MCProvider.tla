------------------------------ MODULE MCProvider ------------------------------
(***************************************************************************)
(* Instances of ProviderLaunch for TLC.  What cuts a launch or a            *)
(* transaction short happens at most MaxTroubles times.                     *)
(***************************************************************************)
EXTENDS ProviderProperties, Naturals, TLC

CONSTANTS l1, l2, claude, codex, MaxTroubles

VARIABLE troubles

OneEach == l1 :> claude @@ l2 :> codex

\* a launch changes places together with its plane
Swaps == {f \in Permutations(Launches \cup Providers) :
             \A l \in Launches : f[l] \in Launches /\ f[PlaneOf[l]] = PlaneOf[f[l]]}

\* Of a launch that is over nothing is read any more but whether its capability is
\* still active; and the frames of one that is finished are not read.
Over(l) == launcher[l] = "gone" /\ unit[l] = "absent" /\ l \notin live
           /\ term[l] = "none" /\ sawUnit[l] = "none"
Compared ==
    <<[l \in Launches |->
          IF Over(l) THEN <<cap[l] = "active">>
          ELSE <<launcher[l], record[l], unit[l], l \in ran, l \in tombs, cap[l], term[l],
                 sawUnit[l], sawRecord[l],
                 IF l \in live THEN <<told[l], l \in attempted, l \in inspected>> ELSE <<>> >>],
      glock, fileVars, superVars, rootVars, troubles>>

MCInit == ProviderInit /\ troubles = 0
MCNext == \/ Course /\ UNCHANGED troubles
          \/ troubles < MaxTroubles /\ Trouble /\ troubles' = troubles + 1
MCSpec == MCInit /\ [][MCNext]_<<vars, troubles>>
=============================================================================
