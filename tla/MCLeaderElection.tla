-------------------------- MODULE MCLeaderElection --------------------------
(* Small instances of LeaderElection for TLC. *)
EXTENDS LeaderElection, TLC

CONSTANTS r1, r2

Two == {r1, r2}

OneSecond == [r \in Two |-> 1]

\* A rolling upgrade to a longer lease, with clocks one second apart: the
\* shortest durations that TimingsSafe allows for such clocks, and one more.
MixedDuration == (r1 :> 4) @@ (r2 :> 5)
SkewedClock == (r1 :> 0) @@ (r2 :> 1)

\* The ratio of the defaults of leader_election, 15 s : 5 s : 2 s.
DefaultDuration == [r \in Two |-> 6]
DefaultRenew == [r \in Two |-> 2]
SameClock == [r \in Two |-> 0]
=============================================================================
