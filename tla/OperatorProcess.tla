---------------------------- MODULE OperatorProcess ----------------------------
(***************************************************************************)
(* The process around ControllerRun: main of examples/configmapsync runs   *)
(* one controller, those of examples/multicontroller and                   *)
(* examples/apiconfigsync join one with a second controller or a webhook   *)
(* server by tokio::try_join!.  The partner is an abstract `run` that may  *)
(* wait for a lease of its own.  Both share the process: its signal, its   *)
(* end, and the tasks that outlive a `run` (the renew task of              *)
(* controller.rs:836).                                                     *)
(***************************************************************************)
EXTENDS ControllerRun

VARIABLES
  exit,           \* how the process has ended
  partner,        \* where the other `run` is
  partnerHandler  \* its shutdown task

joined == <<exit, partner, partnerHandler>>
processVars == <<vars, joined>>

PartnerAlive == {"starting", "waiting", "running"}

ProcessInit ==
  /\ Init
  /\ exit = "no"
  /\ partner \in {"none", "starting"}
  /\ partnerHandler = "none"

-----------------------------------------------------------------------------
(***************************************************************************)
(* The partner.                                                            *)
(***************************************************************************)
\* A port is in use.
PartnerFails ==
  /\ partner = "starting"
  /\ partner' = "failed"
  /\ UNCHANGED <<vars, exit, partnerHandler>>

\* Its ports are bound and its shutdown task is spawned; a controller waits for its
\* lease.
PartnerLaunches ==
  /\ partner = "starting"
  /\ partner' \in {"waiting", "running"}
  /\ partnerHandler' = "spawned"
  /\ UNCHANGED <<vars, exit>>

PartnerAcquires ==
  /\ partner = "waiting"
  /\ partner' = "running"
  /\ UNCHANGED <<vars, exit, partnerHandler>>

PartnerInstalls ==
  /\ exit = "no"
  /\ partnerHandler = "spawned"
  /\ partnerHandler' = "installed"
  /\ UNCHANGED <<vars, exit, partner>>

PartnerIsTold ==
  /\ exit = "no"
  /\ partnerHandler = "notified"
  /\ partnerHandler' = "fired"
  /\ UNCHANGED <<vars, exit, partner>>

PartnerStops ==
  /\ partner = "running" /\ partnerHandler = "fired"
  /\ partner' = "returned"
  /\ UNCHANGED <<vars, exit, partnerHandler>>

\* It loses its lease.
PartnerLosesLease ==
  /\ partner = "running"
  /\ partner' = "returned"
  /\ UNCHANGED <<vars, exit, partnerHandler>>

PartnerStep ==
  \/ PartnerFails \/ PartnerLaunches \/ PartnerAcquires \/ PartnerInstalls
  \/ PartnerIsTold \/ PartnerStops \/ PartnerLosesLease

-----------------------------------------------------------------------------
(***************************************************************************)
(* The process.                                                            *)
(***************************************************************************)
\* A signal reaches every handler that is installed, and kills the process if none
\* is: the handler of either `run` keeps the other one alive.
ProcessSignal ==
  /\ Signal("installed" \in {handler, partnerHandler})
  /\ exit' = IF main' = "killed" THEN "killed" ELSE exit
  /\ partnerHandler' = IF partnerHandler = "installed" THEN "notified" ELSE partnerHandler
  /\ partner' = IF main' = "killed" /\ partner \in PartnerAlive THEN "dropped" ELSE partner

\* The process ends with everything in it: what `run` has spawned, and a `run` that
\* is not at its end.
Exit(how) ==
  /\ exit = "no"
  /\ exit' = how
  /\ main' = "gone"
  /\ partner' = IF partner \in PartnerAlive THEN "dropped" ELSE partner
  /\ renewing' = FALSE
  /\ DropWork
  /\ UNCHANGED <<handler, signal, stop, ready, version, partnerHandler>>

\* try_join! has both results: main returns.
ExitOk ==
  /\ main = "returned" /\ partner \in {"none", "returned"}
  /\ Exit("ok")

\* Mutant of ExitErr: join! waits for the other one, whatever the first returns.
ExitErrOfBoth ==
  /\ "failed" \in {main, partner}
  /\ main \notin Alive /\ partner \notin PartnerAlive
  /\ Exit("err")

\* One returns an error: try_join! drops the other one, wherever it is.
ExitErr ==
  /\ "failed" \in {main, partner}
  /\ Exit("err")

ProcessNext ==
  /\ exit = "no"
  /\ \/ ControllerStep /\ UNCHANGED joined
     \/ PartnerStep \/ ProcessSignal \/ ExitOk \/ ExitErr

ProcessFairness ==
  /\ Fairness
  /\ WF_processVars(PartnerInstalls) /\ WF_processVars(PartnerIsTold)
  /\ WF_processVars(PartnerStops) /\ WF_processVars(ExitOk) /\ WF_processVars(ExitErr)

ProcessSpec == ProcessInit /\ [][ProcessNext]_processVars /\ ProcessFairness

-----------------------------------------------------------------------------
(***************************************************************************)
(* Properties.                                                             *)
(***************************************************************************)
\* The variables keep their types; a process that has ended has nothing alive.
ProcessTypeOK ==
  /\ TypeOK
  /\ exit \in {"no", "ok", "err", "killed"}
  /\ partner \in PartnerAlive \cup {"none", "failed", "returned", "dropped"}
  /\ partnerHandler \in {"none", "spawned", "installed", "notified", "fired"}
  /\ exit # "no" => main \in {"gone", "killed"} /\ partner \notin PartnerAlive /\ ~renewing

\* What the stop channel is told ends a running loop, be it the signal or the loss
\* of the lease (controller.rs:564, "Stop the controller loop cleanly"); a signal
\* that reaches both while they run ends the process, and so does the failure of
\* either, wherever the other one is (apiconfigsync/main.rs:71, "the other is
\* cancelled and the process exits").
EndsWhenTold ==
  /\ []<>(Running => handler \notin {"notified", "fired"} /\ (UseLease => renewing))
  /\ \/ "failed" \in {main, partner}
     \/ /\ Running /\ handler = "notified"
        /\ partner = "none" \/ (partner = "running" /\ partnerHandler = "notified")
     ~> exit # "no"
=============================================================================
