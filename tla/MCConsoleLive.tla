--------------------------- MODULE MCConsoleLive ----------------------------
(***************************************************************************)
(* What the parts of the console eventually do, on smaller instances.      *)
(***************************************************************************)
EXTENDS MCConsoleWork, MCConsolePlans

LiveScenes == {"session", "live", "agents", "runs", "now", "points", "repositories", "policies",
               "contract", "notify"}

LiveStart ==
    /\ scene \in LiveScenes /\ WorkInit /\ PlansInit
    /\ mayExecute = TRUE /\ runs[1].state = "succeeded" /\ srv.lastDrill = "old"

ConsoleFairSpec ==
    /\ LiveStart
    /\ [][WorkNext /\ PlansNext]_<<scene, workVars, plansVars>>
    /\ WorkFairness /\ PlansFairness

-----------------------------------------------------------------------------
\* The page follows the session: one whose session has ended leads to the login
\* page, and a user with a session comes to see a page, even when an answer to an
\* older request of me arrives after they signed in (useMe; the route guards);
\* both unless me could not be read at all.
SessionIsFollowed == ExpiredLeadsToLogin /\ SignedInArrives

\* Every restore and every backup that was started ends, in the mock API's
\* advance loops (mock-restore.mjs, mock-protection.mjs).
StartedWorkEnds == EveryRestoreEnds /\ EveryBackupEnds

\* An event stream that broke reopens, and every page that polls or is invalidated
\* by its own writes comes to show what the API has: lists, a host, the end of a
\* restore, alerts, a platform backup, a policy and its card, a contract, the
\* notification channels.
PagesSettle ==
    /\ StreamReopens /\ PolledViewSettles /\ HostPageSettles /\ PageShowsTheEnd
    /\ AlertsSettle /\ PlatformRunIsSeen /\ CardSettles /\ DetailSettles
    /\ ContractSettles /\ ChannelsSettle
=============================================================================
