---------------------------- MODULE MCWatchdogRuntime ----------------------------
(***************************************************************************)
(* The three tasks with short intervals: two that are faster while the dog *)
(* is awake, and one that is as slow as before.                            *)
(***************************************************************************)
EXTENDS WatchdogRuntime

MCTasks == {"dog-snooze-check", "tree-audit", "wake"}
MCRank ==
  [t \in MCTasks |-> CASE t = "dog-snooze-check" -> 1 [] t = "tree-audit" -> 2 [] OTHER -> 3]

Cadence(snooze, awaken) == [m \in Modes |-> IF m = "SNOOZE" THEN snooze ELSE awaken]
MCInterval ==
  [t \in MCTasks |-> CASE t = "dog-snooze-check" -> Cadence(2, 1)
                       [] t = "tree-audit" -> Cadence(3, 3)
                       [] OTHER -> Cadence(2, 1)]
MCPhase ==
  [t \in MCTasks |-> CASE t = "dog-snooze-check" -> Cadence(1, 0)
                       [] t = "tree-audit" -> Cadence(2, 2)
                       [] OTHER -> Cadence(0, 0)]
==================================================================================
