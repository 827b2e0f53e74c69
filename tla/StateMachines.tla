----------------------------- MODULE StateMachines -----------------------------
(***************************************************************************)
(* The registry of protocol/state-machines.yaml and the three questions    *)
(* src/src/tb4/core/state_machine.py answers from it: may this actor make  *)
(* this transition, may it replace the body in this state, is the state    *)
(* terminal.  A machine is a set of edges <<from, to, actor>> and a        *)
(* function from states to the roles that may write the body there.        *)
(***************************************************************************)
EXTENDS FiniteSets

Coach == "COACH"
Fetcher == "FETCHER"
Watchdog == "WATCHDOG"
Runner == "RUNNER"
Role == {Coach, Fetcher, Watchdog, Runner}

Objects == {"FETCH_BALL", "WAKE_BONE", "STOP_BALL", "WATCHDOG_MODE",
            "WATCHDOG_FAULT", "TARGET_LEASH"}

(* The states in which a FETCHER, or COACH's recycling, finds a judged job. *)
ResultStates == {"DONE", "PARTIAL", "FAILED", "CANCELLED"}

(* Reserving, publishing, abandoning and clearing a channel: the same edges *)
(* on all three request channels; only the published state is named apart.  *)
CoachEdges(published, terminal) ==
  {<<"READY", "LOADING", Coach>>, <<"LOADING", published, Coach>>,
   <<"LOADING", "RECYCLING", Coach>>, <<"RECYCLING", "READY", Coach>>}
    \cup {<<t, "RECYCLING", Coach>> : t \in terminal}

Terminal(object) ==
  CASE object = "FETCH_BALL" -> ResultStates \cup {"GONE"}
    [] object = "WAKE_BONE" -> {"DONE", "FAILED"}
    [] object = "STOP_BALL" -> {"ACKNOWLEDGED"}
    [] OTHER -> {}

Edges(object) ==
  CASE object = "FETCH_BALL" ->
         CoachEdges("TOSS", Terminal("FETCH_BALL"))
           \cup {<<"TOSS", "CHEW", Fetcher>>, <<"TOSS", "RETURNING", Watchdog>>,
                 <<"CHEW", "RETURNING", Fetcher>>, <<"CHEW", "GONE", Watchdog>>,
                 <<"RETURNING", "FAILED", Watchdog>>}
           \cup {<<"RETURNING", t, Fetcher>> : t \in ResultStates}
    [] object = "WAKE_BONE" ->
         CoachEdges("TOSS", Terminal("WAKE_BONE"))
           \cup {<<"TOSS", "CHEW", Watchdog>>, <<"TOSS", "FAILED", Watchdog>>,
                 <<"CHEW", "DONE", Watchdog>>, <<"CHEW", "FAILED", Watchdog>>}
    [] object = "STOP_BALL" ->
         CoachEdges("REQUESTED", Terminal("STOP_BALL"))
           \cup {<<"REQUESTED", "RETURNING", Fetcher>>,
                 <<"REQUESTED", "RECYCLING", Coach>>,
                 <<"RETURNING", "ACKNOWLEDGED", Fetcher>>}
    [] object = "WATCHDOG_MODE" ->
         {<<"SNOOZE", "AWAKE", Watchdog>>, <<"AWAKE", "SNOOZE", Watchdog>>}
    [] object = "WATCHDOG_FAULT" ->
         {<<"CLEAN", "BLOCKING", Watchdog>>, <<"BLOCKING", "REVIEWED", Coach>>,
          <<"REVIEWED", "BLOCKING", Watchdog>>, <<"REVIEWED", "CLEAN", Watchdog>>}
    [] object = "TARGET_LEASH" ->
         {"CLEAR"} \X {"TANGLED"} \X {Watchdog, Fetcher}
           \cup {"TANGLED"} \X {"CLEAR"} \X {Watchdog, Fetcher}

States(object) == {e[1] : e \in Edges(object)} \cup {e[2] : e \in Edges(object)}

(* body_writers of each state. *)
BodyWriters(object, state) ==
  CASE object \in {"FETCH_BALL", "WAKE_BONE", "STOP_BALL"}
         /\ state \in {"LOADING", "RECYCLING"} -> {Coach}
    [] object = "FETCH_BALL" /\ state = "CHEW" -> {Fetcher}
    [] object = "FETCH_BALL" /\ state = "RETURNING" -> {Fetcher, Watchdog}
    [] object = "FETCH_BALL" /\ state = "GONE" -> {Watchdog}
    [] object = "WAKE_BONE" /\ state \in {"CHEW", "FAILED"} -> {Watchdog}
    [] object = "STOP_BALL" /\ state = "RETURNING" -> {Fetcher}
    [] object = "WATCHDOG_MODE" -> {Watchdog}
    [] object = "WATCHDOG_FAULT" /\ state \in {"CLEAN", "BLOCKING"} -> {Watchdog}
    [] object = "WATCHDOG_FAULT" /\ state = "REVIEWED" -> {Coach}
    [] object = "TARGET_LEASH" -> {Watchdog, Fetcher}
    [] OTHER -> {}

(* StateMachineRegistry.validate_transition, in the order of its checks.     *)
ValidateTransition(object, current, target, actor) ==
  CASE \/ object \notin Objects
       \/ {current, target} \ States(object) # {}
       \/ actor \notin Role -> "ILLEGAL"
    [] current = target -> "IDEMPOTENT"
    [] <<current, target, actor>> \in Edges(object) -> "LEGAL"
    [] OTHER -> "ILLEGAL"

CanWriteBody(object, state, actor) == actor \in BodyWriters(object, state)
================================================================================
