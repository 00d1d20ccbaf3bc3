-------------------------- MODULE BackendLifecycle --------------------------
(***************************************************************************)
(* What the drone promises about the state column of the backend table: a  *)
(* row is created in Loading and then only moves along the edges below.    *)
(* If writing a state may fail, the row may miss states in between.        *)
(***************************************************************************)
EXTENDS BackendState

CONSTANTS Backend,
          Skips       \* may the row miss a state?

VARIABLE state        \* [Backend -> BackendStates or NoState]

\* The states run_backend can move to from s.  A terminal state is final but
\* for one case: a termination request that arrives while the container is
\* being stopped.  Swept does not listen for requests.
Successor(s) ==
    CASE s = "Loading"  -> {"Starting", "ErrorLoading", "Terminated"}
      [] s = "Starting" -> {"Ready", "ErrorStarting", "Terminated"}
      [] s = "Ready"    -> {"Failed", "Exited", "Swept", "Terminated"}
      [] s \in {"ErrorLoading", "ErrorStarting", "TimedOutBeforeReady",
                "Failed", "Exited"} -> {"Terminated"}
      [] OTHER -> {}

\* The states run_backend can reach from s.
Later(s) ==
    CASE s = "Loading"  -> {"Starting", "ErrorLoading", "Ready", "ErrorStarting",
                            "Failed", "Exited", "Swept", "Terminated"}
      [] s = "Starting" -> {"Ready", "ErrorStarting", "Failed", "Exited",
                            "Swept", "Terminated"}
      [] OTHER -> Successor(s)

Reach(s) == IF Skips THEN Later(s) ELSE Successor(s)

Init == state = [b \in Backend |-> NoState]

Create(b) ==
    /\ state[b] = NoState
    /\ state' = [state EXCEPT ![b] = "Loading"]

Move(b) ==
    \E s \in Reach(state[b]) : state' = [state EXCEPT ![b] = s]

Next == \E b \in Backend : Create(b) \/ Move(b)

Spec == Init /\ [][Next]_state
=============================================================================
