---------------------------- MODULE BackendState ----------------------------
(***************************************************************************)
(* The lifecycle states of a backend and the predicates the drone decides  *)
(* by (core/src/messages/agent.rs).  NoState stands for "no row in the     *)
(* backend table".                                                         *)
(***************************************************************************)

BackendStates ==
    {"Loading", "ErrorLoading", "Starting", "ErrorStarting", "Ready",
     "TimedOutBeforeReady", "Failed", "Exited", "Swept", "Terminated"}

NoState == "NoState"

terminal(s) ==
    s \in {"ErrorLoading", "ErrorStarting", "TimedOutBeforeReady",
           "Failed", "Exited", "Swept", "Terminated"}

running(s) == s \in {"Starting", "Ready"}

\* The states the running_backends query counts: everything not terminal.
CountedAsRunning(s) == s \in {"Loading", "Starting", "Ready"}
=============================================================================
