------------------------------- MODULE Engine -------------------------------
(***************************************************************************)
(* The container engine as the executor sees it (engine.rs and             *)
(* engines/docker/): the state of one container per backend and what each  *)
(* call of the Engine trait does to it.  Docker itself is external; it is  *)
(* modelled from the requests and answers docker/mod.rs relies on.         *)
(***************************************************************************)
EXTENDS BackendState

CONSTANTS Backend,   \* backend ids, which are also container names
          Addr,      \* addresses Docker can give to a running container
          None       \* absence of an address, a sender or a task

VARIABLES cont,      \* [Backend -> ContainerState]
          addr,      \* [Backend -> Addr or None], held while running
          dies,      \* backends with a "die" event not yet read by the drone
          late,      \* [Backend -> SUBSET Call]  calls whose caller has given
                     \* up, and which Docker may still carry out
          belated    \* history: the container there is was created or started
                     \* by such a call

lateVars == <<late, belated>>
engineVars == <<cont, addr, dies, lateVars>>

Stopped == {"Exited", "Failed", "NoCode"}

ContainerState == {"Absent", "Created", "Running"} \cup Stopped

\* The calls that may be carried out late.  A late stop is not among them: it
\* is an exit of the container like any other.
Call == {"create", "start", "remove"}

EngineTypeOK ==
    /\ cont \in [Backend -> ContainerState]
    /\ addr \in [Backend -> Addr \cup {None}]
    /\ dies \in SUBSET Backend
    /\ late \in [Backend -> SUBSET Call]
    /\ belated \in SUBSET Backend

EngineInit ==
    /\ cont = [b \in Backend |-> "Absent"]
    /\ addr = [b \in Backend |-> None]
    /\ dies = {}
    /\ late = [b \in Backend |-> {}]
    /\ belated = {}

-----------------------------------------------------------------------------
\* What inspecting a container in state c makes backend_status return.  A
\* container that was created but never started has exit code 0.
backend_status(c) ==
    CASE c = "Absent"                -> "Unknown"
      [] c = "Running"               -> "Running"
      [] c = "NoCode"                -> "Terminated"
      [] c \in {"Created", "Exited"} -> "Exited"
      [] c = "Failed"                -> "Failed"

\* A name is taken as long as a container of that name exists.
create_container(b) ==
    /\ cont[b] = "Absent"
    /\ cont' = [cont EXCEPT ![b] = "Created"]
    /\ UNCHANGED <<addr, dies, lateVars>>

\* Docker gives a starting container an address no running one has.
ContainerStarts(b) ==
    /\ cont[b] = "Created"
    /\ cont' = [cont EXCEPT ![b] = "Running"]
    /\ \E a \in Addr : /\ \A c \in Backend : addr[c] # a
                       /\ addr' = [addr EXCEPT ![b] = a]
    /\ UNCHANGED dies

start_container(b) == ContainerStarts(b) /\ UNCHANGED lateVars

\* A running container stops, by itself or because it was told to; the event
\* reaches interrupt_stream only if someone is subscribed.
ContainerDies(b, subscribed) ==
    /\ cont[b] = "Running"
    /\ \E s \in Stopped : cont' = [cont EXCEPT ![b] = s]
    /\ addr' = [addr EXCEPT ![b] = None]
    /\ dies' = IF subscribed THEN dies \cup {b} ELSE dies
    /\ UNCHANGED lateVars

\* The first call of stop(): a container that does not run, or is not there
\* (allow_not_found), is left as it is.
stop_container(b) ==
    \/ ContainerDies(b, TRUE)
    \/ cont[b] # "Running" /\ UNCHANGED engineVars

\* The second call of stop(): Docker refuses to remove a running container.  A
\* start goes by the id of the container, which is gone with it.
remove_container(b) ==
    /\ cont[b] # "Running"
    /\ cont' = [cont EXCEPT ![b] = "Absent"]
    /\ late' = [late EXCEPT ![b] = @ \ {"start"}]
    /\ belated' = belated \ {b}
    /\ UNCHANGED <<addr, dies>>

-----------------------------------------------------------------------------
(* Docker carries out a call nobody waits for; its answer goes nowhere, be  *)
(* it that the name is in use or that there is no such container.           *)

CarriedOut(b, call) == late' = [late EXCEPT ![b] = @ \ {call}]

LateCreate(b) ==
    /\ "create" \in late[b]
    /\ CarriedOut(b, "create")
    /\ \/ /\ cont[b] = "Absent"
          /\ cont' = [cont EXCEPT ![b] = "Created"]
          /\ belated' = belated \cup {b}
       \/ cont[b] # "Absent" /\ UNCHANGED <<cont, belated>>
    /\ UNCHANGED <<addr, dies>>

LateStart(b) ==
    /\ "start" \in late[b]
    /\ CarriedOut(b, "start")
    /\ ContainerStarts(b)
    /\ belated' = belated \cup {b}

LateRemove(b) ==
    /\ "remove" \in late[b]
    /\ \/ /\ cont[b] # "Running"
          /\ cont' = [cont EXCEPT ![b] = "Absent"]
          /\ late' = [late EXCEPT ![b] = @ \ {"start", "remove"}]
          /\ belated' = belated \ {b}
       \/ /\ cont[b] = "Running"
          /\ CarriedOut(b, "remove")
          /\ UNCHANGED <<cont, belated>>
    /\ UNCHANGED <<addr, dies>>

LateCall(b) == LateCreate(b) \/ LateStart(b) \/ LateRemove(b)
=============================================================================
