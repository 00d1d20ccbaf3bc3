--------------------------- MODULE AcmeChallenge ----------------------------
(***************************************************************************)
(* get_certificate (drone/src/cert/mod.rs) on several drones of a cluster: *)
(* each asks for a TXT record with a value of its own under the one name   *)
(* _acme-challenge, publishes it for the controller's DNS server, and lets *)
(* the ACME server look it up.  A new attempt has a new value, and only    *)
(* the value of the present attempt matters.  The server's records are     *)
(* what DnsServer shows them to be: all values under the name, each for    *)
(* TxtTtl.  Time passes in the 5 seconds between two polls of wait_done.   *)
(***************************************************************************)
EXTENDS Naturals

CONSTANTS Client,       \* the drones of the cluster
          TxtTtl,       \* SetDnsRecord::ttl (12 times 5 seconds)
          Polls,        \* attempts of wait_done (3)
          MaxCall,      \* time the call of validate may take
          MaxTxtDelay,  \* time a published record may be on its way
          MaxLost,      \* bound: records lost and restarts of the controller
          MaxAttempts   \* bound: attempts of a drone

ASSUME AcmeAssumption ==
    /\ {TxtTtl, Polls, MaxCall, MaxTxtDelay, MaxLost, MaxAttempts} \subseteq Nat

Old == TxtTtl + 1
NotSent == MaxTxtDelay + 1

VARIABLES
    at_step,    \* client -> the await of get_certificate it is at
    spent,      \* client -> time spent there
    flight,     \* client -> age of its record on the way, or NotSent
    txt,        \* client -> age of its record in the server, or Old
    known,      \* client -> its record was stored, and the server kept running
    status,     \* client -> status of its challenge at the ACME server
    attempts, lost

acmeVars == <<at_step, spent, flight, txt, known, status, attempts, lost>>

AcmeTypeOK ==
    /\ at_step \in [Client -> {"Idle", "Order", "Request", "Validate", "Wait",
                               "Finalize", "Issued"}]
    /\ spent \in [Client -> 0..Polls + MaxCall]
    /\ flight \in [Client -> 0..NotSent]
    /\ txt \in [Client -> 0..Old]
    /\ known \in [Client -> BOOLEAN]
    /\ status \in [Client -> {"None", "Pending", "Valid", "Invalid"}]
    /\ attempts \in [Client -> 0..MaxAttempts]
    /\ lost \in 0..MaxLost

AcmeInit ==
    /\ at_step = [c \in Client |-> "Idle"]
    /\ spent = [c \in Client |-> 0]
    /\ flight = [c \in Client |-> NotSent]
    /\ txt = [c \in Client |-> Old]
    /\ known = [c \in Client |-> FALSE]
    /\ status = [c \in Client |-> "None"]
    /\ attempts = [c \in Client |-> 0]
    /\ lost = 0

-----------------------------------------------------------------------------
(* get_certificate *)

GoTo(c, step) ==
    /\ at_step' = [at_step EXCEPT ![c] = step]
    /\ spent' = [spent EXCEPT ![c] = 0]

\* A call with a new order, which means a new value.
get_certificate(c) ==
    /\ at_step[c] = "Idle" /\ attempts[c] < MaxAttempts
    /\ attempts' = [attempts EXCEPT ![c] = @ + 1]
    /\ GoTo(c, "Order")
    /\ flight' = [flight EXCEPT ![c] = NotSent]
    /\ txt' = [txt EXCEPT ![c] = Old]
    /\ known' = [known EXCEPT ![c] = FALSE]
    /\ status' = [status EXCEPT ![c] = "None"]
    /\ UNCHANGED lost

\* The account, the order and its challenge are there.
GotChallenge(c) ==
    /\ at_step[c] = "Order"
    /\ GoTo(c, "Request")
    /\ UNCHANGED <<flight, txt, known, status, attempts, lost>>

\* The request for the old name server is answered.  The record is published
\* before the answer is looked at.
PublishTxt(c) ==
    /\ at_step[c] = "Request"
    /\ flight' = [flight EXCEPT ![c] = 0]
    /\ GoTo(c, "Validate") \/ GoTo(c, "Idle")
    /\ UNCHANGED <<txt, known, status, attempts, lost>>

\* The ACME server is told to look.
Validate(c) ==
    /\ at_step[c] = "Validate"
    /\ status' = [status EXCEPT ![c] = "Pending"]
    /\ GoTo(c, "Wait")
    /\ UNCHANGED <<flight, txt, known, attempts, lost>>

\* wait_done: a poll finds the answer, or the last one does not.
WaitDone(c) ==
    /\ at_step[c] = "Wait"
    /\ \/ status[c] = "Valid" /\ GoTo(c, "Finalize")
       \/ (status[c] = "Invalid" \/ spent[c] = Polls) /\ GoTo(c, "Idle")
    /\ UNCHANGED <<flight, txt, known, status, attempts, lost>>

\* The authorization, the order and the certificate itself.
Finalize(c) ==
    /\ at_step[c] = "Finalize"
    /\ GoTo(c, "Issued")
    /\ UNCHANGED <<flight, txt, known, status, attempts, lost>>

\* Every `?` and every check of a status ends the attempt.
AttemptFails(c) ==
    /\ at_step[c] \in {"Order", "Request", "Validate", "Wait", "Finalize"}
    /\ GoTo(c, "Idle")
    /\ UNCHANGED <<flight, txt, known, status, attempts, lost>>

-----------------------------------------------------------------------------
(* The DNS server and the ACME server *)

\* Mutated form: one value for a name, as for addresses.
MutSetTxtRecord(c) ==
    /\ flight[c] # NotSent
    /\ flight' = [flight EXCEPT ![c] = NotSent]
    /\ txt' = [x \in Client |-> IF x = c THEN 0 ELSE Old]
    /\ known' = [known EXCEPT ![c] = TRUE]
    /\ UNCHANGED <<at_step, spent, status, attempts, lost>>

\* The value is added to the others of the name.
SetTxtRecord(c) ==
    /\ flight[c] # NotSent
    /\ flight' = [flight EXCEPT ![c] = NotSent]
    /\ txt' = [txt EXCEPT ![c] = 0]
    /\ known' = [known EXCEPT ![c] = TRUE]
    /\ UNCHANGED <<at_step, spent, status, attempts, lost>>

LoseTxt(c) ==
    /\ flight[c] # NotSent /\ lost < MaxLost
    /\ lost' = lost + 1
    /\ flight' = [flight EXCEPT ![c] = NotSent]
    /\ UNCHANGED <<at_step, spent, txt, known, status, attempts>>

\* The controller is started again, without records.
ForgetTxt ==
    /\ lost < MaxLost
    /\ lost' = lost + 1
    /\ txt' = [c \in Client |-> Old]
    /\ known' = [c \in Client |-> FALSE]
    /\ UNCHANGED <<at_step, spent, flight, status, attempts>>

\* The ACME server looks the name up and finds the value of the client among
\* the answers or not; a server may also look again.
LookUp(c) ==
    /\ status[c] = "Pending"
    /\ status' = [status EXCEPT ![c] = IF txt[c] < TxtTtl THEN "Valid" ELSE "Invalid"]
    /\ UNCHANGED <<at_step, spent, flight, txt, known, attempts, lost>>

\* The calls between a publication and the end of the wait are timed.
Limit(step) == IF step = "Validate" THEN MaxCall ELSE Polls
Timed == {c \in Client : at_step[c] \in {"Validate", "Wait"}}

Older(f, end) == [c \in Client |-> IF f[c] < end THEN f[c] + 1 ELSE end]

FiveSeconds ==
    /\ \A c \in Timed : spent[c] < Limit(at_step[c])
    /\ \A c \in Client : flight[c] # MaxTxtDelay
    /\ spent' = [c \in Client |-> IF c \in Timed THEN spent[c] + 1 ELSE 0]
    /\ flight' = Older(flight, NotSent)
    /\ txt' = Older(txt, Old)
    /\ UNCHANGED <<at_step, known, status, attempts, lost>>

AcmeNext ==
    \/ \E c \in Client :
           \/ get_certificate(c) \/ GotChallenge(c) \/ PublishTxt(c) \/ Validate(c)
           \/ WaitDone(c) \/ Finalize(c) \/ AttemptFails(c)
           \/ SetTxtRecord(c) \/ LoseTxt(c) \/ LookUp(c)
    \/ ForgetTxt \/ FiveSeconds

AcmeSpec == AcmeInit /\ [][AcmeNext]_acmeVars

-----------------------------------------------------------------------------
(* Properties *)

\* A challenge that a drone waits for fails for one reason only: its record had
\* not reached the server, or not the running one, when the ACME server looked,
\* since get_certificate lets it look without knowing.  The record does not
\* expire before, and the challenges of other drones under the same name do not
\* replace it, however the attempts overlap.
StoredValueIsFound ==
    [][\A c \in Client :
           /\ MaxCall + Polls < TxtTtl
           /\ at_step[c] = "Wait" /\ status[c] = "Pending" /\ status'[c] = "Invalid"
           => ~known[c]]_acmeVars
=============================================================================
