------------------------------- MODULE MCCert -------------------------------
(***************************************************************************)
(* CertRefresh and AcmeChallenge for TLC.  An attempt of get_certificate   *)
(* is seconds of AcmeChallenge and one step, or one failure, of            *)
(* CertRefresh; they have no variable in common and are checked one at a   *)
(* time, and scope says which of them moves.                               *)
(***************************************************************************)
EXTENDS CertRefresh, AcmeChallenge

VARIABLE scope

MCInit ==
    /\ scope \in {"Files", "Challenge"}
    /\ Init /\ AcmeInit

MCNext ==
    /\ UNCHANGED scope
    /\ \/ scope = "Files" /\ Next /\ UNCHANGED acmeVars
       \/ scope = "Challenge" /\ AcmeNext /\ UNCHANGED vars

MCSpec == MCInit /\ [][MCNext]_<<scope, vars, acmeVars>>
=============================================================================
