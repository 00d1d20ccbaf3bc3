----------------------------- MODULE AcmeProofs -----------------------------
(***************************************************************************)
(* StoredValueIsFound for any number of drones, any times and any number   *)
(* of attempts, lost records and restarts of the controller.               *)
(***************************************************************************)
EXTENDS AcmeChallenge, TLAPS

\* The types the argument needs.
ChallengeTypeOK ==
    /\ at_step \in [Client -> {"Idle", "Order", "Request", "Validate", "Wait",
                               "Finalize", "Issued"}]
    /\ spent \in [Client -> Nat]
    /\ flight \in [Client -> Nat]
    /\ txt \in [Client -> 0..Old]
    /\ known \in [Client -> BOOLEAN]
    /\ status \in [Client -> {"None", "Pending", "Valid", "Invalid"}]

\* Nothing of an attempt is published before its value is; then the record, if
\* it is stored, is no older than the attempt's time since.
RecordIsFresh(c) ==
    /\ at_step[c] \in {"Order", "Request"} => flight[c] = NotSent /\ ~known[c]
    /\ at_step[c] = "Validate" =>
           spent[c] <= MaxCall /\ (known[c] => txt[c] <= spent[c])
    /\ at_step[c] = "Wait" =>
           spent[c] <= Polls /\ (known[c] => txt[c] <= MaxCall + spent[c])

ChallengeInv ==
    /\ ChallengeTypeOK
    /\ \A c \in Client : RecordIsFresh(c)

\* Times are natural numbers.
LEMMA AcmeTimesAreNumbers ==
    /\ TxtTtl \in Nat /\ Polls \in Nat /\ MaxCall \in Nat /\ MaxTxtDelay \in Nat
    /\ Old \in Nat /\ NotSent \in Nat /\ Old = TxtTtl + 1 /\ NotSent = MaxTxtDelay + 1
BY AcmeAssumption DEF Old, NotSent

\* Every step keeps the types.
LEMMA ChallengeTypeStep ==
    ASSUME ChallengeTypeOK, [AcmeNext]_acmeVars
    PROVE  ChallengeTypeOK'
<1>. USE AcmeTimesAreNumbers
<1>1. ASSUME NEW c \in Client, get_certificate(c) PROVE ChallengeTypeOK'
  BY <1>1 DEF get_certificate, GoTo, ChallengeTypeOK
<1>2. ASSUME NEW c \in Client,
             GotChallenge(c) \/ WaitDone(c) \/ Finalize(c) \/ AttemptFails(c)
      PROVE  ChallengeTypeOK'
  BY <1>2 DEF GotChallenge, WaitDone, Finalize, AttemptFails, GoTo, ChallengeTypeOK
<1>3. ASSUME NEW c \in Client, PublishTxt(c) PROVE ChallengeTypeOK'
  BY <1>3 DEF PublishTxt, GoTo, ChallengeTypeOK
<1>4. ASSUME NEW c \in Client, Validate(c) PROVE ChallengeTypeOK'
  BY <1>4 DEF Validate, GoTo, ChallengeTypeOK
<1>5. ASSUME NEW c \in Client, SetTxtRecord(c) PROVE ChallengeTypeOK'
  BY <1>5 DEF SetTxtRecord, ChallengeTypeOK
<1>6. ASSUME NEW c \in Client, LoseTxt(c) \/ LookUp(c) PROVE ChallengeTypeOK'
  BY <1>6 DEF LoseTxt, LookUp, ChallengeTypeOK
<1>7. CASE ForgetTxt
  BY <1>7 DEF ForgetTxt, ChallengeTypeOK
<1>8. CASE FiveSeconds
  BY <1>8 DEF FiveSeconds, Older, Timed, ChallengeTypeOK
<1>9. CASE UNCHANGED acmeVars
  BY <1>9 DEF acmeVars, ChallengeTypeOK
<1>. QED
  BY <1>1, <1>2, <1>3, <1>4, <1>5, <1>6, <1>7, <1>8, <1>9 DEF AcmeNext

\* Every step keeps records fresh, whichever drone takes it.
LEMMA FreshStep ==
    ASSUME ChallengeInv, [AcmeNext]_acmeVars, NEW x \in Client
    PROVE  RecordIsFresh(x)'
<1>1. ChallengeTypeOK /\ RecordIsFresh(x)
  BY DEF ChallengeInv
<1>. USE AcmeTimesAreNumbers
<1>2. ASSUME NEW c \in Client, get_certificate(c) PROVE RecordIsFresh(x)'
  BY <1>1, <1>2 DEF get_certificate, GoTo, ChallengeTypeOK, RecordIsFresh
<1>3. ASSUME NEW c \in Client,
             GotChallenge(c) \/ WaitDone(c) \/ Finalize(c) \/ AttemptFails(c)
      PROVE  RecordIsFresh(x)'
  BY <1>1, <1>3 DEF GotChallenge, WaitDone, Finalize, AttemptFails, GoTo,
                    ChallengeTypeOK, RecordIsFresh
<1>4. ASSUME NEW c \in Client, PublishTxt(c) PROVE RecordIsFresh(x)'
  BY <1>1, <1>4 DEF PublishTxt, GoTo, ChallengeTypeOK, RecordIsFresh
<1>5. ASSUME NEW c \in Client, Validate(c) PROVE RecordIsFresh(x)'
  BY <1>1, <1>5 DEF Validate, GoTo, ChallengeTypeOK, RecordIsFresh
<1>6. ASSUME NEW c \in Client, SetTxtRecord(c) PROVE RecordIsFresh(x)'
  BY <1>1, <1>6 DEF SetTxtRecord, ChallengeTypeOK, RecordIsFresh
<1>7. ASSUME NEW c \in Client, LoseTxt(c) \/ LookUp(c) PROVE RecordIsFresh(x)'
  BY <1>1, <1>7 DEF LoseTxt, LookUp, ChallengeTypeOK, RecordIsFresh
<1>8. CASE ForgetTxt
  BY <1>1, <1>8 DEF ForgetTxt, ChallengeTypeOK, RecordIsFresh
<1>9. CASE FiveSeconds
  BY <1>1, <1>9 DEF FiveSeconds, Older, Timed, Limit, ChallengeTypeOK, RecordIsFresh
<1>10. CASE UNCHANGED acmeVars
  BY <1>1, <1>10 DEF acmeVars, RecordIsFresh
<1>. QED
  BY <1>2, <1>3, <1>4, <1>5, <1>6, <1>7, <1>8, <1>9, <1>10 DEF AcmeNext

\* Only a lookup makes a challenge invalid, and it finds a stored record that is
\* fresh.
LEMMA FreshIsFound ==
    ASSUME ChallengeInv, [AcmeNext]_acmeVars, NEW x \in Client,
           MaxCall + Polls < TxtTtl, at_step[x] = "Wait", status[x] = "Pending",
           status'[x] = "Invalid"
    PROVE  ~known[x]
<1>1. ChallengeTypeOK /\ RecordIsFresh(x)
  BY DEF ChallengeInv
<1>2. ASSUME NEW c \in Client, LookUp(c) PROVE ~known[x]
  <2>1. c = x /\ ~(txt[x] < TxtTtl)
    BY <1>1, <1>2 DEF LookUp, ChallengeTypeOK
  <2>2. spent[x] <= Polls /\ (known[x] => txt[x] <= MaxCall + spent[x])
    BY <1>1 DEF RecordIsFresh
  <2>3. spent[x] \in Nat /\ txt[x] \in Nat
    BY <1>1, AcmeTimesAreNumbers DEF ChallengeTypeOK
  <2>. QED
    BY <2>1, <2>2, <2>3, AcmeTimesAreNumbers
<1>3. ASSUME NEW c \in Client, get_certificate(c) \/ Validate(c) PROVE FALSE
  BY <1>1, <1>3 DEF get_certificate, Validate, ChallengeTypeOK
<1>4. ASSUME NEW c \in Client,
             \/ GotChallenge(c) \/ PublishTxt(c) \/ WaitDone(c) \/ Finalize(c)
             \/ AttemptFails(c) \/ SetTxtRecord(c) \/ LoseTxt(c)
      PROVE  FALSE
  BY <1>4 DEF GotChallenge, PublishTxt, WaitDone, Finalize, AttemptFails, SetTxtRecord,
              LoseTxt
<1>5. CASE ForgetTxt \/ FiveSeconds \/ UNCHANGED acmeVars
  BY <1>5 DEF ForgetTxt, FiveSeconds, acmeVars
<1>. QED
  BY <1>2, <1>3, <1>4, <1>5 DEF AcmeNext

\* get_certificate and the multistore of TXT records: a challenge fails only if
\* its record had not reached the running server.
THEOREM StoredMeansFound == AcmeSpec => StoredValueIsFound
<1>1. AcmeInit => ChallengeInv
  BY AcmeTimesAreNumbers DEF AcmeInit, ChallengeInv, ChallengeTypeOK, RecordIsFresh
<1>2. ChallengeInv /\ [AcmeNext]_acmeVars => ChallengeInv'
  BY ChallengeTypeStep, FreshStep DEF ChallengeInv
<1>3. ChallengeInv /\ [AcmeNext]_acmeVars =>
          [\A c \in Client :
               /\ MaxCall + Polls < TxtTtl
               /\ at_step[c] = "Wait" /\ status[c] = "Pending" /\ status'[c] = "Invalid"
               => ~known[c]]_acmeVars
  BY FreshIsFound
<1>. QED
  BY <1>1, <1>2, <1>3, PTL DEF AcmeSpec, StoredValueIsFound
=============================================================================
