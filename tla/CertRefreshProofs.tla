------------------------- MODULE CertRefreshProofs --------------------------
(***************************************************************************)
(* The invariants of CertRefresh, for any lifetime and margin, chains of   *)
(* any length and any number of issues, crashes and failing writes.        *)
(***************************************************************************)
EXTENDS CertRefresh, SequenceTheorems, TLAPS

\* Periods and bounds are natural numbers.
LEMMA CertNumbers ==
    /\ Lifetime \in Nat /\ Margin \in Nat /\ MaxChain \in Nat /\ BootAttempts \in Nat
    /\ MaxIssues \in Nat /\ Margin < Lifetime
  BY CertAssumption

-----------------------------------------------------------------------------
(* The files.                                                              *)

\* The certificate file begins with a certificate of issue n.
LeafIs(n) == certFile # <<>> /\ Head(certFile) = n

\* A chain is written block by block over the one before; its leaf is new after
\* the first.  The key file has an earlier key until that of the chain is written.
FileInv ==
    /\ phase \in Phase
    /\ certFile \in Seq(0..MaxIssues) /\ issued \in 0..MaxIssues
    /\ written \in Nat /\ toWrite \in Nat
    /\ keyFile \in 0..issued
    /\ phase = "CertOpen" =>
           /\ issued > 0 /\ written <= Len(certFile) /\ keyFile < issued
           /\ written = 0 => toWrite > 0
           /\ written > 0 => LeafIs(issued)
    /\ phase \in {"CertDone", "KeyOpen"} => issued > 0 /\ LeafIs(issued)
    /\ phase = "CertDone" => keyFile < issued
    /\ phase = "KeyOpen" => keyFile = Damaged
    /\ ~booting => certFile # <<>>

\* What is in the file after a block was written over it: a chain that is longer
\* than what has been written before, with the new leaf if that was nothing.
LEMMA OverwrittenChain ==
    ASSUME NEW S, certFile \in Seq(S), written \in Nat, written <= Len(certFile),
           NEW b \in S, NEW s \in Overwritten(b)
    PROVE  /\ s \in Seq(S) /\ s # <<>> /\ written + 1 <= Len(s)
           /\ written = 0 => Head(s) = b
           /\ written > 0 => Head(s) = Head(certFile)
  <1> DEFINE before == SubSeq(certFile, 1, written)
             behind == SubSeq(certFile, written + 2, Len(certFile))
             start == before \o <<b>>
  <1>1. /\ before \in Seq(S) /\ Len(before) = written
        /\ written > 0 => before[1] = certFile[1]
    OBVIOUS
  <1>2. behind \in Seq(S)
    OBVIOUS
  <1>3. /\ start \in Seq(S) /\ Len(start) = written + 1
        /\ written = 0 => start[1] = b
        /\ written > 0 => start[1] = certFile[1]
    BY <1>1
  <1>4. PICK r \in Seq(S) : s = start \o r
    <2>1. s = start \o behind \/ (1 \in DOMAIN behind /\ s = start \o Tail(behind))
      BY Zenon DEF Overwritten
    <2> HIDE DEF start, behind
    <2>2. 1 \in DOMAIN behind => Tail(behind) \in Seq(S)
      BY <1>2
    <2> QED BY Zenon, <1>2, <2>1, <2>2
  <1>5. /\ s \in Seq(S) /\ Len(s) = Len(start) + Len(r) /\ Len(r) \in Nat
        /\ s[1] = start[1]
    BY <1>3, <1>4
  <1> HIDE DEF start
  <1> QED BY <1>3, <1>5

\* A step that writes a block.
LEMMA BlockWritten ==
    ASSUME FileInv, WriteBlock
    PROVE  /\ certFile' \in Seq(0..MaxIssues) /\ LeafIs(issued)'
           /\ written' <= Len(certFile') /\ written' > 0 /\ written' \in Nat
           /\ toWrite' \in Nat
  <1>1. /\ phase = "CertOpen" /\ toWrite > 0 /\ certFile' \in Overwritten(issued)
        /\ written' = written + 1 /\ toWrite' = toWrite - 1 /\ issued' = issued
    BY Zenon DEF WriteBlock
  <1>2. /\ certFile \in Seq(0..MaxIssues) /\ written \in Nat /\ toWrite \in Nat
        /\ issued \in 0..MaxIssues /\ written <= Len(certFile)
        /\ written > 0 => Head(certFile) = issued
    BY <1>1 DEF FileInv, LeafIs
  <1>3. /\ certFile' \in Seq(0..MaxIssues) /\ certFile' # <<>> /\ written + 1 <= Len(certFile')
        /\ written = 0 => Head(certFile') = issued
        /\ written > 0 => Head(certFile') = Head(certFile)
    BY Zenon, <1>1, <1>2, OverwrittenChain
  <1>4. LeafIs(issued)'
    BY SMTT(60), <1>1, <1>2, <1>3 DEF LeafIs
  <1> QED BY SMTT(60), <1>1, <1>2, <1>3, <1>4

\* A write that stops in the middle leaves the chain, or a damaged block in it:
\* the leaf is as before, or damaged if it was to be written.
LEMMA TornChain ==
    ASSUME FileInv, Torn
    PROVE  /\ certFile' \in Seq(0..MaxIssues)
           /\ certFile # <<>> => certFile' # <<>>
           /\ certFile' # <<>> /\ Head(certFile') # Damaged =>
                  certFile # <<>> /\ Head(certFile') = Head(certFile)
           /\ phase = "CertOpen" /\ written > 0 => Head(certFile') = Head(certFile)
           /\ phase # "CertOpen" => certFile' = certFile
           /\ written = 0 => certFile' = certFile \/ (certFile' # <<>> /\ Head(certFile') = Damaged)
  <1>1. CASE certFile' = certFile
    BY <1>1 DEF FileInv
  <1>2. CASE phase = "CertOpen" /\ certFile' \in Overwritten(Damaged)
    <2>1. /\ certFile \in Seq(0..MaxIssues) /\ written \in Nat /\ written <= Len(certFile)
          /\ written > 0 => certFile # <<>>
      BY <1>2 DEF FileInv, LeafIs
    <2>2. Damaged \in 0..MaxIssues
      BY CertNumbers DEF Damaged
    <2>3. /\ certFile' \in Seq(0..MaxIssues) /\ certFile' # <<>>
          /\ written = 0 => Head(certFile') = Damaged
          /\ written > 0 => Head(certFile') = Head(certFile)
      BY Zenon, <1>2, <2>1, <2>2, OverwrittenChain
    <2>4. written = 0 \/ written > 0
      BY <2>1
    <2> QED BY Zenon, <1>2, <2>1, <2>3, <2>4
  <1> QED BY Zenon, <1>1, <1>2 DEF Torn

\* Every step keeps the files in order.
LEMMA FileNext ==
    ASSUME FileInv, [Next]_vars
    PROVE  FileInv'
  <1> USE CertNumbers DEF Phase
  <1>1. CASE refresh_if_not_valid
    <2>1. UNCHANGED <<issued, certFile, keyFile, written, toWrite>>
      BY Zenon, <1>1 DEF refresh_if_not_valid, fileVars
    <2>2. CASE IsValid /\ Returned
      <3>1. ~booting' /\ phase' \in {"Check", "Sleep"}
        BY Zenon, <2>2 DEF Returned, proxyVars
      <3>2. certFile # <<>>
        BY Zenon, <2>2 DEF IsValid, HasLeaf
      <3> QED BY <2>1, <3>1, <3>2 DEF FileInv
    <2>3. CASE phase' = "Issue" /\ booting' = booting
      BY <2>1, <2>3 DEF FileInv
    <2> QED BY Zenon, <1>1, <2>2, <2>3 DEF refresh_if_not_valid
  <1>2. CASE OpenCert
    BY <1>2 DEF OpenCert, FileInv
  <1>3. CASE IssueFails
    <2>1. UNCHANGED <<booting, issued, certFile, keyFile, written, toWrite>>
      BY Zenon, <1>3 DEF IssueFails, fileVars
    <2>2. phase' \in {"Sleep", "Down", "Check"}
      BY Zenon, <1>3 DEF IssueFails, ErrorReturned
    <2> QED BY <2>1, <2>2 DEF FileInv
  <1>4. CASE WriteBlock
    <2>1. phase = "CertOpen" /\ UNCHANGED <<phase, booting, issued, keyFile>>
      BY Zenon, <1>4 DEF WriteBlock
    <2>2. /\ certFile' \in Seq(0..MaxIssues) /\ LeafIs(issued)'
          /\ written' <= Len(certFile') /\ written' > 0 /\ written' \in Nat
          /\ toWrite' \in Nat
      BY <1>4, BlockWritten
    <2>3. certFile' # <<>>
      BY Zenon, <2>2 DEF LeafIs
    <2> QED BY <2>1, <2>2, <2>3 DEF FileInv
  <1>5. CASE CloseCert
    BY <1>5 DEF CloseCert, fileVars, FileInv, LeafIs
  <1>6. CASE OpenKey
    BY <1>6 DEF OpenKey, FileInv, LeafIs, Damaged
  <1>7. CASE CloseKey
    <2>1. /\ phase = "KeyOpen" /\ keyFile' = issued
          /\ UNCHANGED <<issued, certFile, written, toWrite>>
      BY Zenon, <1>7 DEF CloseKey
    <2>2. phase' \in {"Check", "Sleep"}
      BY Zenon, <1>7 DEF CloseKey
    <2> QED BY <2>1, <2>2 DEF FileInv, LeafIs
  <1>8. CASE WriteFails
    <2>1. UNCHANGED <<booting, issued, keyFile, written, toWrite>> /\ Torn
      BY Zenon, <1>8 DEF WriteFails
    <2>2. phase' \in {"Sleep", "Down", "Check"}
      BY Zenon, <1>8 DEF WriteFails, ErrorReturned
    <2>3. certFile' \in Seq(0..MaxIssues) /\ (certFile # <<>> => certFile' # <<>>)
      BY <2>1, TornChain
    <2> QED BY <2>1, <2>2, <2>3 DEF FileInv
  <1>9. CASE HandleEvent
    BY <1>9 DEF HandleEvent, fileVars, FileInv, LeafIs
  <1>10. CASE Round
    BY <1>10 DEF Round, FileInv
  <1>11. CASE Crash
    <2>1. UNCHANGED <<booting, issued, keyFile, written, toWrite>> /\ Torn /\ phase' = "Down"
      BY Zenon, <1>11 DEF Crash
    <2>2. certFile' \in Seq(0..MaxIssues) /\ (certFile # <<>> => certFile' # <<>>)
      BY <2>1, TornChain
    <2> QED BY <2>1, <2>2 DEF FileInv
  <1>12. CASE Restart
    BY <1>12 DEF Restart, fileVars, FileInv
  <1>13. CASE UNCHANGED vars
    BY Zenon, <1>13 DEF vars, fileVars, FileInv, LeafIs
  <1> QED
    BY Zenon, <1>1, <1>2, <1>3, <1>4, <1>5, <1>6, <1>7, <1>8, <1>9, <1>10, <1>11,
       <1>12, <1>13 DEF Next

-----------------------------------------------------------------------------
(* Time: what is left of the leaf, and the attempts that failed.           *)

\* The rounds that are left of the leaf in the file and those in which an attempt
\* failed make up the margin and n more.
Account(n) ==
    HasLeaf => left[Head(certFile)] + failedRun >= Margin + n

\* At the end of a round there is one more than when the next one begins; what
\* is being written is not due.
TimeInv ==
    /\ left \in [1..MaxIssues -> Nat] /\ failedRun \in 0..Margin + 1
    /\ phase \in {"CertOpen", "CertDone", "KeyOpen"} => left[issued] > Margin
    /\ phase = "Sleep" => ~booting /\ Account(1)
    /\ ~booting /\ (phase \in {"Check", "Issue"} \/ (phase = "CertOpen" /\ written = 0)) =>
           Account(0)

\* The issue of a leaf that parses is one of the model's.
LEMMA LeafIssue ==
    ASSUME FileInv, TimeInv, HasLeaf
    PROVE  Head(certFile) \in 1..MaxIssues /\ left[Head(certFile)] \in Nat
  <1>1. certFile \in Seq(0..MaxIssues) /\ certFile # <<>> /\ Head(certFile) # 0
    BY DEF FileInv, HasLeaf, Damaged
  <1>2. Head(certFile) \in 1..MaxIssues
    BY <1>1, CertNumbers
  <1> QED BY <1>2 DEF TimeInv

\* An account stays as it is if leaf, rounds and failures do, ...
LEMMA SameAccount ==
    ASSUME NEW n \in Nat, Account(n), UNCHANGED <<certFile, left, failedRun>>
    PROVE  Account(n)'
  BY Zenon DEF Account, HasLeaf

\* ... also if a write stops in the middle of a block.
LEMMA TornAccount ==
    ASSUME FileInv, Torn, NEW n \in Nat, Account(n), UNCHANGED <<left, failedRun>>
    PROVE  Account(n)'
  <1>1. HasLeaf' => HasLeaf /\ Head(certFile') = Head(certFile)
    BY Zenon, TornChain DEF HasLeaf
  <1> QED BY Zenon, <1>1 DEF Account

\* A failure more makes up for the round that passes.
LEMMA FailureCounts ==
    ASSUME FileInv, TimeInv, Account(0)
    PROVE  /\ OneMoreFailure \in 0..Margin + 1
           /\ HasLeaf => left[Head(certFile)] + OneMoreFailure >= Margin + 1
  <1>1. failedRun \in 0..Margin + 1 /\ OneMoreFailure \in 0..Margin + 1
    BY CertNumbers DEF TimeInv, OneMoreFailure
  <1>2. HasLeaf => left[Head(certFile)] \in Nat /\ left[Head(certFile)] + failedRun >= Margin
    BY LeafIssue, CertNumbers DEF Account
  <1> QED BY <1>1, <1>2, CertNumbers DEF OneMoreFailure

\* A chain that has been written has more than the margin left.
LEMMA NewLeafAccount ==
    ASSUME FileInv, TimeInv, LeafIs(issued), left[issued] > Margin
    PROVE  Account(1)
  <1>1. HasLeaf => left[Head(certFile)] \in Nat /\ left[Head(certFile)] > Margin
    BY LeafIssue DEF LeafIs
  <1> QED BY <1>1, CertNumbers DEF Account, TimeInv

\* Every step keeps the account.
LEMMA TimeNext ==
    ASSUME FileInv, TimeInv, [Next]_vars
    PROVE  TimeInv'
  <1> USE CertNumbers
  <1>1. CASE refresh_if_not_valid
    <2>1. phase = "Check" /\ UNCHANGED <<issued, certFile, written, left, failedRun>>
      BY Zenon, <1>1 DEF refresh_if_not_valid, fileVars
    <2>2. CASE IsValid /\ Returned
      <3>1. ~booting' /\ phase' \in {"Check", "Sleep"}
        BY Zenon, <2>2 DEF Returned, proxyVars
      <3>2. Account(1) /\ Account(0)
        <4>1. HasLeaf /\ left[Head(certFile)] > Margin /\ left[Head(certFile)] \in Nat
          BY Zenon, <2>2, LeafIssue DEF IsValid
        <4> QED BY <4>1 DEF Account, TimeInv
      <3>3. Account(1)' /\ Account(0)'
        BY <2>1, <3>2, SameAccount
      <3> QED BY <2>1, <3>1, <3>3 DEF TimeInv
    <2>3. CASE phase' = "Issue" /\ booting' = booting
      <3>1. ~booting => Account(0)
        BY Zenon, <2>1 DEF TimeInv
      <3>2. ~booting' => Account(0)'
        BY <2>1, <2>3, <3>1, SameAccount
      <3> QED BY <2>1, <2>3, <3>2 DEF TimeInv
    <2> QED BY Zenon, <1>1, <2>2, <2>3 DEF refresh_if_not_valid
  <1>2. CASE OpenCert
    <2>1. /\ phase = "Issue" /\ issued < MaxIssues /\ phase' = "CertOpen"
          /\ issued' = issued + 1 /\ left' = [left EXCEPT ![issued + 1] = Lifetime]
          /\ UNCHANGED <<booting, certFile, failedRun>>
      BY Zenon, <1>2 DEF OpenCert
    <2>2. /\ left' \in [1..MaxIssues -> Nat] /\ left'[issued'] = Lifetime
          /\ \A i \in 1..MaxIssues : left'[i] = left[i] \/ left'[i] = Lifetime
      BY <2>1 DEF TimeInv, FileInv
    <2>3. ~booting => Account(0)'
      <3>1. ASSUME ~booting, HasLeaf PROVE left'[Head(certFile)] + failedRun >= Margin
        <4>1. Head(certFile) \in 1..MaxIssues /\ left[Head(certFile)] \in Nat
          BY <3>1, LeafIssue
        <4>2. left[Head(certFile)] + failedRun >= Margin + 0 /\ failedRun \in Nat
          BY <2>1, <3>1 DEF TimeInv, Account
        <4> QED BY SMTT(60), <2>2, <4>1, <4>2
      <3>2. Margin + 0 = Margin
        OBVIOUS
      <3> QED BY Zenon, <2>1, <3>1, <3>2 DEF Account, HasLeaf
    <2> QED BY <2>1, <2>2, <2>3 DEF TimeInv
  <1>3. CASE IssueFails
    <2>1. phase = "Issue" /\ failedRun' = OneMoreFailure
          /\ UNCHANGED <<booting, issued, certFile, written, left>>
      BY Zenon, <1>3 DEF IssueFails, fileVars
    <2>2. (~booting /\ phase' = "Sleep") \/ (booting /\ phase' \in {"Down", "Check"})
      BY Zenon, <1>3 DEF IssueFails, ErrorReturned
    <2>3. failedRun' \in 0..Margin + 1
      BY <2>1 DEF TimeInv, OneMoreFailure
    <2>4. ~booting => Account(1)'
      <3>1. ~booting => Account(0)
        BY Zenon, <2>1 DEF TimeInv
      <3> QED BY Zenon, <2>1, <3>1, FailureCounts DEF Account, HasLeaf
    <2> QED BY <2>1, <2>2, <2>3, <2>4 DEF TimeInv
  <1>4. CASE WriteBlock
    <2>1. /\ phase = "CertOpen" /\ UNCHANGED <<phase, issued, left>>
          /\ failedRun' \in {0, failedRun}
      BY <1>4 DEF WriteBlock
    <2>2. written' > 0 /\ written' \in Nat
      BY <1>4, BlockWritten
    <2> QED BY <2>1, <2>2 DEF TimeInv
  <1>5. CASE CloseCert
    BY <1>5 DEF CloseCert, fileVars, TimeInv
  <1>6. CASE OpenKey
    BY <1>6 DEF OpenKey, TimeInv
  <1>7. CASE CloseKey
    <2>1. phase = "KeyOpen" /\ UNCHANGED <<issued, certFile, written, left, failedRun>>
      BY Zenon, <1>7 DEF CloseKey
    <2>2. ~booting' /\ phase' \in {"Check", "Sleep"}
      BY Zenon, <1>7 DEF CloseKey
    <2>3. Account(1)
      BY <2>1, NewLeafAccount DEF FileInv, TimeInv
    <2>4. Account(0)
      BY <2>3, LeafIssue DEF Account, TimeInv
    <2>5. Account(1)' /\ Account(0)'
      BY <2>1, <2>3, <2>4, SameAccount
    <2> QED BY <2>1, <2>2, <2>5 DEF TimeInv
  <1>8. CASE WriteFails
    <2>1. UNCHANGED <<booting, issued, written, left>> /\ Torn
      BY Zenon, <1>8 DEF WriteFails
    <2>2. (~booting /\ phase' = "Sleep") \/ (booting /\ phase' \in {"Down", "Check"})
      BY Zenon, <1>8 DEF WriteFails, ErrorReturned
    <2>3. \/ phase = "CertOpen" /\ written = 0 /\ failedRun' = OneMoreFailure
          \/ phase = "CertOpen" /\ written # 0 /\ failedRun' = failedRun
          \/ phase \in {"CertDone", "KeyOpen"} /\ failedRun' = failedRun
      BY Zenon, <1>8 DEF WriteFails
    <2>4. failedRun' \in 0..Margin + 1
      BY <2>3 DEF TimeInv, OneMoreFailure
    <2>5. ASSUME ~booting PROVE Account(1)'
      <3>1. CASE phase = "CertOpen" /\ written = 0 /\ failedRun' = OneMoreFailure
        <4>1. HasLeaf => left[Head(certFile)] + OneMoreFailure >= Margin + 1
          BY Zenon, <2>5, <3>1, FailureCounts DEF TimeInv
        <4>2. HasLeaf' => HasLeaf /\ Head(certFile') = Head(certFile)
          BY Zenon, <2>1, TornChain DEF HasLeaf
        <4> QED BY Zenon, <2>1, <3>1, <4>1, <4>2 DEF Account
      <3>2. CASE /\ \/ phase = "CertOpen" /\ written # 0
                    \/ phase \in {"CertDone", "KeyOpen"}
                 /\ failedRun' = failedRun
        <4>1. LeafIs(issued) /\ left[issued] > Margin
          BY <3>2 DEF FileInv, TimeInv
        <4> QED BY <2>1, <3>2, <4>1, NewLeafAccount, TornAccount
      <3> QED BY Zenon, <2>3, <3>1, <3>2
    <2> QED BY Zenon, <2>1, <2>2, <2>4, <2>5 DEF TimeInv
  <1>9. CASE HandleEvent
    <2>1. UNCHANGED <<phase, booting, issued, certFile, written, left, failedRun>>
      BY Zenon, <1>9 DEF HandleEvent, fileVars
    <2> QED BY Zenon, <2>1 DEF TimeInv, Account, HasLeaf
  <1>10. CASE Round
    <2>1. /\ phase' \in {"Check", "Down"} /\ UNCHANGED <<booting, certFile, failedRun>>
          /\ phase' = "Check" => phase = "Sleep"
          /\ left' = [i \in DOMAIN left |-> IF left[i] > 0 THEN left[i] - 1 ELSE 0]
      BY Zenon, <1>10 DEF Round
    <2>2. /\ left' \in [1..MaxIssues -> Nat]
          /\ \A i \in 1..MaxIssues : left[i] \in Nat /\ left'[i] + 1 >= left[i]
      BY <2>1 DEF TimeInv
    <2>3. phase' = "Check" => Account(0)'
      <3>1. ASSUME phase' = "Check", HasLeaf PROVE left'[Head(certFile)] + failedRun >= Margin
        <4>1. Head(certFile) \in 1..MaxIssues
          BY <3>1, LeafIssue
        <4>2. left[Head(certFile)] + failedRun >= Margin + 1 /\ failedRun \in Nat
          BY <2>1, <3>1 DEF TimeInv, Account
        <4> QED BY SMTT(60), <2>2, <4>1, <4>2
      <3>2. Margin + 0 = Margin
        OBVIOUS
      <3> QED BY Zenon, <2>1, <3>1, <3>2 DEF Account, HasLeaf
    <2> QED BY <2>1, <2>2, <2>3 DEF TimeInv
  <1>11. CASE Crash
    BY <1>11 DEF Crash, TimeInv
  <1>12. CASE Restart
    BY <1>12 DEF Restart, fileVars, TimeInv
  <1>13. CASE UNCHANGED vars
    BY Zenon, <1>13 DEF vars, fileVars, TimeInv, Account, HasLeaf
  <1> QED
    BY Zenon, <1>1, <1>2, <1>3, <1>4, <1>5, <1>6, <1>7, <1>8, <1>9, <1>10, <1>11,
       <1>12, <1>13 DEF Next

-----------------------------------------------------------------------------
(* The pair that is served.                                                *)

\* The two files are a pair, and all of it can be loaded.
GoodFiles == Leaf(certFile) = keyFile /\ ~CertLoadFails

FilesAreServed == served = [cert |-> certFile, key |-> keyFile]

\* The files as they are now are served, and no other key is known, if they are
\* a pair.
Follows == GoodFiles => FilesAreServed /\ wKey \in {Damaged, keyFile}

\* The watcher has loaded the certificate file, if it can be loaded.
CertKnown == ~CertLoadFails => wCert = <<certFile>>

\* What the proxy serves and what is queued for its watcher, wherever the
\* refresher is: a failing write queues what it closes, like one that succeeds.
FollowInv ==
    /\ booting \/ phase = "Down" => events = <<>>
    /\ ~booting /\ (phase \in {"Check", "Issue"} \/ (phase = "CertOpen" /\ written = 0)) =>
           events = <<>> /\ Follows
    /\ ~booting /\ phase = "CertOpen" => events = <<>>
    /\ ~booting /\ phase \in {"CertDone", "KeyOpen"} =>
           events \in {<<>>, <<"cert">>} /\ (events = <<>> => CertKnown)
    /\ phase = "Sleep" =>
           /\ ~booting
           /\ events \in {<<>>, <<"cert">>, <<"key">>, <<"cert", "key">>}
           /\ events \in {<<>>, <<"cert">>} => Follows
           /\ events = <<"key">> => CertKnown

\* A pair that can be loaded has a key and a leaf.
LEMMA GoodPair ==
    ASSUME FileInv, certFile # <<>>, GoodFiles
    PROVE  keyFile # Damaged /\ HasLeaf
  <1>1. 1 \in DOMAIN certFile /\ Head(certFile) = certFile[1]
    BY DEF FileInv
  <1>2. Head(certFile) # Damaged
    BY Zenon, <1>1 DEF GoodFiles, CertLoadFails
  <1> QED BY Zenon, <1>2 DEF GoodFiles, Leaf, HasLeaf

\* Two events in the queue of the watcher.
LEMMA TwoEvents ==
    ASSUME NEW a, NEW b PROVE Append(<<a>>, b) = <<a, b>>
  <1> DEFINE s == Append(<<a>>, b)
  <1>1. s \in Seq({a, b}) /\ <<a, b>> \in Seq({a, b})
    OBVIOUS
  <1>2. Len(s) = 2 /\ Len(<<a, b>>) = 2 /\ s[1] = a /\ s[2] = b
    OBVIOUS
  <1>3. \A i \in 1..2 : s[i] = <<a, b>>[i]
    BY <1>2
  <1> QED BY Zenon, <1>1, <1>2, <1>3, SeqEqual

\* The queues are different ones.
LEMMA Queues ==
    /\ <<"cert">> # <<>> /\ <<"key">> # <<>> /\ <<"cert", "key">> # <<>>
    /\ <<"cert">> # <<"key">>
    /\ <<"cert", "key">> # <<"cert">> /\ <<"cert", "key">> # <<"key">>
  <1> DEFINE two == <<"cert", "key">>
  <1>1. Len(two) = 2 /\ Len(<<"cert">>) = 1 /\ Len(<<"key">>) = 1 /\ Len(<<>>) = 0
    OBVIOUS
  <1>2. <<"cert">>[1] = "cert" /\ <<"key">>[1] = "key"
    OBVIOUS
  <1> HIDE DEF two
  <1>3. two # <<>> /\ two # <<"cert">> /\ two # <<"key">>
    BY <1>1
  <1> QED BY <1>1, <1>2, <1>3 DEF two

\* The queue of the key after the key file was closed.
LEMMA KeyQueued ==
    ASSUME SameDir, ~booting, Closed("key"), events \in {<<>>, <<"cert">>}
    PROVE  events' = IF events = <<>> THEN <<"key">> ELSE <<"cert", "key">>
  <1>1. events' = Append(events, "key")
    BY Zenon DEF Closed, parent_paths
  <1>2. CASE events = <<>>
    BY <1>1, <1>2
  <1>3. CASE events = <<"cert">>
    BY Zenon, <1>1, <1>3, TwoEvents, Queues
  <1> QED BY Zenon, <1>2, <1>3

\* The proxy starts with the files, if they are a pair.
LEMMA StartFollows ==
    ASSUME FileInv, certFile # <<>>, UNCHANGED certFile, StartProxy(certFile, keyFile'),
           FileInv'
    PROVE  events' = <<>> /\ Follows'
  <1>1. events' = <<>> /\ wKey' = Damaged
    BY Zenon DEF StartProxy
  <1>2. ASSUME GoodFiles' PROVE FilesAreServed'
    <2>1. keyFile' # Damaged
      <3>1. 1 \in DOMAIN certFile' /\ Head(certFile') = certFile'[1]
        BY DEF FileInv
      <3> QED BY Zenon, <1>2, <3>1 DEF GoodFiles, Leaf, CertLoadFails
    <2>2. ~CertLoadFails
      BY Zenon, <1>2 DEF GoodFiles, CertLoadFails
    <2> QED BY Zenon, <2>1, <2>2 DEF StartProxy, FilesAreServed
  <1> QED BY Zenon, <1>1, <1>2 DEF Follows

\* A renewal with a failing write leaves files that are not a pair, unless the
\* write failed before anything was changed.
LEMMA FailedWriteLeaves ==
    ASSUME FileInv, WriteFails, GoodFiles', certFile # <<>>
    PROVE  phase = "CertOpen" /\ written = 0 /\ certFile' = certFile /\ GoodFiles
  <1>1. UNCHANGED <<issued, keyFile, written>> /\ Torn
        /\ phase \in {"CertOpen", "CertDone", "KeyOpen"}
    BY Zenon DEF WriteFails
  <1>2. /\ certFile' \in Seq(0..MaxIssues) /\ certFile' # <<>>
        /\ phase = "CertOpen" /\ written > 0 => Head(certFile') = Head(certFile)
        /\ phase # "CertOpen" => certFile' = certFile
        /\ written = 0 => certFile' = certFile \/ Head(certFile') = Damaged
    BY Zenon, <1>1, TornChain
  <1>3. Head(certFile') = keyFile
    BY Zenon, <1>1 DEF GoodFiles, Leaf
  <1>4. Head(certFile') # Damaged
    <2>1. 1 \in DOMAIN certFile' /\ Head(certFile') = certFile'[1]
      BY <1>2
    <2> QED BY Zenon, <2>1 DEF GoodFiles, CertLoadFails
  <1>5. CASE phase = "CertOpen" /\ written = 0
    BY Zenon, <1>1, <1>2, <1>4, <1>5 DEF GoodFiles, Leaf, CertLoadFails
  <1>6. CASE phase = "CertOpen" /\ written # 0
    BY <1>2, <1>3, <1>6 DEF FileInv, LeafIs
  <1>7. CASE phase = "CertDone"
    BY <1>2, <1>3, <1>7 DEF FileInv, LeafIs
  <1>8. CASE phase = "KeyOpen"
    BY <1>3, <1>4, <1>8 DEF FileInv
  <1> QED BY Zenon, <1>1, <1>5, <1>6, <1>7, <1>8

\* Every step keeps what is served and queued in order.
LEMMA FollowNext ==
    ASSUME FileInv, FileInv', FollowInv, SameDir, [Next]_vars
    PROVE  FollowInv'
  <1>1. CASE refresh_if_not_valid
    <2>1. phase = "Check" /\ UNCHANGED <<certFile, keyFile, written>>
      BY Zenon, <1>1 DEF refresh_if_not_valid, fileVars
    <2>2. CASE phase' = "Issue" /\ UNCHANGED <<booting, proxyVars>>
      BY Zenon, <2>1, <2>2 DEF FollowInv, Follows, GoodFiles, CertLoadFails, FilesAreServed,
         proxyVars
    <2>3. CASE IsValid /\ Returned /\ booting
      <3>1. certFile # <<>>
        BY Zenon, <2>3 DEF IsValid, HasLeaf
      <3>2. ~booting' /\ phase' = "Check" /\ StartProxy(certFile, keyFile')
        BY Zenon, <2>1, <2>3 DEF Returned
      <3>3. events' = <<>> /\ Follows'
        BY <2>1, <3>1, <3>2, StartFollows
      <3> QED BY <3>2, <3>3 DEF FollowInv
    <2>4. CASE Returned /\ ~booting
      <3>1. phase' = "Sleep" /\ UNCHANGED <<booting, events, wKey, wCert, served>>
        BY Zenon, <2>4 DEF Returned, proxyVars
      <3>2. events' = <<>> /\ Follows'
        BY Zenon, <2>1, <2>4, <3>1 DEF FollowInv, Follows, GoodFiles, CertLoadFails,
           FilesAreServed
      <3> QED BY <2>4, <3>1, <3>2, Queues DEF FollowInv
    <2> QED BY Zenon, <1>1, <2>2, <2>3, <2>4 DEF refresh_if_not_valid
  <1>2. CASE OpenCert
    <2>1. /\ phase = "Issue" /\ phase' = "CertOpen"
          /\ UNCHANGED <<booting, certFile, keyFile, events, wKey, served>>
      BY Zenon, <1>2 DEF OpenCert, proxyVars
    <2>2. ~booting => events = <<>> /\ Follows'
      BY Zenon, <2>1 DEF FollowInv, Follows, GoodFiles, CertLoadFails, FilesAreServed
    <2> QED BY <2>1, <2>2 DEF FollowInv
  <1>3. CASE IssueFails
    <2>1. /\ phase = "Issue"
          /\ UNCHANGED <<booting, certFile, keyFile, events, wKey, wCert, served>>
      BY Zenon, <1>3 DEF IssueFails, fileVars, proxyVars
    <2>2. (~booting /\ phase' = "Sleep") \/ (booting /\ phase' \in {"Down", "Check"})
      BY Zenon, <1>3 DEF IssueFails, ErrorReturned
    <2>3. ~booting => events = <<>> /\ Follows'
      BY Zenon, <2>1 DEF FollowInv, Follows, GoodFiles, CertLoadFails, FilesAreServed
    <2>4. booting => events = <<>>
      BY Zenon DEF FollowInv
    <2> QED BY <2>1, <2>2, <2>3, <2>4, Queues DEF FollowInv
  <1>4. CASE WriteBlock
    <2>1. /\ phase = "CertOpen" /\ UNCHANGED <<phase, booting, events>>
      BY Zenon, <1>4 DEF WriteBlock, proxyVars
    <2>2. written' # 0
      BY <1>4, BlockWritten
    <2> QED BY <2>1, <2>2 DEF FollowInv
  <1>5. CASE CloseCert
    <2>1. phase = "CertOpen" /\ phase' = "CertDone" /\ UNCHANGED booting
      BY Zenon, <1>5 DEF CloseCert
    <2>2. events = <<>>
      BY Zenon, <2>1 DEF FollowInv
    <2>3. events' = IF booting THEN <<>> ELSE <<"cert">>
      <3>1. events' = IF booting THEN events ELSE Append(events, "cert")
        BY Zenon, <1>5 DEF CloseCert, Closed, parent_paths
      <3> QED BY <2>2, <3>1
    <2> QED BY <2>1, <2>3, Queues DEF FollowInv
  <1>6. CASE OpenKey
    <2>1. /\ phase = "CertDone" /\ phase' = "KeyOpen"
          /\ UNCHANGED <<booting, certFile, events, wCert>>
      BY Zenon, <1>6 DEF OpenKey, proxyVars
    <2> QED BY <2>1 DEF FollowInv, CertKnown, CertLoadFails
  <1>7. CASE CloseKey
    <2>1. phase = "KeyOpen" /\ keyFile' = issued /\ UNCHANGED certFile
      BY Zenon, <1>7 DEF CloseKey
    <2>2. CASE booting
      <3>1. ~booting' /\ phase' = "Check" /\ StartProxy(certFile, keyFile')
        BY Zenon, <1>7, <2>1, <2>2 DEF CloseKey
      <3>2. certFile # <<>>
        BY <2>1 DEF FileInv, LeafIs
      <3>3. events' = <<>> /\ Follows'
        BY <2>1, <3>1, <3>2, StartFollows
      <3> QED BY <3>1, <3>3 DEF FollowInv
    <2>3. CASE ~booting
      <3>1. ~booting' /\ phase' = "Sleep" /\ Closed("key") /\ UNCHANGED wCert
        BY Zenon, <1>7, <2>3 DEF CloseKey
      <3>2. events \in {<<>>, <<"cert">>} /\ (events = <<>> => CertKnown)
        BY <2>1, <2>3 DEF FollowInv
      <3>3. events' = IF events = <<>> THEN <<"key">> ELSE <<"cert", "key">>
        BY <2>3, <3>1, <3>2, KeyQueued
      <3>4. events = <<>> => CertKnown'
        BY Zenon, <2>1, <3>1, <3>2 DEF CertKnown, CertLoadFails
      <3> QED BY Zenon, <3>1, <3>3, <3>4, Queues DEF FollowInv
    <2> QED BY <2>2, <2>3
  <1>8. CASE WriteFails
    <2>1. /\ phase \in {"CertOpen", "CertDone", "KeyOpen"}
          /\ UNCHANGED <<booting, keyFile, wKey, wCert, served>>
      BY Zenon, <1>8 DEF WriteFails
    <2>2. CASE booting /\ phase' \in {"Down", "Check"}
      <3>1. events = <<>>
        BY Zenon, <2>2 DEF FollowInv
      <3>2. events' = <<>>
        BY Zenon, <1>8, <2>2, <3>1 DEF WriteFails, Closed
      <3> QED BY <2>1, <2>2, <3>2 DEF FollowInv
    <2>3. CASE ~booting /\ phase' = "Sleep"
      <3>1. certFile # <<>>
        BY Zenon, <2>3 DEF FileInv
      <3>2. Follows'
        <4>1. ASSUME GoodFiles' PROVE FilesAreServed' /\ wKey' \in {Damaged, keyFile'}
          <5>1. phase = "CertOpen" /\ written = 0 /\ certFile' = certFile /\ GoodFiles
            BY <1>8, <3>1, <4>1, FailedWriteLeaves
          <5> QED BY Zenon, <2>1, <2>3, <5>1 DEF FollowInv, Follows, FilesAreServed
        <4> QED BY Zenon, <4>1 DEF Follows
      <3>3. CASE phase = "CertOpen"
        <4>1. events' = Append(events, "cert")
          BY <1>8, <2>3, <3>3 DEF WriteFails, Closed, parent_paths
        <4>2. events' = <<"cert">>
          BY <2>3, <3>3, <4>1 DEF FollowInv
        <4> QED BY Zenon, <2>1, <2>3, <3>2, <4>2, Queues DEF FollowInv
      <3>4. CASE phase = "CertDone"
        <4>1. events' = events
          BY <1>8, <3>4 DEF WriteFails
        <4>2. events \in {<<>>, <<"cert">>}
          BY <2>3, <3>4 DEF FollowInv
        <4> QED BY Zenon, <2>1, <2>3, <3>2, <4>1, <4>2, Queues DEF FollowInv
      <3>5. CASE phase = "KeyOpen"
        <4>1. Closed("key")
          BY <1>8, <3>5 DEF WriteFails
        <4>2. events \in {<<>>, <<"cert">>} /\ (events = <<>> => CertKnown)
          BY <2>3, <3>5 DEF FollowInv
        <4>3. events' = IF events = <<>> THEN <<"key">> ELSE <<"cert", "key">>
          BY <2>3, <4>1, <4>2, KeyQueued
        <4>4. certFile' = certFile
          BY <1>8, <3>5, TornChain DEF WriteFails
        <4>5. events = <<>> => CertKnown'
          BY Zenon, <2>1, <4>2, <4>4 DEF CertKnown, CertLoadFails
        <4> QED BY Zenon, <2>1, <2>3, <4>3, <4>5, Queues DEF FollowInv
      <3> QED BY Zenon, <2>1, <3>3, <3>4, <3>5
    <2> QED BY Zenon, <1>8, <2>2, <2>3 DEF WriteFails, ErrorReturned
  <1>9. CASE HandleEvent
    <2>1. /\ events # <<>> /\ events' = Tail(events)
          /\ UNCHANGED <<phase, booting, certFile, keyFile, written>>
      BY Zenon, <1>9 DEF HandleEvent, fileVars
    <2>2. ~booting /\ phase \in {"CertDone", "KeyOpen", "Sleep"} /\ certFile # <<>>
      BY <2>1 DEF FollowInv, FileInv, Phase
    <2>3. CASE phase \in {"CertDone", "KeyOpen"}
      <3>1. events = <<"cert">>
        BY <2>1, <2>2, <2>3 DEF FollowInv
      <3>2. CertKnown'
        BY <1>9, <2>1, <3>1 DEF HandleEvent, LoadedCert, CertKnown, CertLoadFails
      <3>3. events' = <<>>
        BY <2>1, <3>1
      <3> QED BY <2>1, <2>2, <2>3, <3>2, <3>3 DEF FollowInv
    <2>4. CASE phase = "Sleep" /\ events = <<"cert", "key">>
      <3>1. CertKnown'
        BY <1>9, <2>1, <2>4 DEF HandleEvent, LoadedCert, CertKnown, CertLoadFails
      <3>2. events' = <<"key">>
        BY <2>1, <2>4
      <3> QED BY Zenon, <2>1, <2>2, <2>4, <3>1, <3>2, Queues DEF FollowInv
    <2>5. CASE phase = "Sleep" /\ events = <<"key">>
      <3>1. ASSUME GoodFiles PROVE FilesAreServed' /\ wKey' = keyFile'
        <4>1. keyFile # Damaged
          BY <2>2, <3>1, GoodPair
        <4>2. wCert = <<certFile>>
          BY Zenon, <2>5, <3>1 DEF FollowInv, CertKnown, GoodFiles
        <4>3. wKey' = keyFile /\ wCert' = <<certFile>> /\ PassOn
          BY <1>9, <2>5, <4>1, <4>2 DEF HandleEvent, LoadedKey
        <4>4. Head(wCert') = certFile /\ wCert' # <<>>
          BY <4>3
        <4> QED BY Zenon, <2>1, <4>1, <4>3, <4>4 DEF PassOn, FilesAreServed
      <3>2. Follows'
        BY Zenon, <2>1, <3>1 DEF Follows, GoodFiles, CertLoadFails
      <3>3. events' = <<>>
        BY <2>1, <2>5
      <3> QED BY Zenon, <2>1, <2>2, <2>5, <3>2, <3>3, Queues DEF FollowInv
    <2>6. CASE phase = "Sleep" /\ events = <<"cert">>
      <3>1. ASSUME GoodFiles PROVE FilesAreServed' /\ wKey' \in {Damaged, keyFile'}
        <4>1. FilesAreServed /\ wKey \in {Damaged, keyFile}
          BY Zenon, <2>6, <3>1, Queues DEF FollowInv, Follows
        <4>2. wKey' = wKey /\ wCert' = <<certFile>> /\ PassOn
          BY <1>9, <2>6, <3>1 DEF HandleEvent, LoadedCert, GoodFiles
        <4>3. Head(wCert') = certFile /\ wCert' # <<>>
          BY <4>2
        <4> QED BY Zenon, <2>1, <4>1, <4>2, <4>3 DEF PassOn, FilesAreServed
      <3>2. Follows'
        BY Zenon, <2>1, <3>1 DEF Follows, GoodFiles, CertLoadFails
      <3>3. events' = <<>>
        BY <2>1, <2>6
      <3> QED BY Zenon, <2>1, <2>2, <2>6, <3>2, <3>3, Queues DEF FollowInv
    <2> QED BY Zenon, <2>1, <2>2, <2>3, <2>4, <2>5, <2>6 DEF FollowInv
  <1>10. CASE Round
    <2>1. /\ events = <<>> /\ UNCHANGED <<booting, certFile, keyFile, events, wKey, served>>
          /\ \/ phase = "Sleep" /\ phase' = "Check"
             \/ phase = "Down" /\ phase' = "Down"
      BY <1>10 DEF Round, proxyVars
    <2>2. phase = "Sleep" => Follows'
      BY Zenon, <2>1 DEF FollowInv, Follows, GoodFiles, CertLoadFails, FilesAreServed
    <2> QED BY <2>1, <2>2 DEF FollowInv
  <1>11. CASE Crash
    BY <1>11 DEF Crash, FollowInv
  <1>12. CASE Restart
    <2>1. phase = "Down" /\ phase' = "Check" /\ booting' /\ events' = events
      BY Zenon, <1>12 DEF Restart, proxyVars
    <2> QED BY <2>1 DEF FollowInv
  <1>13. CASE UNCHANGED vars
    BY Zenon, <1>13 DEF vars, fileVars, proxyVars, FollowInv, Follows, GoodFiles,
       CertLoadFails, FilesAreServed, CertKnown
  <1> QED
    BY Zenon, <1>1, <1>2, <1>3, <1>4, <1>5, <1>6, <1>7, <1>8, <1>9, <1>10, <1>11,
       <1>12, <1>13 DEF Next

RefreshInv == FileInv /\ TimeInv /\ (SameDir => FollowInv)

\* The refresher, its files and the proxy stay in order.
THEOREM RefreshHolds == Spec => []RefreshInv
  <1>1. Init => RefreshInv
    <2> SUFFICES ASSUME Init PROVE RefreshInv
      OBVIOUS
    <2>1. FileInv
      BY CertNumbers DEF Init, FileInv, Damaged, Phase
    <2>2. TimeInv
      BY CertNumbers DEF Init, TimeInv
    <2>3. FollowInv
      BY DEF Init, FollowInv
    <2> QED BY <2>1, <2>2, <2>3 DEF RefreshInv
  <1>2. RefreshInv /\ [Next]_vars => RefreshInv'
    <2> SUFFICES ASSUME RefreshInv, [Next]_vars PROVE RefreshInv'
      OBVIOUS
    <2>1. FileInv'
      BY FileNext DEF RefreshInv
    <2>2. TimeInv'
      BY TimeNext DEF RefreshInv
    <2>3. SameDir => FollowInv'
      BY <2>1, FollowNext DEF RefreshInv
    <2> QED BY <2>1, <2>2, <2>3 DEF RefreshInv
  <1> QED BY <1>1, <1>2, PTL DEF Spec

\* ExpiredMeansFailing: however often the process dies and files cannot be written,
\* with both files in one directory the proxy serves a certificate that has not
\* expired when a round has ended, unless every attempt since the leaf in the file
\* came within the margin of refresh_loop has failed, or the files are no pair.
THEOREM ExpiryHasACause == Spec => []ExpiredMeansFailing
  <1>1. RefreshInv => ExpiredMeansFailing
    <2> SUFFICES ASSUME RefreshInv, Settled, SameDir, GoodFiles, failedRun <= Margin
                 PROVE  served # NoPair /\ left[Leaf(served.cert)] > 0
      BY CertNumbers DEF ExpiredMeansFailing, GoodFiles, RefreshInv, TimeInv
    <2>1. ~booting /\ FilesAreServed /\ Account(1)
      BY Zenon DEF RefreshInv, FollowInv, Follows, TimeInv, Settled
    <2>2. certFile # <<>>
      BY Zenon, <2>1 DEF RefreshInv, FileInv
    <2>3. HasLeaf
      BY <2>2, GoodPair DEF RefreshInv
    <2>4. left[Head(certFile)] \in Nat /\ left[Head(certFile)] + failedRun >= Margin + 1
      BY <2>1, <2>3, LeafIssue DEF RefreshInv, Account
    <2>5. left[Head(certFile)] > 0
      BY <2>4, CertNumbers DEF RefreshInv, TimeInv
    <2>6. served.cert = certFile
      BY <2>1 DEF FilesAreServed
    <2>7. NoPair.cert = <<>>
      BY DEF NoPair
    <2> QED BY Zenon, <2>2, <2>5, <2>6, <2>7 DEF Leaf
  <1> QED BY <1>1, RefreshHolds, PTL

-----------------------------------------------------------------------------
(* The pair that is served, without crashes and write errors.              *)

NoFaults == SameDir /\ crashes = 0 /\ writeErrors = 0

\* Every chain is written to its end, and then its key.
PairInv ==
    /\ ~CertLoadFails
    /\ phase = "Down" => booting
    /\ booting /\ phase \in {"Down", "Check", "Issue"} => certFile = <<>>
    /\ ~booting /\ phase \in {"Check", "Issue", "Sleep"} => LeafIs(keyFile)

\* A sequence of issues has no damaged block.
LEMMA NoDamage ==
    ASSUME NEW n \in Nat, NEW s \in Seq(1..n)
    PROVE  Damaged \notin {s[i] : i \in DOMAIN s}
  <1>1. \A i \in DOMAIN s : s[i] # 0
    OBVIOUS
  <1> QED BY Zenon, <1>1 DEF Damaged

\* A chain without a damaged block is a sequence of issues.
LEMMA SoundChain ==
    ASSUME FileInv
    PROVE  ~CertLoadFails <=> certFile \in Seq(1..MaxIssues)
  <1>1. certFile \in Seq(0..MaxIssues) /\ MaxIssues \in Nat
    BY CertNumbers DEF FileInv
  <1>2. ASSUME ~CertLoadFails PROVE certFile \in Seq(1..MaxIssues)
    <2>1. \A i \in DOMAIN certFile : certFile[i] # 0
      BY Zenon, <1>2 DEF CertLoadFails, Damaged
    <2>2. \A i \in 1..Len(certFile) : certFile[i] \in 1..MaxIssues
      BY <1>1, <2>1
    <2> QED BY <1>1, <2>2
  <1>3. ASSUME certFile \in Seq(1..MaxIssues) PROVE ~CertLoadFails
    BY Zenon, <1>1, <1>3, NoDamage DEF CertLoadFails
  <1> QED BY <1>2, <1>3

\* Every step but a crash and a failing write keeps the pair.
LEMMA PairStep ==
    ASSUME FileInv, TimeInv, PairInv,
           \/ refresh_if_not_valid \/ OpenCert \/ IssueFails \/ WriteBlock \/ CloseCert
           \/ OpenKey \/ CloseKey \/ HandleEvent \/ Round \/ Restart \/ UNCHANGED vars
    PROVE  PairInv'
  <1>1. CASE refresh_if_not_valid
    <2>1. phase = "Check" /\ UNCHANGED <<certFile, keyFile>>
      BY Zenon, <1>1 DEF refresh_if_not_valid, fileVars
    <2>2. CASE phase' = "Issue" /\ booting' = booting
      BY Zenon, <2>1, <2>2 DEF PairInv, CertLoadFails, LeafIs
    <2>3. CASE IsValid /\ Returned
      <3>1. ~booting
        BY Zenon, <2>1, <2>3 DEF PairInv, IsValid, HasLeaf
      <3>2. phase' = "Sleep" /\ booting' = booting
        BY Zenon, <2>3, <3>1 DEF Returned
      <3> QED BY Zenon, <2>1, <3>1, <3>2 DEF PairInv, CertLoadFails, LeafIs
    <2> QED BY Zenon, <1>1, <2>2, <2>3 DEF refresh_if_not_valid
  <1>2. CASE OpenCert
    BY <1>2 DEF OpenCert, PairInv, CertLoadFails
  <1>3. CASE IssueFails
    <2>1. phase = "Issue" /\ UNCHANGED <<booting, certFile, keyFile>>
      BY Zenon, <1>3 DEF IssueFails, fileVars
    <2>2. (~booting /\ phase' = "Sleep") \/ (booting /\ phase' \in {"Down", "Check"})
      BY Zenon, <1>3 DEF IssueFails, ErrorReturned
    <2> QED BY <2>1, <2>2 DEF PairInv, CertLoadFails, LeafIs
  <1>4. CASE WriteBlock
    <2>1. /\ phase = "CertOpen" /\ phase' = "CertOpen" /\ certFile' \in Overwritten(issued)
      BY Zenon, <1>4 DEF WriteBlock
    <2>2. /\ certFile \in Seq(1..MaxIssues) /\ issued \in 1..MaxIssues
          /\ written \in Nat /\ written <= Len(certFile)
      BY <2>1, SoundChain DEF PairInv, FileInv
    <2>3. certFile' \in Seq(1..MaxIssues)
      BY Zenon, <2>1, <2>2, OverwrittenChain
    <2>4. ~CertLoadFails'
      BY Zenon, <2>3, NoDamage, CertNumbers DEF CertLoadFails
    <2> QED BY <2>1, <2>4 DEF PairInv
  <1>5. CASE CloseCert
    BY <1>5 DEF CloseCert, fileVars, PairInv, CertLoadFails
  <1>6. CASE OpenKey
    BY <1>6 DEF OpenKey, PairInv, CertLoadFails
  <1>7. CASE CloseKey
    <2>1. /\ phase = "KeyOpen" /\ keyFile' = issued /\ UNCHANGED certFile
          /\ ~booting' /\ phase' \in {"Check", "Sleep"}
      BY Zenon, <1>7 DEF CloseKey
    <2>2. LeafIs(issued)
      BY <2>1 DEF FileInv
    <2> QED BY <2>1, <2>2 DEF PairInv, CertLoadFails, LeafIs
  <1>8. CASE HandleEvent
    <2>1. UNCHANGED <<phase, booting, certFile, keyFile>>
      BY Zenon, <1>8 DEF HandleEvent, fileVars
    <2> QED BY Zenon, <2>1 DEF PairInv, CertLoadFails, LeafIs
  <1>9. CASE Round
    <2>1. /\ UNCHANGED <<booting, certFile, keyFile>>
          /\ \/ phase = "Sleep" /\ phase' = "Check"
             \/ phase = "Down" /\ phase' = "Down"
      BY <1>9 DEF Round
    <2>2. phase = "Sleep" => ~booting
      BY Zenon DEF TimeInv
    <2> QED BY <2>1, <2>2 DEF PairInv, CertLoadFails, LeafIs
  <1>10. CASE Restart
    BY <1>10 DEF Restart, PairInv, CertLoadFails, fileVars
  <1>11. CASE UNCHANGED vars
    BY Zenon, <1>11 DEF vars, fileVars, PairInv, CertLoadFails, LeafIs
  <1> QED
    BY Zenon, <1>1, <1>2, <1>3, <1>4, <1>5, <1>6, <1>7, <1>8, <1>9, <1>10, <1>11

\* The pair holds until something goes wrong.
SoundUntilFault ==
    crashes \in Nat /\ writeErrors \in Nat /\ (NoFaults => PairInv)

\* SettledPairMatches: with both files in one directory, no crash and no failing
\* write, once the watcher has handled its events it serves what the files hold,
\* and the leaf is of the key, for chains of any length and any number of renewals.
THEOREM SettledPairIsServed == Spec => []SettledPairMatches
  <1>1. Init => SoundUntilFault
    BY DEF Init, SoundUntilFault, PairInv, CertLoadFails
  <1>2. RefreshInv /\ SoundUntilFault /\ [Next]_vars => SoundUntilFault'
    <2> SUFFICES ASSUME RefreshInv, SoundUntilFault, [Next]_vars PROVE SoundUntilFault'
      OBVIOUS
    <2>1. CASE Crash
      BY <2>1 DEF Crash, SoundUntilFault, NoFaults
    <2>2. CASE WriteFails
      BY <2>2 DEF WriteFails, SoundUntilFault, NoFaults
    <2>3. CASE \/ refresh_if_not_valid \/ OpenCert \/ IssueFails \/ WriteBlock \/ CloseCert
               \/ OpenKey \/ CloseKey \/ HandleEvent \/ Round \/ Restart \/ UNCHANGED vars
      <3>1. UNCHANGED faultVars
        BY Zenon, <2>3 DEF refresh_if_not_valid, OpenCert, IssueFails, WriteBlock, CloseCert,
           OpenKey, CloseKey, HandleEvent, Round, Restart, vars
      <3>2. PairInv => PairInv'
        BY Zenon, <2>3, PairStep DEF RefreshInv
      <3> QED BY Zenon, <3>1, <3>2 DEF SoundUntilFault, NoFaults, faultVars
    <2> QED BY Zenon, <2>1, <2>2, <2>3 DEF Next
  <1>3. RefreshInv /\ SoundUntilFault => SettledPairMatches
    <2> SUFFICES ASSUME RefreshInv, SoundUntilFault, Settled, NoFaults
                 PROVE  FilesAreServed /\ Leaf(certFile) = keyFile
      BY Zenon DEF SettledPairMatches, NoFaults, FilesAreServed
    <2>1. ~booting /\ Follows
      BY Zenon DEF RefreshInv, FollowInv, Settled, NoFaults
    <2>2. LeafIs(keyFile) /\ ~CertLoadFails
      BY Zenon, <2>1 DEF SoundUntilFault, PairInv, Settled
    <2> QED BY Zenon, <2>1, <2>2 DEF LeafIs, Leaf, Follows, GoodFiles
  <1> QED BY <1>1, <1>2, <1>3, RefreshHolds, PTL DEF Spec
=============================================================================
