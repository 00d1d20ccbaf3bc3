---------------------------- MODULE CertRefresh -----------------------------
(***************************************************************************)
(* The certificate of the proxy: the refresher (drone/src/cert/mod.rs)     *)
(* that issues a certificate and writes it and its key to two files, at    *)
(* start (drone/src/run.rs) and in a loop, and the proxy's watcher         *)
(* (drone/src/proxy/certs.rs), on a thread of its own, that loads them.    *)
(* A key is the number of its issue, a certificate chain the sequence of   *)
(* the issues its blocks are from, the leaf first; Damaged is a block, a   *)
(* file or a variable without usable content.  Time passes in rounds of    *)
(* refresh_loop.                                                           *)
(***************************************************************************)
EXTENDS Naturals, Sequences

CONSTANTS Lifetime,      \* rounds a certificate is valid for
          Margin,        \* REFRESH_MARGIN in rounds
          BootAttempts,  \* the retries in drone_main (5)
          SameDir,       \* are key and certificate in one directory?
          MaxChain,      \* bound: certificates in a chain
          MaxIssues,     \* bound: certificates issued
          MaxCrashes,    \* bound: the process is killed
          MaxWriteErrors \* bound: a file cannot be written

ASSUME CertAssumption ==
    /\ {Lifetime, Margin, BootAttempts, MaxChain} \subseteq Nat \ {0}
    /\ {MaxIssues, MaxCrashes, MaxWriteErrors} \subseteq Nat
    /\ Margin < Lifetime
    /\ SameDir \in BOOLEAN

VARIABLES
    phase,     \* where the refresher is
    booting,   \* in drone_main, before the proxy starts
    attempt,   \* of do_with_retry
    issued,    \* certificates issued so far
    certFile, keyFile,
    written, toWrite,  \* blocks of the chain being written
    left,      \* [issue -> rounds until its certificate expires]
    events,    \* close-after-write events not yet handled by the watcher
    wKey, wCert,   \* the closure's variables; wCert: none or one chain
    served,    \* what the resolver returns: [cert, key], or NoPair
    failedRun, \* attempts in a row without a certificate, up to Margin + 1
    crashes, writeErrors

fileVars == <<issued, certFile, keyFile, written, toWrite, left>>
proxyVars == <<events, wKey, wCert, served>>
faultVars == <<crashes, writeErrors>>
vars == <<phase, booting, attempt, fileVars, proxyVars, failedRun, faultVars>>

Phase == {"Down", "Check", "Issue", "CertOpen", "CertDone", "KeyOpen", "Sleep"}
Damaged == 0
NoPair == [cert |-> <<>>, key |-> Damaged]
Chain == Seq(0..MaxIssues)

TypeOK ==
    /\ phase \in Phase
    /\ booting \in BOOLEAN
    /\ attempt \in 1..BootAttempts
    /\ {issued, keyFile, wKey} \subseteq 0..MaxIssues
    /\ certFile \in Chain /\ wCert \in Seq(Chain)
    /\ {written, toWrite} \subseteq 0..MaxChain
    /\ left \in [1..MaxIssues -> 0..Lifetime]
    /\ events \in Seq({"cert", "key"})
    /\ served \in [cert : Chain, key : 0..MaxIssues]
    /\ failedRun \in 0..Margin + 1
    /\ crashes \in 0..MaxCrashes
    /\ writeErrors \in 0..MaxWriteErrors

Init ==
    /\ phase = "Check" /\ booting = TRUE /\ attempt = 1
    /\ issued = 0 /\ certFile = <<>> /\ keyFile = Damaged
    /\ written = 0 /\ toWrite = 0
    /\ left = [i \in 1..MaxIssues |-> 0]
    /\ events = <<>> /\ wKey = Damaged /\ wCert = <<>> /\ served = NoPair
    /\ failedRun = 0 /\ crashes = 0 /\ writeErrors = 0

-----------------------------------------------------------------------------
(* The refresher *)

\* load_certs takes the blocks as they are; a damaged one may be one that does
\* not end, which is an error, and no blocks at all is none.
CertLoadFails == Damaged \in {certFile[i] : i \in DOMAIN certFile}

\* serve: load_certified_key reads both files as they are, without comparing
\* them, and the watcher starts with empty variables.
StartProxy(cert, key) ==
    /\ events' = <<>> /\ wKey' = Damaged /\ wCert' = <<>>
    /\ \/ key # Damaged /\ served' = [cert |-> cert, key |-> key]
       \/ (key = Damaged \/ CertLoadFails) /\ served' = NoPair

\* The call of refresh_if_not_valid has returned: in drone_main the loops are
\* started, and refresh_loop makes its first call; in refresh_loop it sleeps.
Returned ==
    IF booting
    THEN booting' = FALSE /\ phase' = "Check" /\ StartProxy(certFile, keyFile)
    ELSE phase' = "Sleep" /\ UNCHANGED <<booting, proxyVars>>

\* cert_validity parses the first block.
HasLeaf == certFile # <<>> /\ Head(certFile) # Damaged

\* Mutated form: the margin is forgotten.
MutIsValid == HasLeaf /\ left[Head(certFile)] > 0

\* The leaf parses and is not due: the key is not looked at.
IsValid == HasLeaf /\ left[Head(certFile)] > Margin

refresh_if_not_valid ==
    /\ phase = "Check"
    /\ \/ IsValid /\ Returned
       \/ ~IsValid /\ phase' = "Issue" /\ UNCHANGED <<booting, proxyVars>>
    /\ UNCHANGED <<attempt, fileVars, failedRun, faultVars>>

\* get_certificate succeeds, and the certificate file is opened, created if it
\* is not there, but not truncated.
OpenCert ==
    /\ phase = "Issue" /\ issued < MaxIssues
    /\ phase' = "CertOpen"
    /\ issued' = issued + 1
    /\ left' = [left EXCEPT ![issued + 1] = Lifetime]
    /\ written' = 0 /\ toWrite' \in 1..MaxChain
    /\ UNCHANGED <<booting, attempt, certFile, keyFile, proxyVars, failedRun, faultVars>>

\* Block number `written + 1` of the file is replaced by b.  What follows it
\* stays, except that a longer block takes the head of the next one, whose rest
\* is not read as a block.
Overwritten(b) ==
    LET before == SubSeq(certFile, 1, written)
        behind == SubSeq(certFile, written + 2, Len(certFile))
    IN {before \o <<b>> \o behind} \cup
       {before \o <<b>> \o Tail(behind) : x \in {1} \cap DOMAIN behind}

\* A block is written.  The first one is the leaf: with it the attempt counts.
WriteBlock ==
    /\ phase = "CertOpen" /\ toWrite > 0
    /\ certFile' \in Overwritten(issued)
    /\ written' = written + 1 /\ toWrite' = toWrite - 1
    /\ failedRun' = IF written = 0 THEN 0 ELSE failedRun
    /\ UNCHANGED <<phase, booting, attempt, issued, keyFile, left, proxyVars, faultVars>>

OneMoreFailure == IF failedRun <= Margin THEN failedRun + 1 ELSE failedRun

\* refresh_if_not_valid has returned an error: drone_main tries again and in
\* the end gives up, refresh_loop sleeps.
ErrorReturned ==
    IF ~booting THEN phase' = "Sleep" /\ UNCHANGED attempt
    ELSE IF attempt >= BootAttempts THEN phase' = "Down" /\ UNCHANGED attempt
    ELSE phase' = "Check" /\ attempt' = attempt + 1

\* get_certificate fails, or the certificate file cannot be opened.
IssueFails ==
    /\ phase = "Issue"
    /\ failedRun' = OneMoreFailure
    /\ ErrorReturned
    /\ UNCHANGED <<booting, fileVars, proxyVars, faultVars>>

\* The watcher gets the event if it runs and watches the file's directory.
\* parent_paths looks at the directory of the key only.
parent_paths == {"key"} \cup (IF SameDir THEN {"cert"} ELSE {})

Closed(file) ==
    events' = IF ~booting /\ file \in parent_paths THEN Append(events, file)
              ELSE events

CloseCert ==
    /\ phase = "CertOpen" /\ toWrite = 0
    /\ phase' = "CertDone"
    /\ Closed("cert")
    /\ UNCHANGED <<booting, attempt, fileVars, wKey, wCert, served, failedRun,
                   faultVars>>

\* fs::write truncates the key file ...
OpenKey ==
    /\ phase = "CertDone"
    /\ phase' = "KeyOpen"
    /\ keyFile' = Damaged
    /\ UNCHANGED <<booting, attempt, issued, certFile, written, toWrite, left,
                   proxyVars, failedRun, faultVars>>

\* ... and writes it; refresh_if_not_valid returns.
CloseKey ==
    /\ phase = "KeyOpen"
    /\ keyFile' = issued
    /\ IF booting
       THEN booting' = FALSE /\ phase' = "Check" /\ StartProxy(certFile, issued)
       ELSE /\ phase' = "Sleep"
            /\ Closed("key")
            /\ UNCHANGED <<booting, wKey, wCert, served>>
    /\ UNCHANGED <<attempt, issued, certFile, written, toWrite, left, failedRun,
                   faultVars>>

\* A write or the process stops in the middle of a block.
Torn ==
    IF phase = "CertOpen" /\ toWrite > 0
    THEN certFile' \in {certFile} \cup Overwritten(Damaged)
    ELSE UNCHANGED certFile

\* A write fails: a file that was opened is closed as it is, and the files
\* written before stay.
WriteFails ==
    /\ phase \in {"CertOpen", "CertDone", "KeyOpen"}
    /\ phase = "CertOpen" => toWrite > 0
    /\ writeErrors < MaxWriteErrors
    /\ writeErrors' = writeErrors + 1
    /\ ErrorReturned
    /\ Torn
    /\ \/ /\ phase = "CertOpen"
          /\ Closed("cert")
          /\ failedRun' = IF written = 0 THEN OneMoreFailure ELSE failedRun
       \/ phase = "CertDone" /\ UNCHANGED <<events, failedRun>>
       \/ phase = "KeyOpen" /\ Closed("key") /\ UNCHANGED failedRun
    /\ UNCHANGED <<booting, issued, keyFile, written, toWrite, left, wKey, wCert,
                   served, crashes>>

-----------------------------------------------------------------------------
(* The watcher *)

\* The closure has loaded a file.
LoadedKey == wKey' = keyFile /\ UNCHANGED wCert
LoadedCert == wCert' = <<certFile>> /\ UNCHANGED wKey

\* Mutated form: the pair is passed on when the certificate changes only.
MutPassOn ==
    served' = IF wKey' # Damaged /\ wCert' # wCert
              THEN [cert |-> Head(wCert'), key |-> wKey'] ELSE served

\* The pair is passed on if the closure has loaded both files since the start.
PassOn ==
    served' = IF wKey' # Damaged /\ wCert' # <<>>
              THEN [cert |-> Head(wCert'), key |-> wKey'] ELSE served

\* The file of the event is loaded as it is now; an error ends the handling.
HandleEvent ==
    /\ events # <<>>
    /\ events' = Tail(events)
    /\ \/ Head(events) = "key" /\ keyFile # Damaged /\ LoadedKey /\ PassOn
       \/ Head(events) = "cert" /\ LoadedCert /\ PassOn
       \/ /\ \/ Head(events) = "key" /\ keyFile = Damaged
             \/ Head(events) = "cert" /\ CertLoadFails
          /\ UNCHANGED <<wKey, wCert, served>>
    /\ UNCHANGED <<phase, booting, attempt, fileVars, failedRun, faultVars>>

-----------------------------------------------------------------------------
(* Time and crashes *)

\* A round passes; events are handled long before it ends.
Round ==
    /\ phase \in {"Sleep", "Down"}
    /\ events = <<>>
    /\ phase' = IF phase = "Sleep" THEN "Check" ELSE "Down"
    /\ left' = [i \in DOMAIN left |-> IF left[i] > 0 THEN left[i] - 1 ELSE 0]
    /\ UNCHANGED <<booting, attempt, issued, certFile, keyFile, written, toWrite,
                   proxyVars, failedRun, faultVars>>

\* The process is killed (run.rs exits on a signal) between any two steps.
Crash ==
    /\ phase # "Down" /\ crashes < MaxCrashes
    /\ crashes' = crashes + 1
    /\ phase' = "Down"
    /\ Torn
    /\ events' = <<>> /\ served' = NoPair /\ wKey' = Damaged /\ wCert' = <<>>
    /\ UNCHANGED <<booting, attempt, issued, keyFile, written, toWrite, left, failedRun,
                   writeErrors>>

Restart ==
    /\ phase = "Down"
    /\ phase' = "Check" /\ booting' = TRUE /\ attempt' = 1
    /\ UNCHANGED <<fileVars, proxyVars, failedRun, faultVars>>

Next ==
    \/ refresh_if_not_valid \/ OpenCert \/ IssueFails \/ WriteBlock \/ CloseCert \/ OpenKey
    \/ CloseKey \/ WriteFails \/ HandleEvent \/ Round \/ Crash \/ Restart

Spec == Init /\ [][Next]_vars

-----------------------------------------------------------------------------
(* Properties *)

Settled == phase = "Sleep" /\ events = <<>>

Leaf(chain) == Head(chain)

\* With both files in one directory, no crash and no write error, what is
\* served once the events of a renewal have been handled is what the files
\* hold, and the leaf is of the key: although from the second renewal on the
\* watcher serves the new certificate with the old key for a while, and although
\* the blocks of a longer chain that was in the file before stay behind the new
\* ones.
SettledPairMatches ==
    Settled /\ SameDir /\ crashes = 0 /\ writeErrors = 0 =>
        /\ served = [cert |-> certFile, key |-> keyFile]
        /\ Leaf(certFile) = keyFile

\* With both files in one directory, what is served has not expired unless
\* every attempt of the margin has failed, or a crash or a failing write has
\* left files that are not a pair, or a block that does not load: every renewal
\* that was written is served, also the ones after a fault.
ExpiredMeansFailing ==
    Settled /\ SameDir /\ Leaf(certFile) = keyFile /\ ~CertLoadFails =>
        \/ served # NoPair /\ left[Leaf(served.cert)] > 0
        \/ failedRun > Margin

-----------------------------------------------------------------------------
(* What comments and documents say, and the code does not do *)

\* README.md:37: "A certificate refresher, which on launch (and then
\* periodically) refreshes the proxy's HTTPS certificate"
LaunchRepairsPair ==
    Settled => served # NoPair /\ Leaf(served.cert) = served.key

\* keys.rs:28: "Return a vector of directories that we should listen for
\* filesystem events on. [...] If the key and certificate are in different
\* directories, this will be a two-element vector with both directories."
RenewalIsServed ==
    Settled => served.cert = certFile
=============================================================================
