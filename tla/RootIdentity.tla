------------------------------ MODULE RootIdentity ------------------------------
(***************************************************************************)
(* The root certificate of the agent (core/certificate.ts): each session   *)
(* of a window loads it when it says hello, the first one ever makes it    *)
(* (engine.ts prepareCertificates, main.ts, sharedCore.ts).  The agent may *)
(* be killed between any two writes; the next one goes by the files that   *)
(* it finds.  An identity is a number; each file says whose it is.         *)
(***************************************************************************)
EXTENDS Naturals

CONSTANTS
    Sessions,
    MaxMinted    \* bound: identities made, and times the files are deleted

VARIABLES
    files,      \* ca.key, ca.pem, ca-bundle.pem, ca.p12: whose they are, or Missing
    up,         \* the agent runs
    making,     \* generate is under way: no, the pair is computed, its key is written
    minted,     \* identities made so far
    stage,      \* how far each session is with its files
    root        \* the identity each one holds: that of its certificate, and of its key

vars == <<files, up, making, minted, stage, root>>

Missing == 0
Nobody == [certificate |-> Missing, key |-> Missing]
NoFiles == [certificate |-> Missing, key |-> Missing, bundle |-> Missing,
            truststore |-> Missing]

Init ==
    /\ files = NoFiles /\ up = TRUE /\ making = "no" /\ minted = 0
    /\ stage = [s \in Sessions |-> "idle"] /\ root = [s \in Sessions |-> Nobody]

-----------------------------------------------------------------------------

Holds(certificate, key) == [certificate |-> certificate, key |-> key]

\* ensureRootIdentity: with both files there they are it; otherwise all wait for one
\* generation.
Load(s) ==
    /\ up /\ stage[s] = "idle"
    /\ IF files.certificate # Missing /\ files.key # Missing
       THEN /\ root' = [root EXCEPT ![s] = Holds(files.certificate, files.key)]
            /\ stage' = [stage EXCEPT ![s] = "loaded"]
            /\ UNCHANGED making
       ELSE /\ stage' = [stage EXCEPT ![s] = "waiting"]
            /\ making' = IF making = "no" THEN "computed" ELSE making
            /\ UNCHANGED root
    /\ UNCHANGED <<files, up, minted>>

WriteKey ==
    /\ making = "computed" /\ minted < MaxMinted
    /\ minted' = minted + 1
    /\ files' = [files EXCEPT !.key = minted']
    /\ making' = "key written"
    /\ UNCHANGED <<up, stage, root>>

\* The certificate is the last of the two, and all who wait hold the pair.
WriteCertificate ==
    /\ making = "key written"
    /\ files' = [files EXCEPT !.certificate = minted]
    /\ making' = "no"
    /\ root' = [s \in Sessions |->
                  IF stage[s] = "waiting" THEN Holds(minted, minted) ELSE root[s]]
    /\ stage' = [s \in Sessions |-> IF stage[s] = "waiting" THEN "loaded" ELSE stage[s]]
    /\ UNCHANGED <<up, minted>>

\* The keys cannot be made or written: all who wait fail, and may ask again.
GenerateFails ==
    /\ making = "computed"
    /\ making' = "no"
    /\ stage' = [s \in Sessions |-> IF stage[s] = "waiting" THEN "idle" ELSE stage[s]]
    /\ UNCHANGED <<files, up, minted, root>>

\* ensureCertificateBundle: another bundle than that of the certificate is replaced.
EnsureBundle(s) ==
    /\ stage[s] = "loaded"
    /\ files' = [files EXCEPT !.bundle = root[s].certificate]
    /\ stage' = [stage EXCEPT ![s] = "bundled"]
    /\ UNCHANGED <<up, making, minted, root>>

\* ensureTruststore: whatever is there is kept.
EnsureTruststore(s) ==
    /\ stage[s] = "bundled"
    /\ files' = [files EXCEPT !.truststore = IF @ = Missing THEN root[s].certificate ELSE @]
    /\ stage' = [stage EXCEPT ![s] = "ready"]
    /\ UNCHANGED <<up, making, minted, root>>

Kill ==
    /\ up /\ up' = FALSE
    /\ making' = "no"
    /\ stage' = [s \in Sessions |-> "idle"] /\ root' = [s \in Sessions |-> Nobody]
    /\ UNCHANGED <<files, minted>>

StartAgent ==
    /\ ~up /\ up' = TRUE
    /\ UNCHANGED <<files, making, minted, stage, root>>

\* The directory is deleted, with no agent running.
DeleteFiles ==
    /\ ~up /\ minted < MaxMinted /\ minted' = minted + 1
    /\ files' = NoFiles
    /\ UNCHANGED <<up, making, stage, root>>

Next ==
    \/ \E s \in Sessions : Load(s) \/ EnsureBundle(s) \/ EnsureTruststore(s)
    \/ WriteKey \/ WriteCertificate \/ GenerateFails
    \/ Kill \/ StartAgent \/ DeleteFiles

Spec == Init /\ [][Next]_vars

-----------------------------------------------------------------------------
(* Properties. *)

TypeOK ==
    /\ \A f \in DOMAIN files : files[f] \in 0 .. MaxMinted
    /\ up \in BOOLEAN /\ making \in {"no", "computed", "key written"}
    /\ stage \in [Sessions -> {"idle", "waiting", "loaded", "bundled", "ready"}]

\* What a session signs with is what its clients are told to trust: its certificate and key
\* belong together and are those of the files, and so are the bundle and the trust store.
RootIsTrusted ==
    \A s \in Sessions :
        /\ stage[s] \in {"loaded", "bundled", "ready"} =>
               /\ root[s].certificate = root[s].key /\ root[s].key = files.key
               /\ root[s].certificate = files.certificate
        /\ stage[s] = "ready" =>
               root[s].certificate = files.bundle /\ root[s].certificate = files.truststore
=============================================================================
