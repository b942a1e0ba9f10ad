-------------------------------- MODULE CaptureGate --------------------------------
(***************************************************************************)
(* Starting a capture: it waits until the operating system trusts the root *)
(* certificate.  extension/environment/certificateTrust.ts does one thing  *)
(* to the certificate store at a time, systemTrust.ts knows the commands   *)
(* of each platform and extension/index.ts starts a capture.               *)
(***************************************************************************)
EXTENDS Naturals, Sequences

CONSTANTS
    MaxJobs,    \* operations on the store that wait
    MaxChanges  \* changes from outside: of the store, of the hosts to decrypt, and captures

VARIABLES
    platform,
    store,     \* what the store holds: the certificate ("anchor") and its trust ("mark")
    status,    \* the last observed
    half,      \* it was observed in the middle of an operation
    drifted,   \* something happened since that no refresh has seen
    chain,     \* the operations in order, the first under way; `left' are its steps to come
    required,  \* there are hosts to decrypt
    starting,  \* how far a start is
    vetted,    \* the start saw the certificate trusted, or needed none
    removing,  \* Uninstall has asked the capture to stop
    listening, \* a capture runs
    changes

vars == <<platform, store, status, half, drifted, chain, required, starting, vetted, removing,
          listening, changes>>

Platforms == {"darwin", "windows", "linux"}
Statuses == {"unknown", "missing", "installed", "trusted"}
Operations == {"check", "install", "trust", "uninstall"}

Begin(system, held, needed) ==
    /\ platform = system /\ store = held
    /\ status = "unknown" /\ half = FALSE /\ drifted = FALSE /\ chain = <<>>
    /\ required = needed /\ starting = "no" /\ vetted = FALSE /\ removing = FALSE
    /\ listening = FALSE /\ changes = 0

Init ==
    \E system \in Platforms, held \in {{}, {"anchor", "mark"}}, needed \in BOOLEAN :
        Begin(system, held, needed)

-----------------------------------------------------------------------------
(* The stores: what they report and the commands that change them. *)

\* verify-cert and find-certificate; certutil -store; the anchor file and the bundles.
Observed ==
    CASE platform = "darwin" ->
             IF "mark" \in store THEN "trusted"
             ELSE IF "anchor" \in store THEN "installed" ELSE "missing"
      [] platform = "windows" -> IF "anchor" \in store THEN "trusted" ELSE "missing"
      [] platform = "linux" ->
             IF "anchor" \notin store THEN "missing"
             ELSE IF "mark" \in store THEN "trusted" ELSE "installed"

Adds(what) == [add |-> what, drop |-> {}, may |-> FALSE]
Drops(what) == [add |-> {}, drop |-> what, may |-> FALSE]

\* The commands of an operation; one that may fail goes on to the next.
Steps(operation) ==
    CASE operation = "check" -> <<>>
      [] operation = "uninstall" /\ platform = "darwin" ->
             <<[Drops({"mark"}) EXCEPT !.may = TRUE], Drops({"anchor"})>>
      [] operation = "uninstall" /\ platform = "windows" -> <<Drops({"anchor"})>>
      [] operation = "uninstall" -> <<Drops({"anchor"}), Drops({"mark"})>>
      [] platform = "darwin" ->
             IF operation = "install" THEN <<Adds({"anchor"})>> ELSE <<Adds({"anchor", "mark"})>>
      [] platform = "windows" -> <<Adds({"anchor"})>>
      [] OTHER -> <<Adds({"anchor"}), Adds({"mark"})>>

-----------------------------------------------------------------------------
(* Operations on the store. *)

Job(operation, by) ==
    [operation |-> operation, by |-> by, left |-> Steps(operation), begun |-> FALSE]

\* serial: after all that were asked for before.
Serial(job) == chain' = Append(chain, job)

Request(operation) ==
    /\ Len(chain) < MaxJobs
    /\ \/ operation \in {"install", "trust"}
       \/ operation = "check" /\ status # "unknown"   \* the window gets the focus
    /\ Serial(Job(operation, "user"))
    /\ UNCHANGED <<platform, store, status, half, drifted, required, starting, removing,
                   listening, changes>>

\* One command: it works, fails without consequence, or fails and ends the operation.
Step ==
    /\ chain # <<>> /\ Head(chain).left # <<>>
    /\ LET job == Head(chain)
           step == Head(job.left)
           rest == [job EXCEPT !.left = Tail(@), !.begun = TRUE] IN
        \/ /\ store' = (store \ step.drop) \cup step.add
           /\ drifted' = TRUE
           /\ chain' = <<rest>> \o Tail(chain)
           /\ UNCHANGED starting
        \/ /\ step.may
           /\ chain' = <<rest>> \o Tail(chain)
           /\ UNCHANGED <<store, drifted, starting>>
        \/ /\ ~step.may
           /\ chain' = Tail(chain)
           /\ starting' = IF job.by = "start" THEN "no" ELSE starting
           /\ UNCHANGED <<store, drifted>>
    /\ UNCHANGED <<platform, status, half, required, removing, listening, changes>>

\* refresh, the last thing an operation does.
Refresh ==
    /\ chain # <<>> /\ Head(chain).left = <<>>
    /\ LET job == Head(chain) IN
        /\ chain' = Tail(chain)
        /\ status' = Observed /\ drifted' = FALSE
        /\ half' = \E k \in DOMAIN chain : chain[k].begun /\ chain[k].left # <<>>
        /\ starting' = IF job.by # "start" THEN starting
                       ELSE IF status' = "trusted" THEN "start"
                       ELSE IF job.operation = "check" THEN "prompt" ELSE "no"
    /\ UNCHANGED <<platform, store, required, removing, listening, changes>>

\* The store cannot be opened or read: the start says so and gives up.
CheckFails ==
    /\ chain # <<>> /\ Head(chain).operation = "check"
    /\ chain' = Tail(chain)
    /\ starting' = IF Head(chain).by = "start" THEN "no" ELSE starting
    /\ UNCHANGED <<platform, store, status, half, drifted, required, removing, listening, changes>>

\* Uninstall stops a capture that runs, and then removes the certificate.
Uninstall ==
    /\ Len(chain) < MaxJobs /\ ~removing
    /\ IF listening THEN removing' = TRUE /\ UNCHANGED chain
       ELSE Serial(Job("uninstall", "user")) /\ UNCHANGED removing
    /\ UNCHANGED <<platform, store, status, half, drifted, required, starting, listening, changes>>

Removes ==
    /\ removing /\ removing' = FALSE /\ listening' = FALSE
    /\ Serial(Job("uninstall", "user"))
    /\ UNCHANGED <<platform, store, status, half, drifted, required, starting, changes>>

-----------------------------------------------------------------------------
(* Starting: ensureTrusted and startCapture. *)

\* A plausible slip: what was observed last is good enough.
AskStartRemembering ==
    /\ starting = "no"
    /\ IF required /\ status # "trusted"
       THEN starting' = "check" /\ Serial(Job("check", "start"))
       ELSE starting' = "start" /\ UNCHANGED chain
    /\ UNCHANGED <<platform, store, status, half, drifted, required, removing, listening, changes>>

AskStart ==
    /\ starting = "no"
    /\ IF required THEN starting' = "check" /\ Serial(Job("check", "start"))
       ELSE starting' = "start" /\ UNCHANGED chain
    /\ UNCHANGED <<platform, store, status, half, drifted, required, removing, listening, changes>>

\* Install & Trust, or not.
Answer ==
    /\ starting = "prompt"
    /\ \/ starting' = "trust" /\ Serial(Job("trust", "start"))
       \/ starting' = "no" /\ UNCHANGED chain
    /\ UNCHANGED <<platform, store, status, half, drifted, required, removing, listening, changes>>

\* client.start is answered, with a capture or an error.
Started ==
    /\ starting = "start" /\ starting' = "no"
    /\ listening' \in {listening, TRUE}
    /\ UNCHANGED <<platform, store, status, half, drifted, chain, required, removing, changes>>

Stop ==
    /\ listening /\ listening' = FALSE /\ changes < MaxChanges /\ changes' = changes + 1
    /\ UNCHANGED <<platform, store, status, half, drifted, chain, required, starting, removing>>

\* The user opens the keychain, a package regenerates the bundles, settings change.
Outside ==
    /\ changes < MaxChanges /\ changes' = changes + 1
    /\ \/ /\ store' \in {{}, {"anchor"}, {"anchor", "mark"}} \ {store} /\ drifted' = TRUE
          /\ UNCHANGED required
       \/ required' = ~required /\ UNCHANGED <<store, drifted>>
    /\ UNCHANGED <<platform, status, half, chain, starting, removing, listening>>

Actions ==
    \/ \E operation \in Operations : Request(operation)
    \/ Step \/ Refresh \/ CheckFails \/ Uninstall \/ Removes
    \/ AskStart \/ Answer \/ Started \/ Stop \/ Outside

\* What a start has seen.
Next ==
    /\ Actions
    /\ vetted' = /\ starting' # "no"
                 /\ \/ vetted
                    \/ starting = "no" /\ ~required
                    \/ Observed' = "trusted"

Spec == Init /\ [][Next]_vars

-----------------------------------------------------------------------------
(* Properties. *)

TypeOK ==
    /\ platform \in Platforms /\ store \subseteq {"anchor", "mark"} /\ status \in Statuses
    /\ {half, drifted, required, vetted, removing, listening} \subseteq BOOLEAN
    /\ starting \in {"no", "check", "prompt", "trust", "start"}
    /\ \A k \in DOMAIN chain : chain[k].operation \in Operations /\ chain[k].by \in {"user", "start"}

\* "With TLS decryption on, `ensureTrusted` must pass before the proxy starts": a capture is
\* started only if at some time since it was asked for the system did trust the certificate
\* (certificateTrust.ts, ensureTrusted).
GateHolds == starting = "start" => vetted

\* No status is observed halfway through an operation, and with nothing under way it is what
\* the store says unless that changed behind the extension (serial).
StatusIsWhole ==
    /\ ~half
    /\ chain = <<>> /\ ~drifted /\ status # "unknown" => status = Observed
=============================================================================
