------------------------------- MODULE EditorProxy -------------------------------
(***************************************************************************)
(* The proxy setting of the editor itself, which the settings tab points   *)
(* at the capture port and takes back: updateVSCodeProxy and               *)
(* synchronizeVSCodeProxy of extension/panels/settingsPanel.ts.  There is  *)
(* one http.proxy of the user; each window remembers the value it put      *)
(* there and the one it found.                                             *)
(***************************************************************************)
EXTENDS Naturals, Sequences, FiniteSets

CONSTANTS
    Editors,   \* windows
    Ports,     \* what the captures of the windows listen on
    Own,       \* a proxy of the user
    Unset,     \* no value
    MaxQueued, \* bound: operations under way, closing apart
    MaxStarts  \* how often captures start, and the user edits the setting

VARIABLES
    setting,  \* http.proxy of the user, shared by the windows
    chosen,   \* what the user last put there
    raced,    \* an update met an edit of the user or another window's value (Crosses)
    alive,    \* the windows that are open
    port,     \* where the capture of each window listens; Unset: stopped
    value,    \* what the window put into the setting (state.value)
    previous, \* and what it found there
    queue,    \* the operations of each window
    writing,  \* the one in progress has called config.update: what it writes
    failed,   \* the last operation of the window failed
    stranded, \* ports a window wrote and forgot at once, its capture having stopped meanwhile
    starts

vars == <<setting, chosen, raced, alive, port, value, previous, queue, writing, failed,
          stranded, starts>>

Values == Ports \cup {Own, Unset}
None == [next |-> Unset, previous |-> Unset, on |-> FALSE]

Begin(own) ==
    /\ setting = own /\ chosen = own /\ raced = FALSE
    /\ alive = Editors
    /\ port = [w \in Editors |-> Unset]
    /\ value = [w \in Editors |-> Unset] /\ previous = [w \in Editors |-> Unset]
    /\ queue = [w \in Editors |-> <<>>]
    /\ writing = [w \in Editors |-> None]
    /\ failed = [w \in Editors |-> FALSE]
    /\ stranded = {}
    /\ starts = 0

Init == \E own \in {Own, Unset} : Begin(own)

-----------------------------------------------------------------------------
(* What happens around. *)

\* proxyOperation: one after the other.
Enqueue(w, kind) ==
    /\ Cardinality(UNION {{x} \X DOMAIN queue[x] : x \in Editors}) < MaxQueued
    /\ queue' = [queue EXCEPT ![w] = Append(@, kind)]

\* The capture of a window starts, moves to another port or stops: a state event.
CaptureChanges(w) ==
    /\ w \in alive
    /\ \E p \in (Ports \ {port[x] : x \in Editors}) \cup {Unset} :
           /\ p # port[w] /\ (p # Unset => starts < MaxStarts)
           /\ port' = [port EXCEPT ![w] = p]
           /\ starts' = IF p = Unset THEN starts ELSE starts + 1
    /\ Enqueue(w, "synchronize")
    /\ UNCHANGED <<setting, chosen, raced, alive, value, previous, writing, failed, stranded>>

\* The buttons of the settings tab.
Press(w) ==
    /\ w \in alive
    /\ \E kind \in {"enable", "disable"} : Enqueue(w, kind)
    /\ UNCHANGED <<setting, chosen, raced, alive, port, value, previous, writing, failed,
                   stranded, starts>>

\* Deactivation: the last operation, and then the capture goes.
Close(w) ==
    /\ w \in alive /\ alive' = alive \ {w}
    /\ queue' = [queue EXCEPT ![w] = Append(@, "close")]
    /\ UNCHANGED <<setting, chosen, raced, port, value, previous, writing, failed, stranded,
                   starts>>

UserEdits ==
    /\ starts < MaxStarts /\ starts' = starts + 1
    /\ setting' \in {Own, Unset} \ {setting}
    /\ chosen' = setting'
    /\ raced' = (raced \/ \E w \in Editors : writing[w].on)
    /\ UNCHANGED <<alive, port, value, previous, queue, writing, failed, stranded>>

-----------------------------------------------------------------------------
(* The operations: what they make of what they find, and what is written. *)

\* What was there before the window set it.
Found(w) == IF setting = value[w] THEN previous[w] ELSE setting

Writes(next, keep) == [next |-> next, previous |-> keep, on |-> TRUE]

Forget(w) ==
    /\ value' = [value EXCEPT ![w] = Unset]
    /\ previous' = [previous EXCEPT ![w] = Unset]

Done(w) ==
    /\ queue' = [queue EXCEPT ![w] = Tail(@)]
    /\ failed' = [failed EXCEPT ![w] = FALSE]

\* With the capture stopped, enabling fails before it touches anything.
Refused(w) ==
    /\ queue[w] # <<>> /\ ~writing[w].on /\ Head(queue[w]) = "enable" /\ port[w] = Unset
    /\ queue' = [queue EXCEPT ![w] = Tail(@)]
    /\ UNCHANGED <<setting, chosen, raced, alive, port, value, previous, writing, failed,
                   stranded, starts>>

\* What w is about to write meets another window: an update under way, or a value of a
\* capture that the other set and would not tell from its own.
Crosses(w) ==
    \E x \in Editors \ {w} :
        \/ writing[x].on
        \/ writing'[w].next \in Ports /\ value[x] \in {setting, writing'[w].next} \cap Ports

Update(w) ==
    /\ queue[w] # <<>> /\ ~writing[w].on
    /\ \/ /\ Head(queue[w]) = "enable" /\ port[w] # Unset
          /\ writing' = [writing EXCEPT ![w] = Writes(port[w], Found(w))]
       \/ /\ Head(queue[w]) = "disable"
          /\ writing' = [writing EXCEPT ![w] = Writes(Unset, Unset)]
    /\ raced' = (raced \/ Crosses(w))
    /\ UNCHANGED <<setting, chosen, alive, port, value, previous, queue, failed, stranded, starts>>

\* A plausible slip: what the window found is put back whoever has set a value since.
OwnsAnyway(w) == TRUE

Owns(w) == setting = value[w]

\* synchronizeVSCodeProxy: the window follows its capture, or puts back what it found.
Synchronizing(w) == queue[w] # <<>> /\ ~writing[w].on /\ Head(queue[w]) \in {"synchronize", "close"}
Follows(w) == Head(queue[w]) # "close" /\ port[w] # Unset
Target(w) == IF Follows(w) THEN port[w] ELSE previous[w]

\* There is nothing to write: the window never set the value, has lost it to somebody else,
\* or it is right as it is.
SynchronizeNothing(w) ==
    /\ Synchronizing(w)
    /\ \/ value[w] = Unset /\ UNCHANGED <<value, previous>>
       \/ value[w] # Unset /\ ~Owns(w) /\ Forget(w)
       \/ /\ value[w] # Unset /\ Owns(w) /\ Target(w) = value[w]
          /\ IF Follows(w) THEN UNCHANGED <<value, previous>> ELSE Forget(w)
    /\ Done(w)
    /\ UNCHANGED <<setting, chosen, raced, alive, port, writing, stranded, starts>>

Synchronize(w) ==
    /\ Synchronizing(w)
    /\ value[w] # Unset /\ Owns(w) /\ Target(w) # value[w]
    /\ writing' = [writing EXCEPT ![w] = Writes(Target(w), previous[w])]
    /\ raced' = (raced \/ Crosses(w))
    /\ UNCHANGED <<setting, chosen, alive, port, value, previous, queue, failed, stranded, starts>>

\* What the window remembers of what it wrote. Following its capture it looks again whether
\* that runs, now that the setting is written: one that stopped meanwhile is forgotten with
\* its port in the setting, one that started is followed from the value put back.
Remembered(w) ==
    IF \/ Head(queue[w]) \in {"enable", "disable"}
       \/ Head(queue[w]) = "synchronize" /\ port[w] # Unset
    THEN writing[w].next ELSE Unset

\* The window's new port is in the setting, and the window does not know it for its own.
Strands(w) == Remembered(w) = Unset /\ writing[w].next \notin {writing[w].previous, Unset}

\* config.update is through: only now the window's own state follows.
Written(w) ==
    /\ writing[w].on
    /\ setting' = writing[w].next
    /\ chosen' = IF Head(queue[w]) = "disable" THEN Unset ELSE chosen
    /\ value' = [value EXCEPT ![w] = Remembered(w)]
    /\ previous' = [previous EXCEPT ![w] = IF Remembered(w) = Unset THEN Unset ELSE writing[w].previous]
    /\ stranded' = IF Strands(w) THEN stranded \cup {writing[w].next} ELSE stranded
    /\ writing' = [writing EXCEPT ![w] = None]
    /\ Done(w)
    /\ UNCHANGED <<raced, alive, port, starts>>

Fails(w) ==
    /\ writing[w].on
    /\ writing' = [writing EXCEPT ![w] = None]
    /\ queue' = [queue EXCEPT ![w] = Tail(@)]
    /\ failed' = [failed EXCEPT ![w] = TRUE]
    /\ UNCHANGED <<setting, chosen, raced, alive, port, value, previous, stranded, starts>>

\* The client goes with the last operation of a closed window, and its capture with it.
Gone(w) ==
    /\ w \notin alive /\ queue[w] = <<>> /\ port[w] # Unset
    /\ port' = [port EXCEPT ![w] = Unset]
    /\ UNCHANGED <<setting, chosen, raced, alive, value, previous, queue, writing, failed,
                   stranded, starts>>

\* Bound: what follows a race is not explored.
Next ==
    /\ ~raced
    /\ \/ \E w \in Editors :
              \/ CaptureChanges(w) \/ Press(w) \/ Close(w) \/ Refused(w) \/ Update(w)
              \/ SynchronizeNothing(w) \/ Synchronize(w) \/ Written(w) \/ Fails(w) \/ Gone(w)
       \/ UserEdits

Spec == Init /\ [][Next]_vars

-----------------------------------------------------------------------------
(* Properties. *)

TypeOK ==
    /\ setting \in Values /\ chosen \in {Own, Unset} /\ alive \subseteq Editors
    /\ stranded \subseteq Ports
    /\ \A w \in Editors :
           /\ port[w] \in Ports \cup {Unset} /\ {value[w], previous[w]} \subseteq Values
           /\ writing[w].on \in BOOLEAN /\ writing[w].next \in Values
           /\ \A k \in DOMAIN queue[w] :
                  queue[w][k] \in {"enable", "disable", "synchronize", "close"}

\* No window has anything to do, and no update failed, crossed an edit of the user or took
\* what another window set for the user's own (it would put that back: Crosses).
Quiet ==
    /\ ~raced
    /\ \A w \in Editors : queue[w] = <<>> /\ ~failed[w] /\ (w \in alive \/ port[w] = Unset)

\* The editor uses the capture of a window that has set it and still captures.
Used == \E w \in alive : setting = value[w] /\ setting = port[w] /\ port[w] # Unset

\* At rest the editor uses a capture that runs, or what the user chose: a stop, a new port and
\* a closed window are all followed (settingsPanel.ts, proxyOperation to
\* synchronizeVSCodeProxy). Not so a port that the window forgot as it wrote it, since its capture
\* stopped meanwhile: the code leaves that behind (settingsPanel.ts:59).
ProxyIsChosen == Quiet => Used \/ setting = chosen \/ setting \in stranded
=============================================================================
