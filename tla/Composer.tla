------------------------------- MODULE Composer -------------------------------
(***************************************************************************)
(* The body of a composed request (Editor.tsx, AdvancedBody.tsx, body.ts,  *)
(* Composer.tsx): a draft in one of several formats, the body it encodes   *)
(* to, the Content-Type header that goes with it, and files that are read  *)
(* while the user goes on editing. Text is told apart only where a format  *)
(* can refuse it; a file is the bytes it holds.                            *)
(***************************************************************************)
EXTENDS Naturals, Sequences, SequencesExt

CONSTANTS Files,      \* files the user may choose
          NoFile,     \* a part or a body without one
          MaxChanges, \* bound: actions of the user
          MaxPicks    \* bound: files chosen

VARIABLES mode,       \* bodyDraft.mode, or the one the headers imply
          parts,      \* bodyDraft.parts
          fileName,   \* bodyDraft.fileName
          variables,  \* bodyDraft.variables of a GraphQL body parse as an object
          body, error, ctype,
          reads,      \* files being read, with the draft their callback holds
          asked,      \* history: what the last action asked the body to be made of
          changes, picks

composerVars == <<mode, parts, fileName, variables, body, error, ctype, reads,
                  asked, changes, picks>>

Modes    == {"none", "raw", "form-data", "binary", "GraphQL"}
Advanced == {"form-data", "binary", "GraphQL"}

Part == [on: BOOLEAN, named: BOOLEAN, file: Files \cup {NoFile}, type: {"text", "file"}]
NewPart == [on |-> TRUE, named |-> FALSE, file |-> NoFile, type |-> "text"]

----------------------------------------------------------------------------
(* body.ts                                                                 *)

\* Disabled and entirely empty parts are not sent.
Included(list) == SelectSeq(list, LAMBDA p : p.on /\ (p.named \/ p.file # NoFile))

\* multipartBody throws for a file part without a file.
Refused(list) == \E p \in ToSet(Included(list)) : p.type = "file" /\ p.file = NoFile

Bare(what)  == [of |-> what, parts |-> <<>>, boundary |-> 0]
Multipart(list, boundary) == [of |-> "parts", parts |-> Included(list), boundary |-> boundary]

Type(of, boundary) == [of |-> of, boundary |-> boundary]
Absent == Type("absent", 0)
Hand   == Type("hand", 0)

----------------------------------------------------------------------------
(* AdvancedBody.tsx: generation. Every change of the parts, every new read *)
(* and the end of the component make the reads under way stale.            *)

Outdated == {[r EXCEPT !.stale = TRUE] : r \in reads}

\* updateParts, with a fresh boundary in the body and in the header; a list that
\* cannot be encoded leaves the header as it was.
UpdateParts(list, boundary) ==
    /\ parts' = list
    /\ IF Refused(list)
       THEN body' = Bare("empty") /\ error' = "choose a file" /\ UNCHANGED ctype
       ELSE body' = Multipart(list, boundary) /\ error' = "" /\ ctype' = Type("form-data", boundary)

PartEdits ==
    {Append(parts, NewPart)}
    \cup {RemoveAt(parts, i) : i \in DOMAIN parts}
    \cup UNION {{[parts EXCEPT ![i].on = ~@], [parts EXCEPT ![i].named = ~@],
                 [parts EXCEPT ![i].type = IF @ = "text" THEN "file" ELSE "text"]} :
                  i \in DOMAIN parts}

EditParts ==
    /\ mode = "form-data"
    /\ \E list \in PartEdits :
         /\ Len(list) <= 2
         /\ UpdateParts(list, changes + 1)
         /\ asked' = list
    /\ reads' = Outdated
    /\ UNCHANGED <<mode, fileName, variables, picks>>

\* pick: nothing may be sent while the file is read. Index 0 stands for the whole body.
Pick(index, file) ==
    /\ picks < MaxPicks
    /\ picks' = picks + 1
    /\ body' = Bare("empty")
    /\ error' = "reading"
    /\ reads' = Outdated \cup {[number |-> picks, index |-> index, file |-> file,
                                parts |-> parts, stale |-> FALSE]}
    /\ UNCHANGED <<mode, parts, fileName, variables, ctype>>

PickBody ==
    /\ mode = "binary"
    /\ \E file \in Files : Pick(0, file) /\ asked' = <<[NewPart EXCEPT !.file = file]>>

PickPart ==
    /\ mode = "form-data"
    /\ \E i \in DOMAIN parts, file \in Files :
         /\ parts[i].type = "file"
         /\ Pick(i, file)
         /\ asked' = [parts EXCEPT ![i].file = file]

Finish(r) ==
    IF r.index = 0
    THEN /\ fileName' = r.file
         /\ body' = Bare(r.file)
         /\ error' = ""
         /\ ctype' = Type("binary", 0)
         /\ UNCHANGED parts
    ELSE /\ UpdateParts([r.parts EXCEPT ![r.index].file = r.file], changes + 1)
         /\ UNCHANGED fileName

\* A plausible slip: whichever read ends is the one that counts.
AnyReadEnds ==
    /\ \E r \in reads :
         /\ r.index = 0 <=> mode = "binary"
         /\ Finish(r)
         /\ reads' = reads \ {r}
    /\ UNCHANGED <<mode, variables, asked, picks>>

\* A read that was overtaken changes nothing.
ReadEnds ==
    /\ \E r \in reads :
         /\ IF r.stale THEN UNCHANGED <<parts, fileName, body, error, ctype>> ELSE Finish(r)
         /\ reads' = IF r.stale THEN reads \ {r} ELSE Outdated \ {[r EXCEPT !.stale = TRUE]}
    /\ UNCHANGED <<mode, variables, asked, picks>>

ReadFails ==
    /\ \E r \in reads :
         /\ reads' = reads \ {r}
         /\ IF r.stale
            THEN UNCHANGED <<body, error>>
            ELSE body' = Bare("empty") /\ error' = "unreadable"
    /\ UNCHANGED <<mode, parts, fileName, variables, ctype, asked, picks>>

\* updateGraphQL: variables that are no JSON object make no body.
EditGraphQL ==
    /\ mode = "GraphQL"
    /\ variables' \in BOOLEAN
    /\ IF variables'
       THEN body' = Bare("query") /\ error' = "" /\ ctype' = Type("GraphQL", 0)
       ELSE body' = Bare("empty") /\ error' = "variables" /\ UNCHANGED ctype
    /\ UNCHANGED <<mode, parts, fileName, reads, asked, picks>>

----------------------------------------------------------------------------
(* Editor.tsx and Composer.tsx                                             *)

\* Text of the old format is kept as raw text; encoded bytes are not.
Text == IF body.of \in {"text", "query"} THEN Bare("text") ELSE Bare("empty")

\* changeMode: the component of the old format goes.
ChangeMode ==
    /\ \E m \in Modes \ {mode} :
         /\ mode' = m
         /\ parts' = IF m = "form-data" THEN <<NewPart>> ELSE <<>>
         /\ asked' = parts'
         /\ error' = IF m = "binary" THEN "choose a file" ELSE ""
         /\ body' = CASE m = "form-data" -> Multipart(<<NewPart>>, changes + 1)
                      [] m = "GraphQL" -> Bare("query")
                      [] m = "raw" -> Text
                      [] OTHER -> Bare("empty")
         /\ ctype' = IF m = "none" THEN Absent
                     ELSE Type(m, IF m = "form-data" THEN changes + 1 ELSE 0)
    /\ fileName' = NoFile
    /\ variables' = TRUE
    /\ reads' = Outdated
    /\ UNCHANGED picks

TypeText ==
    /\ mode = "raw"
    /\ body' \in {Bare("text"), Bare("empty")}
    /\ UNCHANGED <<mode, parts, fileName, variables, error, ctype, reads, asked, picks>>

\* Content-Type edited by hand, as a row or in bulk.
EditType ==
    /\ ctype' \in {Hand, Absent}
    /\ mode \in Advanced
    /\ UNCHANGED <<mode, parts, fileName, variables, body, error, reads, asked, picks>>

\* A resent request, an imported curl command or Clear replaces the draft (useTraffic.ts
\* `pane' and `curl'): it carries text and headers, and the format follows from them.
LoadDraft ==
    /\ \E m \in {"none", "raw"} :
         /\ mode' = m
         /\ body' = Bare(IF m = "raw" THEN "text" ELSE "empty")
         /\ ctype' = IF m = "raw" THEN Type("raw", 0) ELSE Absent
    /\ parts' = <<>>
    /\ asked' = <<>>
    /\ fileName' = NoFile
    /\ variables' = TRUE
    /\ error' = ""
    /\ reads' = Outdated
    /\ UNCHANGED picks

\* Another pane is shown, or the page is loaded again from its saved state.
LeaveComposer ==
    /\ reads' = Outdated
    /\ UNCHANGED <<mode, parts, fileName, variables, body, error, ctype, asked, picks>>

Init ==
    /\ mode = "none"
    /\ parts = <<>>
    /\ fileName = NoFile
    /\ variables = TRUE
    /\ body = Bare("empty")
    /\ error = ""
    /\ ctype = Absent
    /\ reads = {}
    /\ asked = <<>>
    /\ changes = 0
    /\ picks = 0

UserStep ==
    \/ EditParts \/ PickBody \/ PickPart \/ EditGraphQL \/ ChangeMode
    \/ TypeText \/ EditType \/ LoadDraft \/ LeaveComposer

Next ==
    \/ changes < MaxChanges /\ UserStep /\ changes' = changes + 1
    \/ (ReadEnds \/ ReadFails) /\ UNCHANGED changes

Spec == Init /\ [][Next]_composerVars

----------------------------------------------------------------------------
TypeOK ==
    /\ mode \in Modes
    /\ parts \in Seq(Part)
    /\ fileName \in Files \cup {NoFile}
    /\ variables \in BOOLEAN
    /\ error \in {"", "choose a file", "reading", "unreadable", "variables"}
    /\ ctype.of \in Modes \cup {"absent", "hand"}
    /\ \A r \in reads : r.parts \in Seq(Part) /\ r.file \in Files

\* Send is offered only while there is no error: then the body is the encoding of what
\* the editor shows, its boundary is the one in the header unless the user wrote that
\* header, and it is made of what the user asked for last, whichever file was read
\* first (AdvancedBody.tsx pick and updateParts, Editor.tsx setBody, Composer.tsx send).
ShownIsSent ==
    error = "" =>
        CASE mode = "form-data" ->
               /\ parts = asked
               /\ body = Multipart(parts, body.boundary)
               /\ ctype \in {Hand, Absent, Type("form-data", body.boundary)}
          [] mode = "binary" -> <<[NewPart EXCEPT !.file = fileName]>> = asked /\ body = Bare(fileName)
          [] mode = "GraphQL" -> variables /\ body = Bare("query")
          [] mode = "none" -> body = Bare("empty")
          [] OTHER -> body.of \in {"text", "empty"}
=============================================================================
