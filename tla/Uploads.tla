--------------------------------- MODULE Uploads ---------------------------------
(***************************************************************************)
(* Files of a form on their way to the destination: what the page, the     *)
(* hidden input of the form and the browser's own inputs hold of them      *)
(* (client/sandbox/upload), the messages that store and load them          *)
(* (upload/storage.ts), and the body of the submitted form, into which the *)
(* server puts the files of the hidden input (upload/form-data.ts).        *)
(*                                                                         *)
(* A file is a name and its data.  The form has two file inputs; their ids *)
(* and names may coincide.                                                 *)
(***************************************************************************)
EXTENDS Naturals, Sequences, FiniteSets, SequencesExt

CONSTANTS
    Forms,      \* the inputs of a form, in order: sequences of their [id, name]
    Selections, \* lists of files that the user may choose and the runner may upload
    MaxChanges, \* bound on how often the user, the page and the runner change an input
    MaxMoves,   \* bound on how often the page moves an input
    MaxTaken    \* bound on the index in a generated file name

VARIABLES
    form,    \* the inputs
    inputs,  \* of every input, see Fresh
    hidden,  \* the value of the hidden input, a list of [input, files]
    calls,   \* promise chains of the client: changes by the user, and uploads of the runner
    disk,    \* what the first upload root holds: from names to data
    stores,  \* calls of store on the server, as they list and write
    history  \* see NoHistory

vars == <<form, inputs, hidden, calls, disk, stores, history>>

Files  == UNION {Range(files) : files \in Selections}
Inputs == DOMAIN form
NoFile == [name |-> "", data |-> "none"]

(* native is what the browser submits for the input; files and hasValue are its upload info, *)
(* if it is known; attached tells that the input is in its form.                             *)
Fresh == [native |-> <<>>, known |-> FALSE, files |-> <<>>, hasValue |-> FALSE, attached |-> TRUE]

(* changes and moves count towards the bounds; last is what was last chosen for an input; mixed  *)
(* are inputs with two chains at once; kept is what store answered; crossed tells that two   *)
(* calls of store overlapped.                                                                *)
NoHistory == [changes |-> 0, moves |-> 0, last |-> [i \in {1, 2} |-> <<>>], mixed |-> {},
              kept |-> {}, crossed |-> FALSE]

TypeOK ==
    /\ form \in Forms
    /\ inputs \in [Inputs -> [native : Selections, known : BOOLEAN, files : Selections,
                              hasValue : BOOLEAN, attached : BOOLEAN]]
    /\ \A k \in DOMAIN hidden : hidden[k].input \in Range(form) /\ hidden[k].files \in Selections
    /\ \A k \in DOMAIN calls : /\ calls[k].kind \in {"user", "runner"}
                               /\ calls[k].input \in Inputs /\ calls[k].files \in Selections
                               /\ calls[k].step \in {"reading", "sending", "loading"}
    /\ \A name \in DOMAIN disk : disk[name] \in {f.data : f \in Files}
    /\ history.changes \in 0..MaxChanges /\ history.moves \in 0..MaxMoves
    /\ history.mixed \subseteq Inputs

Init ==
    /\ form \in Forms
    /\ inputs = [i \in Inputs |-> Fresh] /\ hidden = <<>> /\ calls = <<>>
    /\ disk = <<>> /\ stores = <<>> /\ history = NoHistory

-----------------------------------------------------------------------------
(* The hidden input (hidden-info.ts) *)

IndexOf(list, i) ==
    LET same == {k \in DOMAIN list : \/ list[k].input.id = form[i].id
                                     \/ list[k].input.name = form[i].name}
    IN IF same = {} THEN 0 ELSE CHOOSE k \in same : \A j \in same : k <= j

AddInputInfo(list, i, files) ==
    LET k == IndexOf(list, i)
        entry == [input |-> form[i], files |-> files]
    IN IF k = 0 THEN Append(list, entry) ELSE ReplaceAt(list, k, entry)

RemoveInputInfo(list, i) == IF IndexOf(list, i) = 0 THEN list ELSE RemoveAt(list, IndexOf(list, i))

GetFiles(i) == inputs[i].files

(* setUploadInfo.  An input without a form changes no hidden input. *)
SetUploadInfo(i, files, hasValue) ==
    /\ inputs' = [inputs EXCEPT ![i].known = TRUE, ![i].files = files, ![i].hasValue = hasValue]
    /\ hidden' = IF inputs[i].attached THEN AddInputInfo(hidden, i, files) ELSE hidden

-----------------------------------------------------------------------------
(* The page, the user and the runner *)

Change(h) == history.changes < MaxChanges /\ history' = [h EXCEPT !.changes = @ + 1]
Move      == history.moves < MaxMoves /\ history' = [history EXCEPT !.moves = @ + 1]
Chosen(i, files) ==
    [history EXCEPT !.last[i] = files,
                    !.mixed = IF \E k \in DOMAIN calls : calls[k].input = i /\ calls[k].step # "sending"
                              THEN @ \cup {i} ELSE @]

(* The listener of change, for an event that the browser dispatched: it begins to read the   *)
(* files, unless there are none and were none.                                               *)
UserChooses(i, files) ==
    /\ Change(IF files # <<>> \/ inputs[i].hasValue THEN Chosen(i, files) ELSE history)
    /\ files # inputs[i].native
    /\ inputs' = [inputs EXCEPT ![i].native = files]
    /\ calls' = IF files # <<>> \/ inputs[i].hasValue
                THEN Append(calls, [kind |-> "user", input |-> i, files |-> files, step |-> "reading"])
                ELSE calls
    /\ UNCHANGED <<form, hidden, disk, stores>>

(* doUpload asks the server for the files. *)
DoUpload(i, files) ==
    /\ Change(Chosen(i, files))
    /\ calls' = Append(calls, [kind |-> "runner", input |-> i, files |-> files, step |-> "loading"])
    /\ UNCHANGED <<form, inputs, hidden, disk, stores>>

(* The page sets value to ''.  The browser's input keeps its files. *)
ClearUploadInfo(i) ==
    /\ inputs[i].known /\ Change(Chosen(i, <<>>))
    /\ inputs' = [inputs EXCEPT ![i].files = <<>>, ![i].hasValue = FALSE]
    /\ hidden' = IF inputs[i].attached THEN RemoveInputInfo(hidden, i) ELSE hidden
    /\ UNCHANGED <<form, calls, disk, stores>>

(* The page takes the input out of the form, or puts it back: _onRemoveFileInputInfo before, *)
(* addFileInputInfo after.                                                                   *)
RemoveInput(i) ==
    /\ Move /\ inputs[i].attached
    /\ inputs' = [inputs EXCEPT ![i].attached = FALSE]
    /\ hidden' = RemoveInputInfo(hidden, i)
    /\ UNCHANGED <<form, calls, disk, stores>>

AddInput(i) ==
    /\ Move /\ ~inputs[i].attached
    /\ inputs' = [inputs EXCEPT ![i].attached = TRUE]
    /\ hidden' = AddInputInfo(hidden, i, GetFiles(i))
    /\ UNCHANGED <<form, calls, disk, stores>>

FilesAreRead(c) ==
    /\ calls[c].step = "reading"
    /\ SetUploadInfo(calls[c].input, calls[c].files, calls[c].files # <<>>)
    /\ calls' = [calls EXCEPT ![c].step = "sending"]
    /\ stores' = Append(stores, [files |-> calls[c].files, listed |-> FALSE, existing |-> {},
                                 stored |-> <<>>])
    /\ history' = [history EXCEPT !.crossed = @ \/ stores # <<>>]
    /\ UNCHANGED <<form, disk>>

(* get answered with the files; what could not be found or read leaves the input alone. *)
FilesAreLoaded(c) ==
    /\ calls[c].step = "loading"
    /\ SetUploadInfo(calls[c].input, calls[c].files, calls[c].files # <<>>)
    /\ calls' = RemoveAt(calls, c)
    /\ UNCHANGED <<form, disk, stores, history>>

FilesAreMissing(c) ==
    /\ calls[c].step = "loading" /\ calls[c].files # <<>>
    /\ calls' = RemoveAt(calls, c)
    /\ history' = [history EXCEPT !.mixed = @ \cup {calls[c].input}]
    /\ UNCHANGED <<form, inputs, hidden, disk, stores>>

-----------------------------------------------------------------------------
(* The server stores files (upload/storage.ts).  The directory is listed once, then file     *)
(* after file is written under a name that is not in the list.                               *)

GenerateName(existing, name) ==
    CHOOSE n \in {<<name, k>> : k \in 0..MaxTaken} :
        /\ n \notin existing
        /\ \A k \in 0..MaxTaken : k < n[2] => <<name, k>> \in existing

ListFiles(s) ==
    /\ ~stores[s].listed
    /\ stores' = [stores EXCEPT ![s].listed = TRUE, ![s].existing = DOMAIN disk]
    /\ UNCHANGED <<form, inputs, hidden, calls, disk, history>>

Writing(s) == stores[s].listed /\ Len(stores[s].stored) < Len(stores[s].files)
Current(s) == stores[s].files[Len(stores[s].stored) + 1]

OverwriteInOneCall(s) ==
    /\ Writing(s)
    /\ LET name == GenerateName(stores[s].existing, Current(s).name)
       IN /\ disk' = [n \in DOMAIN disk \cup {name} |-> IF n = name THEN Current(s).data ELSE disk[n]]
          /\ stores' = [stores EXCEPT ![s].stored = Append(@, name)]
          /\ history' = [history EXCEPT !.kept = @ \cup {<<name, Current(s).data>>}]
    /\ UNCHANGED <<form, inputs, hidden, calls>>

WriteFile(s) ==
    /\ Writing(s)
    /\ LET name == GenerateName(stores[s].existing, Current(s).name)
       IN /\ disk' = [n \in DOMAIN disk \cup {name} |-> IF n = name THEN Current(s).data ELSE disk[n]]
          /\ stores' = [stores EXCEPT ![s].existing = @ \cup {name}, ![s].stored = Append(@, name)]
          /\ history' = [history EXCEPT !.kept = @ \cup {<<name, Current(s).data>>}]
    /\ UNCHANGED <<form, inputs, hidden, calls>>

(* An error takes the place of the file in the answer. *)
WriteFails(s) ==
    /\ Writing(s)
    /\ stores' = [stores EXCEPT ![s].stored = Append(@, <<"error", 0>>)]
    /\ UNCHANGED <<form, inputs, hidden, calls, disk, history>>

(* The answer of store ends the oldest chain that waits for it, with a change event. *)
StoreAnswers(s) ==
    /\ stores[s].listed /\ Len(stores[s].stored) = Len(stores[s].files)
    /\ \E c \in DOMAIN calls :
           /\ calls[c].step = "sending" /\ calls[c].files = stores[s].files
           /\ calls' = RemoveAt(calls, c)
    /\ stores' = RemoveAt(stores, s)
    /\ UNCHANGED <<form, inputs, hidden, disk, history>>

Next ==
    \/ \E i \in Inputs : \/ \E files \in Selections : UserChooses(i, files) \/ DoUpload(i, files)
                         \/ ClearUploadInfo(i) \/ RemoveInput(i) \/ AddInput(i)
    \/ \E c \in DOMAIN calls : FilesAreRead(c) \/ FilesAreLoaded(c) \/ FilesAreMissing(c)
    \/ \E s \in DOMAIN stores : ListFiles(s) \/ WriteFile(s) \/ WriteFails(s) \/ StoreAnswers(s)

Spec == Init /\ [][Next]_vars

-----------------------------------------------------------------------------
(* A submitted form.  The browser sends the entries of the inputs and of the hidden input,   *)
(* which is the last; a line is a boundary, a header, a blank or the content.                *)

Entry(name, file, list) == [name |-> name, file |-> file, list |-> list]
FileEntries(i) ==
    IF ~inputs[i].attached THEN <<>>
    ELSE IF inputs[i].native = <<>> THEN <<Entry(form[i].name, NoFile, <<>>)>>
    ELSE [k \in DOMAIN inputs[i].native |-> Entry(form[i].name, inputs[i].native[k], <<>>)]
Sent == FileEntries(1) \o FileEntries(2)
            \o (IF hidden = <<>> THEN <<>> ELSE <<Entry("hidden", NoFile, hidden)>>)

EntryLines(e) == <<[is |-> "boundary"], [is |-> "header", name |-> e.name, file |-> e.file.name],
                   [is |-> "blank"], [is |-> "text", data |-> e.file.data, list |-> e.list]>>
Lines(entries) == FlattenSeq([k \in DOMAIN entries |-> EntryLines(entries[k])])
                      \o <<[is |-> "end"], [is |-> "blank"]>>

(* parseBody *)
ParseLine(p, line) ==
    CASE line.is = "boundary" ->
             [p EXCEPT !.state = "inHeaders", !.open = TRUE, !.current = Entry("", NoFile, <<>>),
                       !.entries = IF p.open THEN Append(@, p.current) ELSE @]
      [] line.is = "end" ->
             [p EXCEPT !.state = "inEpilogue",
                       !.entries = IF p.open THEN Append(@, p.current) ELSE @]
      [] p.state = "inHeaders" /\ line.is = "header" ->
             [p EXCEPT !.current.name = line.name, !.current.file.name = line.file]
      [] p.state = "inHeaders" /\ line.is = "blank" -> [p EXCEPT !.state = "inBody"]
      [] p.state = "inBody" /\ line.is = "text" ->
             [p EXCEPT !.current.file.data = line.data, !.current.list = line.list]
      [] OTHER -> p

ParseBody(lines) ==
    FoldLeft(ParseLine, [state |-> "inPreamble", open |-> FALSE, current |-> Entry("", NoFile, <<>>),
                         entries |-> <<>>], lines).entries

(* _injectFileInfo puts the files in the place of the entries of that name, then behind all. *)
InjectFileInfo(entries, info) ==
    LET named  == SelectSeq([k \in DOMAIN entries |-> k],
                            LAMBDA k : entries[k].name = info.input.name)
        new(k) == Entry(info.input.name, info.files[k], <<>>)
        place  == [k \in DOMAIN entries |->
                      LET at == {j \in DOMAIN named \cap DOMAIN info.files : named[j] = k}
                      IN IF at = {} THEN entries[k] ELSE new(CHOOSE j \in at : TRUE)]
        rest   == [k \in 1..Len(info.files) - Len(named) |-> new(Len(named) + k)]
    IN place \o (IF Len(info.files) > Len(named) THEN rest ELSE <<>>)

ExpandUploads(entries) ==
    LET uploads == SelectSeq(entries, LAMBDA e : e.name = "hidden")
        others  == SelectSeq(entries, LAMBDA e : e.name # "hidden")
    IN IF uploads = <<>> THEN entries ELSE FoldLeft(InjectFileInfo, others, uploads[1].list)

Received == ExpandUploads(ParseBody(Lines(Sent)))

FilesOf(entries, name) ==
    LET with == SelectSeq(entries, LAMBDA e : e.name = name /\ e.file # NoFile)
    IN [k \in DOMAIN with |-> with[k].file]

-----------------------------------------------------------------------------
(* Properties *)

(* The inputs of the form can be told apart by the hidden input (hidden-info.ts:34-41). *)
Distinct == form[1].id # form[2].id /\ form[1].name # form[2].name

(* The destination receives the files that the page reads from an input, of whatever the     *)
(* user, the page and the runner did to it, unless the browser's own input holds more files: *)
(* the page cleared the input, or the runner uploaded fewer than the user had chosen.        *)
SubmitsWhatThePageSees ==
    Distinct => \A i \in Inputs :
        inputs[i].attached /\ Len(inputs[i].native) <= Len(GetFiles(i)) =>
            FilesOf(Received, form[i].name) = GetFiles(i)

(* When all is quiet an input has the files that were chosen last, unless they were chosen   *)
(* while others were still being read or loaded, or could not be loaded.                     *)
LastChoiceWins ==
    calls = <<>> => \A i \in Inputs \ history.mixed : GetFiles(i) = history.last[i]

(* A file that store has answered for keeps its contents, unless two calls overlapped, which *)
(* list the directory before either writes (upload/storage.ts:93-119).                       *)
StoredFilesAreKept == history.crossed \/ \A k \in history.kept : disk[k[1]] = k[2]

UploadsArrive == SubmitsWhatThePageSees /\ LastChoiceWins /\ StoredFilesAreKept
===============================================================================
