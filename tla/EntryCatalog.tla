---------------------------- MODULE EntryCatalog ----------------------------
(***************************************************************************)
(* What people find of what was written: sources.py keeps a list of data   *)
(* directories in sources.yaml, api_entries.py lists the documents of all  *)
(* of them and opens one by the key it listed, and btwin.py writes new     *)
(* ones, among them the session that ends.  The server's pool threads and  *)
(* commands beside it change the list, each reading it, truncating the     *)
(* file and writing it.  Titles, previews, filters, counts, the names of   *)
(* sources and summary.md, which nothing reads, are left out; index and    *)
(* handoffs of records are those of Records.                               *)
(***************************************************************************)
EXTENDS Naturals, FiniteSets, Sequences, SequencesExt

CONSTANTS
    Workers,        \* pool threads of the server
    Command,        \* the command line beside it, a chat or `sources`
    Here,           \* the data directory of both
    Global,         \* ~/.btwin
    RealPath,       \* what people write -> the data directory it is
    Scans,          \* lists of directories a scan may find
    Shelf,          \* the documents there are to begin with
    Editors,        \* bound: who among them changes the list
    Budgets,        \* bounds: pairs of requests to the catalogue and to write
    MaxWritten,     \* bound: new documents
    MaxCuts         \* bound: kills

ASSUME EntryCatalogAssumption ==
    /\ Command \notin Workers
    /\ {MaxWritten, MaxCuts} \subseteq Nat /\ Budgets \subseteq Nat \X Nat
    /\ \A d \in Shelf :
          d = [home |-> d.home, kind |-> d.kind, project |-> d.project, id |-> d.id,
               version |-> d.version, session |-> 0]

VARIABLES
    sources,        \* sources.yaml; a truncated file reads as no sources
    edit,           \* who changes the list: what is to do, what is to be written
    tidy,           \* no two changes overlapped and none was cut
    shelf,          \* the documents in the directories
    shown,          \* the keys of the last listing
    current,        \* the session of the server and that of the chat
    ending,         \* the session an end has read
    begun,          \* sessions started
    budget, cuts    \* requests there may still be, kills so far

catalogVars == <<sources, edit, tidy, shelf, shown, current, ending, begun, budget, cuts>>

Actors == Workers \cup {Command}

Home(p) == IF p = Command THEN "chat" ELSE "server"

NoSession == 0
NoEdit == [todo |-> <<>>, step |-> "read", list |-> <<>>]

Resting(p) == edit[p] = NoEdit /\ ending[p] = NoSession

Spends(i) == budget[i] > 0 /\ budget' = [budget EXCEPT ![i] = @ - 1]

Changes(p) == p \in Editors /\ Resting(p) /\ Spends(1)
MayWrite(p) == Resting(p) /\ Spends(2)

-----------------------------------------------------------------------------
(***************************************************************************)
(* The list of sources.                                                    *)
(***************************************************************************)
Registered(list) == {list[i].home : i \in DOMAIN list}

\* add_source and ensure_global_default: a directory that is known stays as it is.
WithSource(list, change) ==
    IF RealPath[change.path] \in Registered(list) THEN list
    ELSE Append(list, [home |-> RealPath[change.path], enabled |-> change.enabled])

\* update_source: the first of that id.
WithFlag(list, change) ==
    LET i == SelectInSeq(list, LAMBDA s : s.home = RealPath[change.path])
    IN IF i = 0 THEN list ELSE [list EXCEPT ![i].enabled = change.enabled]

\* refresh_entry_counts: everything is written again, with its count.
Counted(list) == list

Edited(list, change) ==
    CASE change.op = "add"  -> WithSource(list, change)
      [] change.op = "flag" -> WithFlag(list, change)
      [] OTHER              -> Counted(list)

Saves(list, change) ==
    \/ change.op = "count"
    \/ change.op = "add" /\ WithSource(list, change) # list
    \/ change.op = "flag" /\ RealPath[change.path] \in Registered(list)

Add(path, enabled) == [op |-> "add", path |-> path, enabled |-> enabled]
Flag(path, enabled) == [op |-> "flag", path |-> path, enabled |-> enabled]
Count == [op |-> "count", path |-> Global, enabled |-> TRUE]
EnsureGlobal == Add(Global, TRUE)

Asks(p, changes) ==
    /\ Changes(p)
    /\ edit' = [edit EXCEPT ![p].todo = changes]
    /\ tidy' = (tidy /\ \A q \in Actors : edit[q] = NoEdit)
    /\ UNCHANGED <<sources, shelf, shown, current, ending, begun, cuts>>

AskAdd(p) == \E path \in DOMAIN RealPath, enabled \in BOOLEAN : Asks(p, <<Add(path, enabled)>>)

AskFlag(p) ==
    p # Command /\ \E path \in DOMAIN RealPath, enabled \in BOOLEAN : Asks(p, <<Flag(path, enabled)>>)

AskList(p) == Asks(p, <<EnsureGlobal>>)

AskRefresh(p) == Asks(p, <<EnsureGlobal, Count>>)

\* What a scan found, registered one by one.
AskRegister(p) == \E found \in Scans : Asks(p, [i \in DOMAIN found |-> Add(found[i], TRUE)])

RegistryRead(p) ==
    LET change == Head(edit[p].todo)
    IN /\ edit[p].todo # <<>> /\ edit[p].step = "read"
       /\ edit' = [edit EXCEPT ![p] =
              IF Saves(sources, change) THEN [@ EXCEPT !.step = "cut", !.list = Edited(sources, change)]
              ELSE [@ EXCEPT !.todo = Tail(edit[p].todo)]]
       /\ UNCHANGED <<sources, tidy, shelf, shown, current, ending, begun, budget, cuts>>

\* save, whose write_text truncates the file before it writes.
RegistryCut(p) ==
    /\ edit[p].step = "cut"
    /\ sources' = <<>>
    /\ edit' = [edit EXCEPT ![p].step = "write"]
    /\ UNCHANGED <<tidy, shelf, shown, current, ending, begun, budget, cuts>>

RegistryWritten(p) ==
    /\ edit[p].step = "write"
    /\ sources' = edit[p].list
    /\ edit' = [edit EXCEPT ![p] = [NoEdit EXCEPT !.todo = Tail(edit[p].todo)]]
    /\ UNCHANGED <<tidy, shelf, shown, current, ending, begun, budget, cuts>>

-----------------------------------------------------------------------------
(***************************************************************************)
(* The catalogue.  A key names the source, the kind, for a record its      *)
(* project, and the file.  The server's own directory is always searched,  *)
(* also when it is registered as disabled.                                 *)
(***************************************************************************)
Searched(disabledToo) ==
    {Here} \cup {sources[i].home : i \in {j \in DOMAIN sources : sources[j].enabled \/ disabledToo}}

\* read_orchestration_record_document: of the copies the one of the highest version.
Newest(copies) == {d \in copies : \A e \in copies : e.version <= d.version}

Copies(home, id) == {d \in shelf : d.home = home /\ d.kind = "collab" /\ d.id = id}

\* Notes say their project under another name, so their keys all say _global.
KeyOf(d) ==
    [source |-> d.home, kind |-> d.kind, id |-> d.id,
     project |-> IF d.kind = "collab" THEN (CHOOSE n \in Newest(Copies(d.home, d.id)) : TRUE).project
                 ELSE "_global"]

Catalogue == {KeyOf(d) : d \in {e \in shelf : e.home \in Searched(FALSE)}}

ListEntries ==
    /\ Spends(1)
    /\ shown' = Catalogue
    /\ UNCHANGED <<sources, edit, tidy, shelf, current, ending, begun, cuts>>

DetailOfEnabled(key) ==     \* mutant: what was disabled meanwhile cannot be opened
    IF key.source \notin Searched(FALSE) THEN {}
    ELSE IF key.kind = "collab"
         THEN Newest({d \in Copies(key.source, key.id) : d.project = key.project})
         ELSE {d \in shelf : d.home = key.source /\ d.kind = key.kind /\ d.id = key.id}

\* _load_entry_detail
Detail(key) ==
    IF key.source \notin Searched(TRUE) THEN {}
    ELSE IF key.kind = "collab"
         THEN Newest({d \in Copies(key.source, key.id) : d.project = key.project})
         ELSE {d \in shelf : d.home = key.source /\ d.kind = key.kind /\ d.id = key.id}

\* A record that is handed off or completed moves: saved under _global, then unlinked.
RecordMoves ==
    /\ Spends(1)
    /\ \E d \in shelf :
          /\ d.kind = "collab" /\ d.version = 1 /\ Newest(Copies(d.home, d.id)) = {d}
          /\ shelf' = shelf \cup {[d EXCEPT !.project = "_global", !.version = 2]}
    /\ UNCHANGED <<sources, edit, tidy, shown, current, ending, begun, cuts>>

OldCopyGoes ==
    /\ \E d \in shelf :
          /\ d.kind = "collab" /\ d \notin Newest(Copies(d.home, d.id))
          /\ shelf' = shelf \ {d}
    /\ UNCHANGED <<sources, edit, tidy, shown, current, ending, begun, budget, cuts>>

-----------------------------------------------------------------------------
(***************************************************************************)
(* New documents, of a project whose name is checked when they are saved.  *)
(***************************************************************************)
Written == {d \in shelf : d \notin Shelf /\ d.kind # "collab"}

CanWrite == Cardinality(Written) < MaxWritten

NewDocument(kind, session) ==
    [home |-> Here, kind |-> kind, project |-> "own", id |-> Cardinality(Written) + 1,
     version |-> 1, session |-> session]

\* record_convo and import_entry
SaveNote(p) ==
    /\ p # Command /\ MayWrite(p) /\ CanWrite
    /\ \E kind \in {"entry", "convo"} : shelf' = shelf \cup {NewDocument(kind, NoSession)}
    /\ UNCHANGED <<sources, edit, tidy, shown, current, ending, begun, cuts>>

-----------------------------------------------------------------------------
(***************************************************************************)
(* Sessions: one of the server, which start replaces, and one of a chat,   *)
(* which the first message starts.  An end reads the session, may have a   *)
(* model word its summary, forgets the session and saves it.               *)
(***************************************************************************)
StartSession(p) ==
    /\ p # Command /\ MayWrite(p)
    /\ begun' = begun + 1
    /\ current' = [current EXCEPT !["server"] = begun + 1]
    /\ UNCHANGED <<sources, edit, tidy, shelf, shown, ending, cuts>>

ChatMessage ==
    /\ MayWrite(Command)
    /\ IF current["chat"] = NoSession
       THEN begun' = begun + 1 /\ current' = [current EXCEPT !["chat"] = begun + 1]
       ELSE UNCHANGED <<begun, current>>
    /\ UNCHANGED <<sources, edit, tidy, shelf, shown, ending, cuts>>

\* The model fails or the person leaves by ctrl-d: nothing is saved.
ChatLeft ==
    /\ Resting(Command) /\ current["chat"] # NoSession
    /\ current' = [current EXCEPT !["chat"] = NoSession]
    /\ UNCHANGED <<sources, edit, tidy, shelf, shown, ending, begun, budget, cuts>>

EndRead(p) ==
    /\ MayWrite(p)
    /\ ending' = [ending EXCEPT ![p] = current[Home(p)]]
    /\ UNCHANGED <<sources, edit, tidy, shelf, shown, current, begun, cuts>>

EndForgetsLater(p) ==       \* mutant: the session is kept until it is saved
    /\ ending[p] # NoSession /\ edit[p] = NoEdit
    /\ edit' = [edit EXCEPT ![p].step = "save"]
    /\ UNCHANGED <<sources, tidy, shelf, shown, current, ending, begun, budget, cuts>>

\* What another request started meanwhile is forgotten with it.
EndForgets(p) ==
    /\ ending[p] # NoSession /\ edit[p] = NoEdit
    /\ current' = [current EXCEPT ![Home(p)] = NoSession]
    /\ edit' = [edit EXCEPT ![p].step = "save"]
    /\ UNCHANGED <<sources, tidy, shelf, shown, ending, begun, budget, cuts>>

EndSaved(p) ==
    /\ edit[p].step = "save"
    /\ \/ UNCHANGED shelf                       \* the project was no name for one
       \/ CanWrite /\ shelf' = shelf \cup {NewDocument("entry", ending[p])}
    /\ edit' = [edit EXCEPT ![p] = NoEdit]
    /\ ending' = [ending EXCEPT ![p] = NoSession]
    /\ UNCHANGED <<sources, tidy, shown, current, begun, budget, cuts>>

\* A kill of the server or of the command takes what it had in memory.
CatalogKill(home) ==
    LET gone == {p \in Actors : Home(p) = home}
    IN /\ cuts < MaxCuts /\ cuts' = cuts + 1
       /\ edit' = [p \in Actors |-> IF p \in gone THEN NoEdit ELSE edit[p]]
       /\ ending' = [p \in Actors |-> IF p \in gone THEN NoSession ELSE ending[p]]
       /\ current' = [current EXCEPT ![home] = NoSession]
       /\ tidy' = (tidy /\ \A p \in gone : edit[p].step # "write")
       /\ UNCHANGED <<sources, shelf, shown, begun, budget>>

-----------------------------------------------------------------------------
CatalogInit ==
    /\ sources = <<>> /\ edit = [p \in Actors |-> NoEdit] /\ tidy = TRUE
    /\ shelf = Shelf /\ shown = {}
    /\ current = [home \in {"server", "chat"} |-> NoSession]
    /\ ending = [p \in Actors |-> NoSession]
    /\ begun = 0 /\ budget \in Budgets /\ cuts = 0

CatalogNext ==
    \/ \E p \in Actors :
          \/ AskAdd(p) \/ AskFlag(p) \/ AskList(p) \/ AskRefresh(p) \/ AskRegister(p)
          \/ RegistryRead(p) \/ RegistryCut(p) \/ RegistryWritten(p)
          \/ SaveNote(p)
          \/ StartSession(p) \/ EndRead(p) \/ EndForgets(p) \/ EndSaved(p)
    \/ ListEntries \/ RecordMoves \/ OldCopyGoes
    \/ ChatMessage \/ ChatLeft
    \/ \E home \in {"server", "chat"} : CatalogKill(home)

CatalogSpec == CatalogInit /\ [][CatalogNext]_catalogVars

-----------------------------------------------------------------------------
(***************************************************************************)
(* What was listed can be opened later by its key, through every change of *)
(* the sources in between, disabling its own one included: the document,   *)
(* and of a record its newest copy unless it moved to another project.     *)
(* The list must be whole: no two changes overlapped and none was cut.     *)
(* And a directory is registered once, under whatever names people give it *)
(* and whoever else changes the list: its documents would otherwise be     *)
(* listed twice under the same keys (add_source compares the real paths).  *)
(***************************************************************************)
Whole == tidy /\ \A p \in Actors : edit[p].step # "write"

ListedOpens ==
    Whole => \A key \in shown :
        LET copies == Copies(key.source, key.id)
        IN IF key.kind = "collab"
           THEN (\A d \in copies : d.project = key.project) => Detail(key) = Newest(copies)
           ELSE Detail(key) # {}

SourceOnce ==
    \A i, j \in DOMAIN sources : sources[i].home = sources[j].home => i = j

CatalogueHolds == ListedOpens /\ SourceOnce

(***************************************************************************)
(* A session that was saved is over: no start, message or other end that   *)
(* came in between brings it back, so an end that is repeated after its    *)
(* answer was lost does not save it once more (end_session clears the      *)
(* manager before it saves).                                               *)
(***************************************************************************)
SavedIsOver ==
    \A d \in shelf : d.session # NoSession => d.session \notin {current["server"], current["chat"]}
=============================================================================
