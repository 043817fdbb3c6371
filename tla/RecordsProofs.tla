---------------------------- MODULE RecordsProofs ----------------------------
(***************************************************************************)
(* What stores of MCRecords keep for every value of their constants: the   *)
(* catalogue of sources, with its sessions, the messages of a thread, and  *)
(* the records and notes of the data directory.                            *)
(***************************************************************************)
EXTENDS EntryCatalog, ThreadMail, Records, SequenceTheorems, TLAPS

(***************************************************************************)
(* A list, of which nothing is known but that it is one.                   *)
(***************************************************************************)
IsList(q) == Len(q) \in Nat /\ q = [i \in 1..Len(q) |-> q[i]]

\* A sequence is a list.
LEMMA SeqIsList == ASSUME NEW S, NEW q \in Seq(S) PROVE IsList(q)
BY DEF IsList

\* One more item at the end.
LEMMA ListAppend ==
    ASSUME NEW q, IsList(q), NEW e
    PROVE  /\ IsList(Append(q, e)) /\ Len(Append(q, e)) = Len(q) + 1
           /\ DOMAIN Append(q, e) = 1..(Len(q) + 1) /\ DOMAIN q = 1..Len(q)
           /\ \A i \in 1..Len(q) : Append(q, e)[i] = q[i]
           /\ Append(q, e)[Len(q) + 1] = e
<1> DEFINE S == {q[i] : i \in 1..Len(q)} \cup {e}
<1>1. q \in Seq(S)
  <2>1. q \in [1..Len(q) -> S]
    BY DEF IsList
  <2>2. QED
    BY <2>1 DEF IsList
<1>2. e \in S
  OBVIOUS
<1> HIDE DEF S
<1>3. Append(q, e) \in Seq(S)
  BY <1>1, <1>2
<1>4. IsList(Append(q, e))
  BY <1>3, SeqIsList
<1>5. QED
  BY <1>1, <1>2, <1>4

-----------------------------------------------------------------------------
(***************************************************************************)
(* The catalogue.  A list of sources names no directory twice, however     *)
(* changes overlap; and changing one loses no directory it names.          *)
(***************************************************************************)
IsSource(x) == x = [home |-> x.home, enabled |-> x.enabled]

Once(list) ==
    /\ IsList(list) /\ \A i \in 1..Len(list) : IsSource(list[i])
    /\ \A i, j \in 1..Len(list) : list[i].home = list[j].home => i = j

\* No sources.
LEMMA OnceEmpty == Once(<<>>) /\ Registered(<<>>) = {}
BY DEF Once, IsList, Registered

\* A source is added when its directory is not there.
LEMMA AddOnce ==
    ASSUME NEW list, Once(list), NEW change
    PROVE  /\ Once(WithSource(list, change))
           /\ Registered(list) \subseteq Registered(WithSource(list, change))
<1>1. CASE RealPath[change.path] \in Registered(list)
  BY <1>1 DEF WithSource
<1>2. CASE RealPath[change.path] \notin Registered(list)
  <2> DEFINE e == [home |-> RealPath[change.path], enabled |-> change.enabled]
  <2> DEFINE new == Append(list, e)
  <2>1. WithSource(list, change) = new
    BY <1>2 DEF WithSource
  <2>2. IsList(list)
    BY DEF Once
  <2>3. IsSource(e) /\ e.home = RealPath[change.path]
    BY DEF IsSource
  <2> HIDE DEF e
  <2>4. /\ IsList(new) /\ Len(new) = Len(list) + 1
        /\ DOMAIN new = 1..(Len(list) + 1) /\ DOMAIN list = 1..Len(list)
        /\ \A i \in 1..Len(list) : new[i] = list[i]
        /\ new[Len(list) + 1] = e
    BY <2>2, ListAppend
  <2> HIDE DEF new
  <2>5. \A i \in 1..Len(list) : list[i].home # e.home
    BY <1>2, <2>3, <2>4 DEF Registered
  <2>6. Len(list) \in Nat
    BY <2>2 DEF IsList
  <2>7. \A i \in 1..Len(new) : i \in 1..Len(list) \/ i = Len(list) + 1
    BY <2>4, <2>6
  <2>8. Once(new)
    BY <2>3, <2>4, <2>5, <2>7 DEF Once
  <2>9. Registered(list) \subseteq Registered(new)
    BY <2>4, <2>6 DEF Registered
  <2>10. QED
    BY <2>1, <2>8, <2>9
<1>3. QED
  BY <1>1, <1>2

\* A flag changes no directory.
LEMMA FlagOnce ==
    ASSUME NEW list, Once(list), NEW change
    PROVE  /\ Once(WithFlag(list, change))
           /\ Registered(list) \subseteq Registered(WithFlag(list, change))
<1>1. PICK k : WithFlag(list, change) = list
                 \/ WithFlag(list, change) = [list EXCEPT ![k].enabled = change.enabled]
  BY DEF WithFlag
<1>2. CASE WithFlag(list, change) = list
  BY <1>2
<1>3. CASE WithFlag(list, change) = [list EXCEPT ![k].enabled = change.enabled]
  <2> DEFINE new == [list EXCEPT ![k].enabled = change.enabled]
  <2>1. Len(list) \in Nat /\ DOMAIN list = 1..Len(list)
    BY DEF Once, IsList
  <2>2. DOMAIN new = 1..Len(list)
    BY <2>1
  <2>3. \A i \in 1..Len(list) : IsSource(new[i]) /\ new[i].home = list[i].home
    BY <2>1 DEF Once, IsSource
  <2>4. new = [i \in 1..Len(list) |-> new[i]]
    BY <2>1
  <2> HIDE DEF new
  <2>5. Len(new) = Len(list) /\ IsList(new)
    BY <2>1, <2>2, <2>4 DEF IsList
  <2>6. Once(new)
    BY <2>3, <2>5 DEF Once
  <2>7. Registered(list) \subseteq Registered(new)
    BY <2>1, <2>2, <2>3 DEF Registered
  <2>8. QED
    BY <1>3, <2>6, <2>7 DEF new
<1>4. QED
  BY <1>1, <1>2, <1>3

\* So what a change writes is sound, and has what it read.
LEMMA EditOnce ==
    ASSUME NEW list, Once(list), NEW change
    PROVE  /\ Once(Edited(list, change))
           /\ Registered(list) \subseteq Registered(Edited(list, change))
BY AddOnce, FlagOnce DEF Edited, Counted

(***************************************************************************)
(* Who changes the list has read it; while the changes do not overlap and  *)
(* none is cut, what was listed stays registered, in the file or, once     *)
(* that is truncated, in the list about to be written.                     *)
(***************************************************************************)
IsEdit(x) == x = [todo |-> x.todo, step |-> x.step, list |-> x.list]

EditType ==
    /\ edit = [p \in Actors |-> edit[p]]
    /\ \A p \in Actors : IsEdit(edit[p])

ListsInv == Once(sources) /\ \A p \in Actors : Once(edit[p].list)

Listed(list) == \A key \in shown : key.source \in {Here} \cup Registered(list)

LostNever ==
    tidy =>
        /\ \A p, q \in Actors : edit[p].todo # <<>> /\ edit[q].todo # <<>> => p = q
        /\ \A p \in Actors : edit[p].step \in {"cut", "write"} => edit[p].todo # <<>>
        /\ \A p \in Actors : edit[p].step \in {"cut", "write"} =>
                              Registered(sources) \subseteq Registered(edit[p].list)
        /\ \A p \in Actors : edit[p].step = "write" => Listed(edit[p].list)
        /\ (\A p \in Actors : edit[p].step # "write") => Listed(sources)

\* What is listed stays on the shelf, but for the copies of records.
OnShelf ==
    \A key \in shown : key.kind # "collab" =>
        \E d \in shelf : d.home = key.source /\ d.kind = key.kind /\ d.id = key.id

SourcesInv == EditType /\ ListsInv /\ LostNever /\ OnShelf

\* It holds at the start.
LEMMA SourcesStart == CatalogInit => SourcesInv
<1> SUFFICES ASSUME CatalogInit PROVE SourcesInv
  OBVIOUS
<1>1. sources = <<>> /\ edit = [p \in Actors |-> NoEdit] /\ shown = {}
  BY DEF CatalogInit
<1>2. \A p \in Actors : edit[p] = NoEdit
  BY <1>1
<1>3. IsEdit(NoEdit) /\ NoEdit.list = <<>> /\ NoEdit.todo = <<>> /\ NoEdit.step = "read"
  BY DEF NoEdit, IsEdit
<1>4. QED
  BY <1>1, <1>2, <1>3, OnceEmpty DEF SourcesInv, EditType, ListsInv, LostNever, OnShelf, Listed

\* A change is asked for.
LEMMA AskSources ==
    ASSUME SourcesInv, NEW p \in Actors, NEW changes, Asks(p, changes)
    PROVE  SourcesInv'
<1>1. /\ edit' = [edit EXCEPT ![p].todo = changes] /\ UNCHANGED <<sources, shelf, shown>>
      /\ tidy' = (tidy /\ \A q \in Actors : edit[q] = NoEdit)
      /\ edit[p] = NoEdit
  BY DEF Asks, Changes, Resting
<1>2. edit = [q \in Actors |-> edit[q]] /\ \A q \in Actors : IsEdit(edit[q])
  BY DEF SourcesInv, EditType
<1>3. /\ \A q \in Actors : q # p => edit'[q] = edit[q]
      /\ edit'[p].step = "read" /\ edit'[p].list = edit[p].list /\ IsEdit(edit'[p])
      /\ edit' = [q \in Actors |-> edit'[q]]
  BY <1>1, <1>2 DEF NoEdit, IsEdit
<1>4. EditType'
  BY <1>2, <1>3 DEF EditType
<1>5. ListsInv'
  BY <1>1, <1>3 DEF ListsInv, SourcesInv
<1>6. OnShelf'
  BY <1>1 DEF OnShelf, SourcesInv
<1>7. ASSUME tidy' PROVE LostNever'
  <2>5. tidy /\ (\A q \in Actors : edit[q] = NoEdit)
    BY <1>1, <1>7
  <2>6. NoEdit.todo = <<>> /\ NoEdit.step = "read"
    BY DEF NoEdit
  <2>1. tidy /\ \A q \in Actors : edit[q].todo = <<>> /\ edit[q].step = "read"
    BY <2>5, <2>6
  <2>2. Listed(sources)
    BY <2>1 DEF SourcesInv, LostNever
  <2>3. /\ \A q \in Actors : edit'[q].todo # <<>> => q = p
        /\ \A q \in Actors : edit'[q].step = "read"
    BY <1>3, <2>1
  <2>4. QED
    BY <1>1, <2>2, <2>3 DEF LostNever, Listed
<1>8. QED
  BY <1>4, <1>5, <1>6, <1>7 DEF SourcesInv, LostNever

\* The list is read, and what is to be written is made of it.
LEMMA ReadSources ==
    ASSUME SourcesInv, NEW p \in Actors, RegistryRead(p)
    PROVE  SourcesInv'
<1> DEFINE change == Head(edit[p].todo)
<1>1. /\ edit[p].todo # <<>> /\ edit[p].step = "read"
      /\ UNCHANGED <<sources, tidy, shelf, shown>>
  BY DEF RegistryRead
<1>2. edit = [q \in Actors |-> edit[q]] /\ \A q \in Actors : IsEdit(edit[q])
  BY DEF SourcesInv, EditType
<1>3. CASE Saves(sources, change)
  <2>1. edit' = [edit EXCEPT ![p] = [edit[p] EXCEPT !.step = "cut", !.list = Edited(sources, change)]]
    BY <1>3 DEF RegistryRead
  <2> HIDE DEF change
  <2>7. PICK list : list = Edited(sources, change)
    OBVIOUS
  <2>8. edit' = [edit EXCEPT ![p] = [edit[p] EXCEPT !.step = "cut", !.list = list]]
    BY <2>1, <2>7
  <2>9. PICK new : new = [edit[p] EXCEPT !.step = "cut", !.list = list]
    OBVIOUS
  <2>10. IsEdit(edit[p])
    BY <1>2
  <2>11. new.step = "cut" /\ new.list = list /\ new.todo = edit[p].todo /\ IsEdit(new)
    BY <2>9, <2>10 DEF IsEdit
  <2>12. edit' = [edit EXCEPT ![p] = new]
    BY <2>8, <2>9
  <2>2. /\ \A q \in Actors : q # p => edit'[q] = edit[q]
        /\ edit'[p].step = "cut" /\ edit'[p].list = Edited(sources, change)
        /\ edit'[p].todo = edit[p].todo /\ IsEdit(edit'[p])
        /\ edit' = [q \in Actors |-> edit'[q]]
    BY <1>2, <2>7, <2>11, <2>12
  <2>3. /\ Once(Edited(sources, change))
        /\ Registered(sources) \subseteq Registered(Edited(sources, change))
    BY EditOnce DEF SourcesInv, ListsInv
  <2>4. EditType' /\ ListsInv' /\ OnShelf'
    BY <1>1, <1>2, <2>2, <2>3 DEF EditType, ListsInv, OnShelf, SourcesInv
  <2>5. ASSUME tidy PROVE LostNever'
    <3>1. /\ \A q, r \in Actors : edit[q].todo # <<>> /\ edit[r].todo # <<>> => q = r
          /\ \A q \in Actors : edit[q].step \in {"cut", "write"} => edit[q].todo # <<>>
          /\ (\A q \in Actors : edit[q].step # "write") => Listed(sources)
      BY <2>5 DEF SourcesInv, LostNever
    <3>2. \A q \in Actors : q # p => edit[q].todo = <<>> /\ edit[q].step \notin {"cut", "write"}
      BY <1>1, <3>1
    <3>3. \A q \in Actors : q # p => edit'[q].todo = <<>> /\ edit'[q].step \notin {"cut", "write"}
      BY <2>2, <3>2
    <3>4. Listed(sources)
      BY <1>1, <3>1, <3>2
    <3>5. QED
      BY <1>1, <2>2, <2>3, <3>3, <3>4 DEF LostNever, Listed
  <2>6. QED
    BY <1>1, <2>4, <2>5 DEF SourcesInv, LostNever
<1>4. CASE ~Saves(sources, change)
  <2>1. edit' = [edit EXCEPT ![p] = [edit[p] EXCEPT !.todo = Tail(edit[p].todo)]]
    BY <1>4 DEF RegistryRead
  <2>2. PICK rest : edit' = [edit EXCEPT ![p] = [edit[p] EXCEPT !.todo = rest]]
    BY <2>1
  <2>3. /\ \A q \in Actors : q # p => edit'[q] = edit[q]
        /\ edit'[p].step = "read" /\ edit'[p].list = edit[p].list /\ IsEdit(edit'[p])
        /\ edit' = [q \in Actors |-> edit'[q]]
    BY <1>1, <1>2, <2>2 DEF IsEdit
  <2>4. EditType' /\ ListsInv' /\ OnShelf'
    BY <1>1, <1>2, <2>3 DEF EditType, ListsInv, OnShelf, SourcesInv
  <2>5. \A q \in Actors : (edit'[q].todo # <<>> => edit[q].todo # <<>>) /\ edit'[q].step = edit[q].step
                         /\ edit'[q].list = edit[q].list
    BY <1>1, <2>3
  <2>6. \A q \in Actors : edit[q].step \in {"cut", "write"} => q # p
    BY <1>1
  <2>7. LostNever'
    BY <1>1, <2>3, <2>5, <2>6 DEF SourcesInv, LostNever, Listed
  <2>8. QED
    BY <2>4, <2>7 DEF SourcesInv
<1>5. QED
  BY <1>3, <1>4

\* The file is truncated.
LEMMA CutSources ==
    ASSUME SourcesInv, NEW p \in Actors, RegistryCut(p)
    PROVE  SourcesInv'
<1>1. /\ edit[p].step = "cut" /\ sources' = <<>> /\ UNCHANGED <<tidy, shelf, shown>>
      /\ edit' = [edit EXCEPT ![p].step = "write"]
  BY DEF RegistryCut
<1>2. edit = [q \in Actors |-> edit[q]] /\ \A q \in Actors : IsEdit(edit[q])
  BY DEF SourcesInv, EditType
<1>3. /\ \A q \in Actors : q # p => edit'[q] = edit[q]
      /\ edit'[p].step = "write" /\ edit'[p].list = edit[p].list /\ edit'[p].todo = edit[p].todo
      /\ IsEdit(edit'[p]) /\ edit' = [q \in Actors |-> edit'[q]]
  BY <1>1, <1>2 DEF IsEdit
<1>4. EditType' /\ ListsInv' /\ OnShelf'
  BY <1>1, <1>2, <1>3, OnceEmpty DEF EditType, ListsInv, OnShelf, SourcesInv
<1>5. ASSUME tidy PROVE LostNever'
  <2>1. /\ \A q, r \in Actors : edit[q].todo # <<>> /\ edit[r].todo # <<>> => q = r
        /\ \A q \in Actors : edit[q].step \in {"cut", "write"} => edit[q].todo # <<>>
        /\ Registered(sources) \subseteq Registered(edit[p].list)
        /\ (\A q \in Actors : edit[q].step # "write") => Listed(sources)
    BY <1>1, <1>5 DEF SourcesInv, LostNever
  <2>2. \A q \in Actors : q # p => edit[q].step \notin {"cut", "write"}
    BY <1>1, <2>1
  <2>3. Listed(sources)
    BY <1>1, <2>1, <2>2
  <2>4. Listed(edit[p].list)
    BY <2>1, <2>3 DEF Listed
  <2>8. Registered(sources') = {}
    BY <1>1, OnceEmpty
  <2>5. \A q \in Actors : q # p => edit'[q].step \notin {"cut", "write"}
    BY <1>3, <2>2
  <2>6. \A q \in Actors : edit'[q].todo = edit[q].todo
    BY <1>3
  <2>7. QED
    BY <1>1, <1>3, <2>1, <2>4, <2>5, <2>6, <2>8 DEF LostNever, Listed
<1>6. QED
  BY <1>1, <1>4, <1>5 DEF SourcesInv, LostNever

\* The file is written.
LEMMA WriteSources ==
    ASSUME SourcesInv, NEW p \in Actors, RegistryWritten(p)
    PROVE  SourcesInv'
<1>1. /\ edit[p].step = "write" /\ sources' = edit[p].list /\ UNCHANGED <<tidy, shelf, shown>>
      /\ edit' = [edit EXCEPT ![p] = [NoEdit EXCEPT !.todo = Tail(edit[p].todo)]]
  BY DEF RegistryWritten
<1>2. edit = [q \in Actors |-> edit[q]] /\ \A q \in Actors : IsEdit(edit[q])
  BY DEF SourcesInv, EditType
<1>3. /\ \A q \in Actors : q # p => edit'[q] = edit[q]
      /\ edit'[p].step = "read" /\ edit'[p].list = <<>>
      /\ IsEdit(edit'[p]) /\ edit' = [q \in Actors |-> edit'[q]]
  BY <1>1, <1>2 DEF IsEdit, NoEdit
<1>4. EditType' /\ ListsInv' /\ OnShelf'
  BY <1>1, <1>2, <1>3, OnceEmpty DEF EditType, ListsInv, OnShelf, SourcesInv
<1>5. ASSUME tidy PROVE LostNever'
  <2>1. /\ \A q, r \in Actors : edit[q].todo # <<>> /\ edit[r].todo # <<>> => q = r
        /\ \A q \in Actors : edit[q].step \in {"cut", "write"} => edit[q].todo # <<>>
        /\ Listed(edit[p].list)
    BY <1>1, <1>5 DEF SourcesInv, LostNever
  <2>2. \A q \in Actors : q # p => edit[q].step \notin {"cut", "write"} /\ edit[q].todo = <<>>
    BY <1>1, <2>1
  <2>3. /\ \A q \in Actors : edit'[q].step \notin {"cut", "write"}
        /\ \A q \in Actors : edit'[q].todo # <<>> => q = p
    BY <1>3, <2>2
  <2>4. QED
    BY <1>1, <2>1, <2>3 DEF LostNever, Listed
<1>6. QED
  BY <1>1, <1>4, <1>5 DEF SourcesInv, LostNever

\* A kill in the middle of a write is remembered.
LEMMA KillSources ==
    ASSUME SourcesInv, NEW home, CatalogKill(home)
    PROVE  SourcesInv'
<1> DEFINE gone == {p \in Actors : Home(p) = home}
<1>1. /\ edit' = [p \in Actors |-> IF p \in gone THEN NoEdit ELSE edit[p]]
      /\ tidy' = (tidy /\ \A p \in gone : edit[p].step # "write")
      /\ UNCHANGED <<sources, shelf, shown>>
  BY DEF CatalogKill
<1> HIDE DEF gone
<1>2. \A p \in Actors : edit'[p] = edit[p] \/ (p \in gone /\ edit'[p] = NoEdit)
  BY <1>1
<1>3. IsEdit(NoEdit) /\ NoEdit.list = <<>> /\ NoEdit.todo = <<>> /\ NoEdit.step = "read"
  BY DEF NoEdit, IsEdit
<1>4. EditType' /\ ListsInv' /\ OnShelf'
  BY <1>1, <1>2, <1>3, OnceEmpty DEF EditType, ListsInv, OnShelf, SourcesInv
<1>5. ASSUME tidy' PROVE LostNever'
  <2>1. tidy /\ \A p \in gone : edit[p].step # "write"
    BY <1>1, <1>5
  <2>2. \A p \in Actors : edit[p].step = "write" => edit'[p] = edit[p]
    BY <1>2, <2>1
  <2>3. \A p \in Actors : /\ edit'[p].todo # <<>> => edit[p].todo # <<>>
                          /\ edit'[p].step \in {"cut", "write"} => edit'[p] = edit[p]
    BY <1>2, <1>3
  <2>4. QED
    BY <1>1, <2>1, <2>2, <2>3 DEF SourcesInv, LostNever, Listed
<1>6. QED
  BY <1>4, <1>5 DEF SourcesInv, LostNever

\* An action that leaves the list and its changes alone, and takes from the
\* shelf at most copies of records.
LEMMA LeaveSources ==
    ASSUME SourcesInv, UNCHANGED <<sources, edit, tidy, shown>>,
           \A d \in shelf : d.kind # "collab" => d \in shelf'
    PROVE  SourcesInv'
<1>1. EditType' /\ ListsInv'
  BY DEF SourcesInv, EditType, ListsInv
<1>2. LostNever'
  BY DEF SourcesInv, LostNever, Listed
<1>3. OnShelf'
  BY DEF SourcesInv, OnShelf
<1>4. QED
  BY <1>1, <1>2, <1>3 DEF SourcesInv

\* An end forgets its session or saves it, which only marks who does it.
LEMMA EndSources ==
    ASSUME SourcesInv, NEW p \in Actors, EndForgets(p) \/ EndSaved(p)
    PROVE  SourcesInv'
<1>1. IsEdit(NoEdit) /\ NoEdit.list = <<>> /\ NoEdit.todo = <<>> /\ NoEdit.step = "read"
  BY DEF NoEdit, IsEdit
<1>2. edit = [q \in Actors |-> edit[q]] /\ \A q \in Actors : IsEdit(edit[q])
  BY DEF SourcesInv, EditType
<1>3. /\ UNCHANGED <<sources, tidy, shown>>
      /\ \A q \in Actors : q # p => edit'[q] = edit[q]
      /\ edit'[p].step \notin {"cut", "write"} /\ edit[p].step \notin {"cut", "write"}
      /\ IsEdit(edit'[p]) /\ edit' = [q \in Actors |-> edit'[q]]
      /\ edit'[p].todo = <<>> /\ edit'[p].list = <<>>
      /\ \A d \in shelf : d \in shelf'
  <2>1. CASE EndForgets(p)
    <3>1. /\ edit[p] = NoEdit /\ edit' = [edit EXCEPT ![p].step = "save"]
          /\ UNCHANGED <<sources, tidy, shown, shelf>>
      BY <2>1 DEF EndForgets
    <3>2. /\ IsEdit(edit'[p]) /\ edit'[p].step = "save" /\ edit'[p].todo = edit[p].todo
          /\ edit'[p].list = edit[p].list
          /\ edit' = [q \in Actors |-> edit'[q]] /\ \A q \in Actors : q # p => edit'[q] = edit[q]
      BY <1>2, <3>1 DEF IsEdit
    <3>3. QED
      BY <1>1, <3>1, <3>2
  <2>2. CASE EndSaved(p)
    <3>1. /\ edit[p].step = "save" /\ edit' = [edit EXCEPT ![p] = NoEdit]
          /\ UNCHANGED <<sources, tidy, shown>> /\ \A d \in shelf : d \in shelf'
      BY <2>2 DEF EndSaved
    <3>2. /\ edit'[p] = NoEdit /\ edit' = [q \in Actors |-> edit'[q]]
          /\ \A q \in Actors : q # p => edit'[q] = edit[q]
      BY <1>2, <3>1
    <3>3. QED
      BY <1>1, <3>1, <3>2
  <2>3. QED
    BY <2>1, <2>2
<1>4. EditType' /\ ListsInv'
  BY <1>2, <1>3, OnceEmpty DEF EditType, ListsInv, SourcesInv
<1>5. OnShelf'
  BY <1>3 DEF OnShelf, SourcesInv
<1>6. ASSUME tidy' PROVE LostNever'
  <2>1. /\ \A q \in Actors : edit'[q].todo # <<>> => q # p /\ edit[q].todo # <<>>
        /\ \A q \in Actors : (edit'[q].step \in {"cut", "write"} => q # p) /\ (q # p => edit'[q] = edit[q])
        /\ \A q \in Actors : edit[q].step = "write" => edit'[q].step = "write"
    BY <1>3
  <2>2. QED
    BY <1>3, <1>6, <2>1 DEF SourcesInv, LostNever, Listed
<1>7. QED
  BY <1>4, <1>5, <1>6 DEF SourcesInv, LostNever

\* What is listed is in a directory that is registered, or in the server's own.
LEMMA ListSources ==
    ASSUME SourcesInv, ListEntries
    PROVE  SourcesInv'
<1>1. shown' = Catalogue /\ UNCHANGED <<sources, edit, tidy, shelf>>
  BY DEF ListEntries
<1>8. \A d \in shelf : KeyOf(d).source = d.home /\ KeyOf(d).kind = d.kind /\ KeyOf(d).id = d.id
  BY DEF KeyOf
<1>9. \A key \in Catalogue : \E d \in shelf : key = KeyOf(d) /\ d.home \in Searched(FALSE)
  BY DEF Catalogue
<1>2. \A key \in Catalogue : key.source \in Searched(FALSE)
  BY <1>9, <1>8
<1>3. Searched(FALSE) \subseteq {Here} \cup Registered(sources)
  BY DEF Searched, Registered
<1>4. OnShelf'
  <2>1. SUFFICES ASSUME NEW key \in shown', key.kind # "collab"
                 PROVE  \E d \in shelf : d.home = key.source /\ d.kind = key.kind /\ d.id = key.id
    BY <1>1 DEF OnShelf
  <2>2. PICK d \in shelf : key = KeyOf(d)
    BY <1>1, <1>9, <2>1
  <2>3. QED
    BY <1>8, <2>2
<1>5. EditType' /\ ListsInv'
  BY <1>1 DEF SourcesInv, EditType, ListsInv
<1>6. ASSUME tidy PROVE LostNever'
  <2>1. /\ \A q, r \in Actors : edit[q].todo # <<>> /\ edit[r].todo # <<>> => q = r
        /\ \A q \in Actors : edit[q].step \in {"cut", "write"} => edit[q].todo # <<>>
        /\ \A q \in Actors : edit[q].step \in {"cut", "write"} =>
                             Registered(sources) \subseteq Registered(edit[q].list)
    BY <1>6 DEF SourcesInv, LostNever
  <2>2. \A key \in shown' : key.source \in {Here} \cup Registered(sources)
    BY <1>1, <1>2, <1>3
  <2>3. \A q \in Actors : edit[q].step = "write" =>
            \A key \in shown' : key.source \in {Here} \cup Registered(edit[q].list)
    BY <2>1, <2>2
  <2>4. QED
    BY <1>1, <2>1, <2>2, <2>3 DEF LostNever, Listed
<1>7. QED
  BY <1>1, <1>4, <1>5, <1>6 DEF SourcesInv, LostNever

\* Every step.
LEMMA SourcesStep == SourcesInv /\ [CatalogNext]_catalogVars => SourcesInv'
<1> SUFFICES ASSUME SourcesInv, [CatalogNext]_catalogVars PROVE SourcesInv'
  OBVIOUS
<1>1. ASSUME UNCHANGED catalogVars PROVE SourcesInv'
  BY <1>1, LeaveSources DEF catalogVars
<1>2. ASSUME NEW p \in Actors, AskAdd(p) \/ AskFlag(p) \/ AskList(p) \/ AskRefresh(p) \/ AskRegister(p)
      PROVE  SourcesInv'
  <2>1. PICK changes : Asks(p, changes)
    BY <1>2 DEF AskAdd, AskFlag, AskList, AskRefresh, AskRegister
  <2>2. QED
    BY <2>1, AskSources
<1>3. ASSUME NEW p \in Actors, RegistryRead(p) \/ RegistryCut(p) \/ RegistryWritten(p)
      PROVE  SourcesInv'
  BY <1>3, ReadSources, CutSources, WriteSources
<1>4. ASSUME NEW p \in Actors, SaveNote(p) \/ StartSession(p) \/ EndRead(p) PROVE SourcesInv'
  <2>1. UNCHANGED <<sources, edit, tidy, shown>> /\ \A d \in shelf : d \in shelf'
    BY <1>4 DEF SaveNote, StartSession, EndRead
  <2>2. QED
    BY <2>1, LeaveSources
<1>5. ASSUME NEW p \in Actors, EndForgets(p) \/ EndSaved(p) PROVE SourcesInv'
  BY <1>5, EndSources
<1>6. ASSUME ListEntries PROVE SourcesInv'
  BY <1>6, ListSources
<1>7. ASSUME RecordMoves \/ ChatMessage \/ ChatLeft PROVE SourcesInv'
  <2>1. UNCHANGED <<sources, edit, tidy, shown>> /\ \A d \in shelf : d \in shelf'
    BY <1>7 DEF RecordMoves, ChatMessage, ChatLeft
  <2>2. QED
    BY <2>1, LeaveSources
<1>8. ASSUME OldCopyGoes PROVE SourcesInv'
  <2>1. UNCHANGED <<sources, edit, tidy, shown>> /\ \A d \in shelf : d.kind # "collab" => d \in shelf'
    BY <1>8 DEF OldCopyGoes
  <2>2. QED
    BY <2>1, LeaveSources
<1>9. ASSUME NEW home, CatalogKill(home) PROVE SourcesInv'
  BY <1>9, KillSources
<1>10. QED
  BY <1>1, <1>2, <1>3, <1>4, <1>5, <1>6, <1>7, <1>8, <1>9 DEF CatalogNext

\* So what is listed opens.
LEMMA SourcesSay == SourcesInv => CatalogueHolds
<1> SUFFICES ASSUME SourcesInv PROVE CatalogueHolds
  OBVIOUS
<1>1. SourceOnce
  <2>1. Once(sources) /\ DOMAIN sources = 1..Len(sources)
    BY DEF SourcesInv, ListsInv, Once, IsList
  <2>2. QED
    BY <2>1 DEF SourceOnce, Once
<1>2. ASSUME Whole, NEW key \in shown
      PROVE  LET copies == Copies(key.source, key.id)
             IN IF key.kind = "collab"
                THEN (\A d \in copies : d.project = key.project) => Detail(key) = Newest(copies)
                ELSE Detail(key) # {}
  <2>1. key.source \in Searched(TRUE)
    BY <1>2 DEF Whole, SourcesInv, LostNever, Listed, Searched, Registered
  <2>2. CASE key.kind = "collab"
    <3>1. ASSUME \A d \in Copies(key.source, key.id) : d.project = key.project
          PROVE  Detail(key) = Newest(Copies(key.source, key.id))
      <4>1. {d \in Copies(key.source, key.id) : d.project = key.project} = Copies(key.source, key.id)
        BY <3>1
      <4>2. QED
        BY <2>1, <2>2, <4>1 DEF Detail
    <3>2. QED
      BY <2>2, <3>1
  <2>3. CASE key.kind # "collab"
    <3>1. Detail(key) # {}
      BY <2>1, <2>3 DEF Detail, SourcesInv, OnShelf
    <3>2. QED
      BY <2>3, <3>1
  <2>4. QED
    BY <2>2, <2>3
<1>3. QED
  BY <1>1, <1>2 DEF CatalogueHolds, ListedOpens

(***************************************************************************)
(* What was listed opens by its key, and no directory is registered twice, *)
(* however many people change the list and whatever kills them: while no   *)
(* change overlaps another one and none is cut, a change keeps every       *)
(* directory, and the rest of what is shown stays where it was.            *)
(***************************************************************************)
THEOREM ListedThenOpened == CatalogSpec => []CatalogueHolds
<1>1. CatalogSpec => []SourcesInv
  BY SourcesStart, SourcesStep, PTL DEF CatalogSpec
<1>2. QED
  BY <1>1, SourcesSay, PTL

-----------------------------------------------------------------------------
(***************************************************************************)
(* Sessions.  Each has a number of its own, so that of the server and that *)
(* of the chat differ, and an end has read its own home's or one that is   *)
(* no longer current; once it goes to save it is forgotten.                *)
(***************************************************************************)
IsDocument(d) ==
    d = [home |-> d.home, kind |-> d.kind, project |-> d.project, id |-> d.id,
         version |-> d.version, session |-> d.session]

Homes == {"server", "chat"}

SessionsCount ==
    /\ begun \in Nat
    /\ current = [home \in Homes |-> current[home]] /\ \A home \in Homes : current[home] \in 0..begun
    /\ ending = [p \in Actors |-> ending[p]] /\ \A p \in Actors : ending[p] \in 0..begun
    /\ \A d \in shelf : IsDocument(d) /\ d.session \in 0..begun

SessionsApart == current["server"] = current["chat"] => current["server"] = NoSession

EndsItsOwn ==
    \A p \in Actors, home \in Homes :
        ending[p] # NoSession /\ current[home] = ending[p] => home = Home(p) /\ edit[p].step # "save"

SessionsInv == SessionsCount /\ SessionsApart /\ EndsItsOwn /\ SavedIsOver

\* It holds at the start.
LEMMA SessionsStart == CatalogInit => SessionsInv
<1> SUFFICES ASSUME CatalogInit PROVE SessionsInv
  OBVIOUS
<1>1. /\ current = [home \in Homes |-> 0] /\ ending = [p \in Actors |-> 0] /\ begun = 0 /\ shelf = Shelf
  BY DEF CatalogInit, Homes, NoSession
<1>2. \A d \in shelf : IsDocument(d) /\ d.session = 0
  BY <1>1, EntryCatalogAssumption DEF IsDocument
<1>3. (\A home \in Homes : current[home] = 0) /\ (\A p \in Actors : ending[p] = 0)
  BY <1>1
<1>4. QED
  BY <1>1, <1>2, <1>3 DEF SessionsInv, SessionsCount, SessionsApart, EndsItsOwn, SavedIsOver, NoSession, Homes

\* Who leaves the sessions alone, and goes to save none.
LEMMA LeaveSessions ==
    ASSUME SessionsInv, UNCHANGED <<current, ending, begun>>,
           \A p \in Actors : edit'[p].step = "save" => edit[p].step = "save",
           \A d \in shelf' : /\ IsDocument(d)
                             /\ d.session = NoSession \/ \E e \in shelf : e.session = d.session
    PROVE  SessionsInv'
<1>1. SessionsCount'
  BY DEF SessionsInv, SessionsCount, NoSession
<1>2. SessionsApart' /\ EndsItsOwn'
  BY DEF SessionsInv, SessionsApart, EndsItsOwn
<1>3. SavedIsOver'
  BY DEF SessionsInv, SavedIsOver
<1>4. QED
  BY <1>1, <1>2, <1>3 DEF SessionsInv

\* A session starts, whose number is new.
LEMMA StartSessions ==
    ASSUME SessionsInv, UNCHANGED <<ending, edit, shelf>>, NEW home \in Homes,
           begun' = begun + 1, current' = [current EXCEPT ![home] = begun + 1]
    PROVE  SessionsInv'
<1>1. /\ begun \in Nat /\ current = [h \in Homes |-> current[h]]
      /\ (\A h \in Homes : current[h] \in 0..begun) /\ (\A p \in Actors : ending[p] \in 0..begun)
      /\ ending = [p \in Actors |-> ending[p]]
      /\ \A d \in shelf : IsDocument(d) /\ d.session \in 0..begun
  BY DEF SessionsInv, SessionsCount
<1>2. /\ current'[home] = begun + 1 /\ (\A h \in Homes : h # home => current'[h] = current[h])
      /\ current' = [h \in Homes |-> current'[h]]
  BY <1>1
<1>3. \A n \in 0..begun : n \in 0..(begun + 1) /\ n # begun + 1
  BY <1>1
<1>4. begun + 1 \in Nat /\ begun + 1 \in 0..(begun + 1)
  BY <1>1
<1>5. SessionsCount'
  BY <1>1, <1>2, <1>3, <1>4 DEF SessionsCount
<1>6. SessionsApart'
  BY <1>1, <1>2, <1>3 DEF SessionsApart, SessionsInv, Homes
<1>7. EndsItsOwn'
  BY <1>1, <1>2, <1>3 DEF EndsItsOwn, SessionsInv
<1>8. SavedIsOver'
  BY <1>1, <1>2, <1>3 DEF SavedIsOver, SessionsInv, Homes
<1>9. QED
  BY <1>5, <1>6, <1>7, <1>8 DEF SessionsInv

\* A session is let go, and who ends it goes to save it or is killed.
LEMMA DropSessions ==
    ASSUME SessionsInv, UNCHANGED <<begun, shelf>>, NEW home \in Homes,
           current' = [current EXCEPT ![home] = NoSession],
           ending' = [p \in Actors |-> ending'[p]],
           \A p \in Actors : \/ ending'[p] = NoSession
                             \/ /\ ending'[p] = ending[p]
                                /\ edit'[p].step = "save" => edit[p].step = "save" \/ Home(p) = home
    PROVE  SessionsInv'
<1>1. /\ begun \in Nat /\ current = [h \in Homes |-> current[h]]
      /\ (\A h \in Homes : current[h] \in 0..begun) /\ (\A p \in Actors : ending[p] \in 0..begun)
      /\ \A d \in shelf : IsDocument(d) /\ d.session \in 0..begun
  BY DEF SessionsInv, SessionsCount
<1>2. /\ current'[home] = NoSession /\ (\A h \in Homes : h # home => current'[h] = current[h])
      /\ current' = [h \in Homes |-> current'[h]]
  BY <1>1
<1>3. SessionsCount'
  BY <1>1, <1>2 DEF SessionsCount, NoSession
<1>4. SessionsApart'
  BY <1>2 DEF SessionsApart, SessionsInv, Homes
<1>5. EndsItsOwn'
  BY <1>2 DEF EndsItsOwn, SessionsInv
<1>6. SavedIsOver'
  BY <1>2 DEF SavedIsOver, SessionsInv, Homes
<1>7. QED
  BY <1>3, <1>4, <1>5, <1>6 DEF SessionsInv

\* An end reads the session of its home.
LEMMA ReadSessions ==
    ASSUME SessionsInv, NEW p \in Actors, EndRead(p)
    PROVE  SessionsInv'
<1>1. /\ ending' = [ending EXCEPT ![p] = current[Home(p)]] /\ edit[p] = NoEdit
      /\ UNCHANGED <<edit, shelf, current, begun>>
  BY DEF EndRead, MayWrite, Resting
<1>2. edit[p].step = "read" /\ Home(p) \in Homes
  BY <1>1 DEF NoEdit, Home, Homes
<1>3. ending = [q \in Actors |-> ending[q]]
  BY DEF SessionsInv, SessionsCount
<1>4. /\ ending'[p] = current[Home(p)] /\ (\A q \in Actors : q # p => ending'[q] = ending[q])
      /\ ending' = [q \in Actors |-> ending'[q]]
  BY <1>1, <1>3
<1>5. SessionsCount'
  BY <1>1, <1>2, <1>4 DEF SessionsInv, SessionsCount
<1>6. \A h \in Homes : current[h] = current[Home(p)] /\ current[h] # NoSession => h = Home(p)
  BY <1>2 DEF SessionsInv, SessionsApart, Homes
<1>7. EndsItsOwn'
  BY <1>1, <1>2, <1>4, <1>6 DEF SessionsInv, EndsItsOwn
<1>8. QED
  BY <1>1, <1>5, <1>7 DEF SessionsInv, SessionsApart, SavedIsOver

\* An end saves what it has forgotten.
LEMMA SaveSessions ==
    ASSUME SessionsInv, NEW p \in Actors, EndSaved(p), edit = [q \in Actors |-> edit[q]]
    PROVE  SessionsInv'
<1>1. /\ edit[p].step = "save" /\ UNCHANGED <<current, begun>>
      /\ shelf' = shelf \/ shelf' = shelf \cup {NewDocument("entry", ending[p])}
      /\ edit' = [edit EXCEPT ![p] = NoEdit] /\ ending' = [ending EXCEPT ![p] = NoSession]
  BY DEF EndSaved
<1>2. PICK d : d = NewDocument("entry", ending[p])
  OBVIOUS
<1>3. IsDocument(d) /\ d.session = ending[p]
  BY <1>2 DEF IsDocument, NewDocument
<1>4. \A e \in shelf' : e \in shelf \/ e = d
  BY <1>1, <1>2
<1>5. ending = [q \in Actors |-> ending[q]] /\ ending[p] \in 0..begun
  BY DEF SessionsInv, SessionsCount
<1>6. /\ ending'[p] = NoSession /\ (\A q \in Actors : q # p => ending'[q] = ending[q] /\ edit'[q] = edit[q])
      /\ ending' = [q \in Actors |-> ending'[q]]
  BY <1>1, <1>5
<1>7. SessionsCount'
  BY <1>1, <1>3, <1>4, <1>5, <1>6 DEF SessionsInv, SessionsCount, NoSession
<1>8. EndsItsOwn'
  BY <1>1, <1>6 DEF SessionsInv, EndsItsOwn
<1>9. SavedIsOver'
  BY <1>1, <1>3, <1>4 DEF SessionsInv, EndsItsOwn, SavedIsOver, Homes
<1>10. QED
  BY <1>1, <1>7, <1>8, <1>9 DEF SessionsInv, SessionsApart

\* Every step.
LEMMA SessionsStep == EditType /\ SessionsInv /\ [CatalogNext]_catalogVars => SessionsInv'
<1> SUFFICES ASSUME EditType, SessionsInv, [CatalogNext]_catalogVars PROVE SessionsInv'
  OBVIOUS
<1>1. /\ edit = [q \in Actors |-> edit[q]] /\ \A q \in Actors : IsEdit(edit[q])
      /\ \A d \in shelf : IsDocument(d)
      /\ ending = [q \in Actors |-> ending[q]]
  BY DEF EditType, SessionsInv, SessionsCount
<1>2. NoEdit.step = "read" /\ \A p \in Actors : Home(p) \in Homes
  BY DEF NoEdit, Home, Homes
<1>3. ASSUME UNCHANGED catalogVars PROVE SessionsInv'
  BY <1>1, <1>3, LeaveSessions DEF catalogVars
<1>4. ASSUME NEW p \in Actors, AskAdd(p) \/ AskFlag(p) \/ AskList(p) \/ AskRefresh(p) \/ AskRegister(p)
      PROVE  SessionsInv'
  <2>1. PICK changes : Asks(p, changes)
    BY <1>4 DEF AskAdd, AskFlag, AskList, AskRefresh, AskRegister
  <2>2. edit' = [edit EXCEPT ![p].todo = changes] /\ UNCHANGED <<shelf, current, ending, begun>>
    BY <2>1 DEF Asks
  <2>3. \A q \in Actors : edit'[q].step = edit[q].step
    BY <1>1, <2>2 DEF IsEdit
  <2>4. QED
    BY <1>1, <2>2, <2>3, LeaveSessions
<1>5. ASSUME NEW p \in Actors, RegistryRead(p) PROVE SessionsInv'
  <2>1. PICK new : /\ edit' = [edit EXCEPT ![p] = new] /\ UNCHANGED <<shelf, current, ending, begun>>
                   /\ \/ new = [edit[p] EXCEPT !.step = "cut", !.list = Edited(sources, Head(edit[p].todo))]
                      \/ new = [edit[p] EXCEPT !.todo = Tail(edit[p].todo)]
    BY <1>5 DEF RegistryRead
  <2>2. IsEdit(edit[p])
    BY <1>1
  <2>3. PICK list, rest : new = [edit[p] EXCEPT !.step = "cut", !.list = list]
                            \/ new = [edit[p] EXCEPT !.todo = rest]
    BY <2>1
  <2>4. new.step = "cut" \/ new.step = edit[p].step
    BY <2>2, <2>3 DEF IsEdit
  <2>5. \A q \in Actors : edit'[q].step = "save" => edit[q].step = "save"
    BY <1>1, <2>1, <2>4
  <2>6. QED
    BY <1>1, <2>1, <2>5, LeaveSessions
<1>6. ASSUME NEW p \in Actors, RegistryCut(p) \/ RegistryWritten(p) PROVE SessionsInv'
  <2>1. /\ UNCHANGED <<shelf, current, ending, begun>>
        /\ \/ edit' = [edit EXCEPT ![p].step = "write"]
           \/ edit' = [edit EXCEPT ![p] = [NoEdit EXCEPT !.todo = Tail(edit[p].todo)]]
    BY <1>6 DEF RegistryCut, RegistryWritten
  <2>2. PICK rest : \/ edit' = [edit EXCEPT ![p].step = "write"]
                    \/ edit' = [edit EXCEPT ![p] = [NoEdit EXCEPT !.todo = rest]]
    BY <2>1
  <2>3. \A q \in Actors : edit'[q].step = "save" => edit[q].step = "save"
    BY <1>1, <2>2 DEF IsEdit, NoEdit
  <2>4. QED
    BY <1>1, <2>1, <2>3, LeaveSessions
<1>7. ASSUME NEW p \in Actors, SaveNote(p) PROVE SessionsInv'
  <2>1. PICK kind : shelf' = shelf \cup {NewDocument(kind, NoSession)}
    BY <1>7 DEF SaveNote
  <2>2. IsDocument(NewDocument(kind, NoSession)) /\ NewDocument(kind, NoSession).session = NoSession
    BY DEF IsDocument, NewDocument
  <2>3. \A d \in shelf' : IsDocument(d) /\ (d.session = NoSession \/ \E e \in shelf : e.session = d.session)
    BY <1>1, <2>1, <2>2
  <2>4. UNCHANGED <<edit, current, ending, begun>>
    BY <1>7 DEF SaveNote
  <2>5. QED
    BY <2>3, <2>4, LeaveSessions
<1>8. ASSUME NEW p \in Actors, StartSession(p) PROVE SessionsInv'
  BY <1>8, StartSessions DEF StartSession, Homes
<1>9. ASSUME NEW p \in Actors, EndRead(p) PROVE SessionsInv'
  BY <1>9, ReadSessions
<1>10. ASSUME NEW p \in Actors, EndForgets(p) PROVE SessionsInv'
  <2>1. /\ current' = [current EXCEPT ![Home(p)] = NoSession] /\ edit' = [edit EXCEPT ![p].step = "save"]
        /\ UNCHANGED <<shelf, ending, begun>>
    BY <1>10 DEF EndForgets
  <2>2. \A q \in Actors : q # p => edit'[q] = edit[q]
    BY <1>1, <2>1
  <2>3. QED
    BY <1>1, <1>2, <2>1, <2>2, DropSessions
<1>11. ASSUME NEW p \in Actors, EndSaved(p) PROVE SessionsInv'
  BY <1>1, <1>11, SaveSessions
<1>12. ASSUME ListEntries PROVE SessionsInv'
  BY <1>1, <1>12, LeaveSessions DEF ListEntries
<1>13. ASSUME RecordMoves PROVE SessionsInv'
  <2>1. PICK d \in shelf : shelf' = shelf \cup {[d EXCEPT !.project = "_global", !.version = 2]}
    BY <1>13 DEF RecordMoves
  <2>2. PICK copy : copy = [d EXCEPT !.project = "_global", !.version = 2]
    OBVIOUS
  <2>7. d = [home |-> d.home, kind |-> d.kind, project |-> d.project, id |-> d.id,
             version |-> d.version, session |-> d.session]
    BY <1>1 DEF IsDocument
  <2>8. copy = [home |-> d.home, kind |-> d.kind, project |-> "_global", id |-> d.id,
                version |-> 2, session |-> d.session]
    BY <2>2, <2>7
  <2>3. IsDocument(copy) /\ copy.session = d.session
    BY <2>8 DEF IsDocument
  <2>4. \A e \in shelf' : IsDocument(e) /\ (e.session = NoSession \/ \E f \in shelf : f.session = e.session)
    BY <1>1, <2>1, <2>2, <2>3
  <2>5. UNCHANGED <<edit, current, ending, begun>>
    BY <1>13 DEF RecordMoves
  <2>6. QED
    BY <2>4, <2>5, LeaveSessions
<1>14. ASSUME OldCopyGoes PROVE SessionsInv'
  <2>1. \A e \in shelf' : e \in shelf
    BY <1>14 DEF OldCopyGoes
  <2>2. UNCHANGED <<edit, current, ending, begun>>
    BY <1>14 DEF OldCopyGoes
  <2>3. QED
    BY <1>1, <2>1, <2>2, LeaveSessions
<1>15. ASSUME ChatMessage PROVE SessionsInv'
  <2>1. UNCHANGED <<edit, shelf, ending>>
    BY <1>15 DEF ChatMessage
  <2>2. CASE current["chat"] = NoSession
    BY <1>15, <2>1, <2>2, StartSessions DEF ChatMessage, Homes
  <2>3. CASE current["chat"] # NoSession
    BY <1>1, <1>15, <2>1, <2>3, LeaveSessions DEF ChatMessage
  <2>4. QED
    BY <2>2, <2>3
<1>16. ASSUME ChatLeft PROVE SessionsInv'
  BY <1>1, <1>16, DropSessions DEF ChatLeft, Homes
<1>17. ASSUME NEW home \in {"server", "chat"}, CatalogKill(home) PROVE SessionsInv'
  <2> DEFINE gone == {p \in Actors : Home(p) = home}
  <2>1. /\ edit' = [p \in Actors |-> IF p \in gone THEN NoEdit ELSE edit[p]]
        /\ ending' = [p \in Actors |-> IF p \in gone THEN NoSession ELSE ending[p]]
        /\ current' = [current EXCEPT ![home] = NoSession] /\ UNCHANGED <<shelf, begun>>
    BY <1>17 DEF CatalogKill
  <2> HIDE DEF gone
  <2>2. \A p \in Actors : \/ ending'[p] = NoSession
                          \/ ending'[p] = ending[p] /\ edit'[p] = edit[p]
    BY <2>1
  <2>3. ending' = [p \in Actors |-> ending'[p]]
    BY <2>1
  <2>4. QED
    BY <1>17, <2>1, <2>2, <2>3, DropSessions DEF Homes
<1>18. QED
  BY <1>3, <1>4, <1>5, <1>6, <1>7, <1>8, <1>9, <1>10, <1>11, <1>12, <1>13, <1>14, <1>15, <1>16, <1>17
     DEF CatalogNext

(***************************************************************************)
(* A session that was saved is over for good: none of the requests that    *)
(* came between its end's steps, from whichever thread, brings it back.    *)
(***************************************************************************)
THEOREM SavedOnceIsOver == CatalogSpec => []SavedIsOver
<1>1. CatalogSpec => [](SourcesInv /\ SessionsInv)
  <2>1. CatalogInit => SourcesInv /\ SessionsInv
    BY SourcesStart, SessionsStart
  <2>2. SourcesInv /\ SessionsInv /\ [CatalogNext]_catalogVars => (SourcesInv /\ SessionsInv)'
    BY SourcesStep, SessionsStep DEF SourcesInv
  <2>3. QED
    BY <2>1, <2>2, PTL DEF CatalogSpec
<1>2. SourcesInv /\ SessionsInv => SavedIsOver
  BY DEF SessionsInv
<1>3. QED
  BY <1>1, <1>2, PTL

-----------------------------------------------------------------------------
(***************************************************************************)
(* Messages.  What was acknowledged stands in the file, unless two wrote   *)
(* it at once, and who is about to write has what the file says now.       *)
(***************************************************************************)
IsMessage(m) ==
    m = [from |-> m.from, way |-> m.way, targets |-> m.targets, text |-> m.text,
         acked |-> m.acked, broken |-> m.broken]

IsAck(x) == x = [message |-> x.message, acked |-> x.acked]

MailType ==
    /\ IsList(mail)
    /\ \A i \in 1..Len(mail) : IsMessage(mail[i]) /\ (mail[i].broken => mail[i].text = "ruled")
    /\ acking = [a \in People |-> acking[a]]
    /\ \A a \in People : IsAck(acking[a]) /\ (acking[a] # NoAck => acking[a].message \in 1..Len(mail))

AcksStand ==
    \A i \in 1..Len(mail) : i \notin crossed =>
        /\ \A a \in People : a \in mail[i].acked <=> <<a, i>> \in done
        /\ \A a, b \in People : acking[a].message = i /\ acking[b].message = i => a = b
        /\ \A a \in People : acking[a].message = i => acking[a].acked = mail[i].acked

DoneWasThere == \A x \in done : \E a \in People, i \in 1..Len(mail) : x = <<a, i>>

ThreadType ==
    /\ thread = [participants |-> thread.participants, status |-> thread.status]
    /\ thread.participants \subseteq People

MailInv == MailType /\ AcksStand /\ DoneWasThere /\ ThreadType

\* The places of the messages are numbers.
LEMMA MailPlaces == MailType => Len(mail) \in Nat /\ DOMAIN mail = 1..Len(mail)
BY DEF MailType, IsList

\* It holds at the start.
LEMMA MailStart == MailInit => MailInv
<1> SUFFICES ASSUME MailInit PROVE MailInv
  OBVIOUS
<1>1. /\ mail = <<>> /\ acking = [a \in People |-> NoAck] /\ done = {}
      /\ thread = [participants |-> Founders, status |-> "active"]
  BY DEF MailInit
<1>2. IsList(mail) /\ Len(mail) = 0 /\ \A i \in 1..Len(mail) : FALSE
  BY <1>1 DEF IsList
<1>3. IsAck(NoAck)
  BY DEF IsAck, NoAck
<1>4. QED
  BY <1>1, <1>2, <1>3, ThreadMailAssumption DEF MailInv, MailType, AcksStand, DoneWasThere, ThreadType

\* A message is one more file, acknowledged by nobody.
LEMMA MailWritten ==
    ASSUME MailInv, NEW letter, Writes(letter), UNCHANGED <<thread, acking, done, crossed>>
    PROVE  MailInv'
<1>1. PICK m : m = FileOf(letter)
  OBVIOUS
<1>2. IsMessage(m) /\ m.acked = {} /\ ~m.broken
  BY <1>1 DEF IsMessage, FileOf
<1>3. /\ IsList(mail') /\ Len(mail') = Len(mail) + 1 /\ Len(mail) \in Nat
      /\ \A i \in 1..Len(mail) : mail'[i] = mail[i]
      /\ mail'[Len(mail) + 1] = m
  BY <1>1, ListAppend DEF Writes, MailInv, MailType, IsList
<1>4. \A i \in 1..Len(mail') : i = Len(mail) + 1 \/ (i \in 1..Len(mail) /\ i # Len(mail) + 1)
  BY <1>3
<1>5. \A i \in 1..Len(mail) : i \in 1..Len(mail') /\ i # Len(mail) + 1
  BY <1>3
<1>6. MailType'
  BY <1>2, <1>3, <1>4, <1>5 DEF MailInv, MailType
<1>7. DoneWasThere'
  BY <1>5 DEF MailInv, DoneWasThere
<1>8. \A a \in People : <<a, Len(mail) + 1>> \notin done /\ acking[a].message # Len(mail) + 1
  <2>1. \A a \in People : <<a, Len(mail) + 1>> \notin done
    BY <1>5 DEF MailInv, DoneWasThere
  <2>2. \A a \in People : acking[a].message = 0 \/ acking[a].message \in 1..Len(mail)
    BY DEF MailInv, MailType, NoAck
  <2>3. 0 # Len(mail) + 1
    BY <1>3
  <2>4. QED
    BY <1>5, <2>1, <2>2, <2>3
<1>9. AcksStand'
  <2>1. SUFFICES ASSUME NEW i \in 1..Len(mail'), i \notin crossed
                 PROVE  /\ \A a \in People : a \in mail'[i].acked <=> <<a, i>> \in done
                        /\ \A a, b \in People : acking[a].message = i /\ acking[b].message = i => a = b
                        /\ \A a \in People : acking[a].message = i => acking[a].acked = mail'[i].acked
    BY DEF AcksStand
  <2>2. CASE i = Len(mail) + 1
    BY <1>2, <1>3, <1>8, <2>2
  <2>3. CASE i \in 1..Len(mail)
    BY <1>3, <2>1, <2>3 DEF MailInv, AcksStand
  <2>4. QED
    BY <1>4, <2>2, <2>3
<1>10. QED
  BY <1>6, <1>7, <1>9 DEF MailInv, ThreadType

\* A message is read to be acknowledged.
LEMMA AckRead ==
    ASSUME MailInv, NEW p \in People, AckReads(p)
    PROVE  MailInv'
<1>1. PICK i \in DOMAIN mail :
          /\ acking' = [acking EXCEPT ![p] = [message |-> i, acked |-> mail[i].acked]]
          /\ crossed' = IF \E a \in People : acking[a].message = i THEN crossed \cup {i} ELSE crossed
          /\ acking[p] = NoAck /\ UNCHANGED <<thread, mail, done>>
  BY DEF AckReads
<1>2. i \in 1..Len(mail) /\ acking = [a \in People |-> acking[a]]
  BY MailPlaces DEF MailInv, MailType
<1>3. PICK x : x = [message |-> i, acked |-> mail[i].acked]
  OBVIOUS
<1>4. IsAck(x) /\ x.message = i /\ x.acked = mail[i].acked
  BY <1>3 DEF IsAck
<1>5. /\ acking'[p] = x /\ (\A a \in People : a # p => acking'[a] = acking[a])
      /\ acking' = [a \in People |-> acking'[a]]
  BY <1>1, <1>2, <1>3
<1>6. MailType'
  BY <1>1, <1>2, <1>4, <1>5 DEF MailInv, MailType
<1>7. AcksStand'
  <2>1. SUFFICES ASSUME NEW k \in 1..Len(mail), k \notin crossed'
                 PROVE  /\ \A a \in People : a \in mail[k].acked <=> <<a, k>> \in done
                        /\ \A a, b \in People : acking'[a].message = k /\ acking'[b].message = k => a = b
                        /\ \A a \in People : acking'[a].message = k => acking'[a].acked = mail[k].acked
    BY <1>1 DEF AcksStand
  <2>2. k \notin crossed /\ (k = i => \A a \in People : acking[a].message # k)
    BY <1>1, <2>1
  <2>3. /\ \A a \in People : a \in mail[k].acked <=> <<a, k>> \in done
        /\ \A a, b \in People : acking[a].message = k /\ acking[b].message = k => a = b
        /\ \A a \in People : acking[a].message = k => acking[a].acked = mail[k].acked
    BY <2>2 DEF MailInv, AcksStand
  <2>4. QED
    BY <1>4, <1>5, <2>2, <2>3
<1>8. QED
  BY <1>1, <1>6, <1>7 DEF MailInv, DoneWasThere, ThreadType

\* The acknowledgement is written.
LEMMA AckWritten ==
    ASSUME MailInv, NEW p \in People, AckWrites(p)
    PROVE  MailInv'
<1>1. PICK i : i = acking[p].message
  OBVIOUS
<1>2. PICK had : had = acking[p].acked
  OBVIOUS
<1>3. /\ acking[p] # NoAck
      /\ mail' = [mail EXCEPT ![i].acked = had \cup {p}, ![i].broken = (mail[i].text = "ruled")]
      /\ done' = done \cup {<<p, i>>}
      /\ acking' = [acking EXCEPT ![p] = NoAck] /\ UNCHANGED <<thread, crossed>>
  BY <1>1, <1>2 DEF AckWrites
<1>4. /\ i \in 1..Len(mail) /\ acking = [a \in People |-> acking[a]] /\ IsMessage(mail[i])
      /\ IsList(mail) /\ Len(mail) \in Nat /\ DOMAIN mail = 1..Len(mail)
  BY <1>1, <1>3, MailPlaces DEF MailInv, MailType
<1>5. PICK m : m = [mail[i] EXCEPT !.acked = had \cup {p}, !.broken = (mail[i].text = "ruled")]
  OBVIOUS
<1>6. /\ IsMessage(m) /\ m.acked = had \cup {p} /\ m.text = mail[i].text
      /\ m.broken => m.text = "ruled"
  BY <1>4, <1>5 DEF IsMessage
<1>7. mail' = [mail EXCEPT ![i] = m]
  BY <1>3, <1>4, <1>5
<1>8. /\ mail'[i] = m /\ (\A k \in 1..Len(mail) : k # i => mail'[k] = mail[k])
      /\ Len(mail') = Len(mail) /\ IsList(mail')
  <2>1. DOMAIN mail' = 1..Len(mail) /\ mail' = [k \in 1..Len(mail) |-> mail'[k]]
    BY <1>4, <1>7
  <2>2. mail'[i] = m /\ \A k \in 1..Len(mail) : k # i => mail'[k] = mail[k]
    BY <1>4, <1>7
  <2>3. Len(mail') = Len(mail)
    BY <1>4, <2>1
  <2>4. QED
    BY <1>4, <2>1, <2>2, <2>3 DEF IsList
<1>9. /\ acking'[p] = NoAck /\ (\A a \in People : a # p => acking'[a] = acking[a])
      /\ acking' = [a \in People |-> acking'[a]]
  BY <1>3, <1>4
<1>10. IsAck(NoAck) /\ NoAck.message = 0
  BY DEF IsAck, NoAck
<1>11. MailType'
  BY <1>6, <1>8, <1>9, <1>10 DEF MailInv, MailType
<1>12. DoneWasThere'
  BY <1>3, <1>4, <1>8 DEF MailInv, DoneWasThere
<1>13. AcksStand'
  <2>1. SUFFICES ASSUME NEW k \in 1..Len(mail), k \notin crossed
                 PROVE  /\ \A a \in People : a \in mail'[k].acked <=> <<a, k>> \in done'
                        /\ \A a, b \in People : acking'[a].message = k /\ acking'[b].message = k => a = b
                        /\ \A a \in People : acking'[a].message = k => acking'[a].acked = mail'[k].acked
    BY <1>3, <1>8 DEF AcksStand
  <2>2. /\ \A a \in People : a \in mail[k].acked <=> <<a, k>> \in done
        /\ \A a, b \in People : acking[a].message = k /\ acking[b].message = k => a = b
        /\ \A a \in People : acking[a].message = k => acking[a].acked = mail[k].acked
    BY <2>1 DEF MailInv, AcksStand
  <2>3. k # 0
    BY <1>4
  <2>4. CASE k = i
    <3>1. had = mail[i].acked /\ \A a \in People : a # p => acking[a].message # i
      BY <1>1, <1>2, <2>2, <2>4
    <3>2. \A a \in People : acking'[a].message # k
      BY <1>9, <1>10, <2>3, <2>4, <3>1
    <3>3. \A a \in People : a \in mail'[k].acked <=> a \in mail[k].acked \/ a = p
      BY <1>6, <1>8, <2>4, <3>1
    <3>4. \A a \in People : <<a, k>> \in done' <=> <<a, k>> \in done \/ a = p
      BY <1>3, <2>4
    <3>5. QED
      BY <2>2, <3>2, <3>3, <3>4
  <2>5. CASE k # i
    <3>1. mail'[k] = mail[k]
      BY <1>8, <2>5
    <3>2. \A a \in People : acking'[a].message = k => acking'[a] = acking[a]
      BY <1>9, <1>10, <2>3
    <3>3. \A a \in People : <<a, k>> \in done' <=> <<a, k>> \in done
      BY <1>3, <2>5
    <3>4. QED
      BY <2>2, <3>1, <3>2, <3>3
  <2>6. QED
    BY <2>4, <2>5
<1>14. QED
  BY <1>3, <1>11, <1>12, <1>13 DEF MailInv, ThreadType

\* Every step.
LEMMA MailStep == MailInv /\ [MailNext]_mailVars => MailInv'
<1> SUFFICES ASSUME MailInv, [MailNext]_mailVars PROVE MailInv'
  OBVIOUS
<1>1. ASSUME UNCHANGED <<mail, acking, done, crossed>>, ThreadType'
      PROVE  MailInv'
  BY <1>1 DEF MailInv, MailType, AcksStand, DoneWasThere
<1>2. CASE SendsByServer \/ SendsByFile \/ ChatSends
  <2>1. PICK letter : Writes(letter) /\ UNCHANGED <<thread, acking, done, crossed>>
    BY <1>2 DEF SendsByServer, SendsByFile, ChatSends
  <2>2. QED
    BY <2>1, MailWritten
<1>3. CASE \E p \in People : AckReads(p)
  BY <1>3, AckRead
<1>4. CASE \E p \in People : AckWrites(p)
  BY <1>4, AckWritten
<1>5. CASE Closes \/ \E p \in People : Joins(p)
  <2>1. UNCHANGED <<mail, acking, done, crossed>>
    BY <1>5 DEF Closes, Joins
  <2>2. ThreadType'
    <3>1. /\ thread = [participants |-> thread.participants, status |-> thread.status]
          /\ thread.participants \subseteq People
      BY DEF MailInv, ThreadType
    <3>2. CASE Closes
      BY <3>1, <3>2 DEF Closes, ThreadType
    <3>3. ASSUME NEW p \in People, Joins(p) PROVE ThreadType'
      BY <3>1, <3>3 DEF Joins, ThreadType
    <3>4. QED
      BY <1>5, <3>2, <3>3
  <2>3. QED
    BY <1>1, <2>1, <2>2
<1>6. CASE \/ ChatEnters \/ StreamBegins \/ StreamEnds \/ InboxFetched \/ ShowsNext \/ ShowsAll
           \/ PrinterShows \/ PipeShows \/ ChatAsks \/ ChatLeaves \/ UNCHANGED mailVars
  <2>1. UNCHANGED <<thread, mail, acking, done, crossed>>
    BY <1>6 DEF ChatEnters, StreamBegins, StreamEnds, InboxFetched, ShowsNext, ShowsAll,
                PrinterShows, PipeShows, ChatAsks, ChatLeaves, mailVars
  <2>2. QED
    BY <1>1, <2>1 DEF MailInv, ThreadType
<1>7. QED
  BY <1>2, <1>3, <1>4, <1>5, <1>6 DEF MailNext

\* So an inbox is what was not acknowledged.
LEMMA MailSays == MailInv => InboxIsUnacked
<1> SUFFICES ASSUME MailInv, NEW p \in thread.participants, NEW i \in DOMAIN mail,
                    i \notin crossed, mail[i].text # "ruled"
             PROVE  i \in Inbox(p) <=> /\ mail[i].from # p /\ MeantFor(mail[i], p)
                                       /\ <<p, i>> \notin done
  BY DEF InboxIsUnacked
<1>1. i \in 1..Len(mail) /\ p \in People
  BY MailPlaces DEF MailInv, ThreadType
<1>2. ~mail[i].broken /\ (p \in mail[i].acked <=> <<p, i>> \in done)
  BY <1>1 DEF MailInv, MailType, AcksStand
<1>3. QED
  BY <1>2 DEF Inbox, Readable

(***************************************************************************)
(* A participant's inbox holds exactly what is meant for it and was not    *)
(* acknowledged by it, whoever writes, joins and acknowledges.             *)
(***************************************************************************)
THEOREM InboxHoldsUnacked == MailSpec => []InboxIsUnacked
<1>1. MailSpec => []MailInv
  BY MailStart, MailStep, PTL DEF MailSpec
<1>2. QED
  BY <1>1, MailSays, PTL

(***************************************************************************)
(* The chat.  What counts as seen was shown or is the watcher's own; of an *)
(* inbox, what is not shown is left to be.                                 *)
(***************************************************************************)
ChatType ==
    chat = [at |-> chat.at, person |-> chat.person, listening |-> chat.listening,
            ended |-> chat.ended, events |-> chat.events, seen |-> chat.seen,
            shown |-> chat.shown, inbox |-> chat.inbox, left |-> chat.left,
            fetches |-> chat.fetches]

Own(i) == i \in DOMAIN mail /\ mail[i].from = Watcher

SeenIsShown == \A i \in chat.seen : i \in chat.shown \/ Own(i)

RestIsLeft ==
    /\ \A i \in chat.inbox : i \in DOMAIN mail /\ ~Own(i)
    /\ chat.left \subseteq chat.inbox
    /\ chat.at = "showing" => chat.inbox \subseteq chat.shown \cup chat.left

ChatInv == ChatType /\ SeenIsShown /\ RestIsLeft /\ ChatShowsInbox

\* It holds at the start.
LEMMA ChatStart == MailInit => ChatInv
BY DEF MailInit, NoChat, ChatInv, ChatType, SeenIsShown, RestIsLeft, ChatShowsInbox

\* The files stay where they are, and who wrote them.
LEMMA OwnStays ==
    ASSUME MailInv, [MailNext]_mailVars
    PROVE  /\ \A i \in DOMAIN mail : i \in DOMAIN mail' /\ mail'[i].from = mail[i].from
           /\ \A i \in DOMAIN mail : Own(i)' <=> Own(i)
<1>1. Len(mail) \in Nat /\ DOMAIN mail = 1..Len(mail) /\ IsList(mail)
  BY MailPlaces DEF MailInv, MailType
<1>2. ASSUME NEW letter, Writes(letter)
      PROVE  \A i \in DOMAIN mail : i \in DOMAIN mail' /\ mail'[i].from = mail[i].from
  <2>1. PICK m : mail' = Append(mail, m)
    BY <1>2 DEF Writes
  <2>2. DOMAIN mail' = 1..(Len(mail) + 1) /\ \A i \in 1..Len(mail) : mail'[i] = mail[i]
    BY <1>1, <2>1, ListAppend
  <2>3. QED
    BY <1>1, <2>2
<1>3. ASSUME NEW p \in People, AckWrites(p)
      PROVE  \A i \in DOMAIN mail : i \in DOMAIN mail' /\ mail'[i].from = mail[i].from
  <2>1. PICK k, had, torn : mail' = [mail EXCEPT ![k].acked = had, ![k].broken = torn]
    BY <1>3 DEF AckWrites
  <2>2. \A i \in 1..Len(mail) : IsMessage(mail[i])
    BY DEF MailInv, MailType
  <2>3. QED
    BY <1>1, <2>1, <2>2 DEF IsMessage
<1>4. UNCHANGED mail \/ (\E letter : Writes(letter)) \/ \E p \in People : AckWrites(p)
  BY DEF MailNext, mailVars, Closes, SendsByServer, SendsByFile, Joins, AckReads, ChatEnters,
         StreamBegins, StreamEnds, InboxFetched, ShowsNext, ShowsAll, PrinterShows, PipeShows,
         ChatAsks, ChatSends, ChatLeaves
<1>5. \A i \in DOMAIN mail : i \in DOMAIN mail' /\ mail'[i].from = mail[i].from
  BY <1>2, <1>3, <1>4
<1>6. QED
  BY <1>5 DEF Own

\* What the chat has stays as it is, or more is shown.
LEMMA ChatGoesOn ==
    ASSUME MailInv, ChatInv, [MailNext]_mailVars, ChatType',
           chat'.inbox = chat.inbox, chat'.left = chat.left,
           chat.shown \subseteq chat'.shown,
           \A i \in chat'.seen : i \in chat.seen \/ i \in chat'.shown \/ Own(i)',
           \/ chat'.at = chat.at \/ chat'.at \in {"off", "inbox"}
           \/ chat'.at \in {"reading", "sent"} /\ chat.at \in {"reading", "sent"}
    PROVE  ChatInv'
<1>1. \A i \in DOMAIN mail : i \in DOMAIN mail' /\ (Own(i)' <=> Own(i))
  BY OwnStays
<1>2. SeenIsShown'
  BY <1>1 DEF ChatInv, SeenIsShown, Own
<1>3. RestIsLeft'
  BY <1>1 DEF ChatInv, RestIsLeft
<1>4. ChatShowsInbox'
  BY DEF ChatInv, ChatShowsInbox
<1>5. QED
  BY <1>2, <1>3, <1>4 DEF ChatInv

\* Showing what was told.
LEMMA ShowsTold ==
    ASSUME ChatType, NEW told
    PROVE  LET c == Shows(chat, told)
           IN  /\ c = [at |-> chat.at, person |-> chat.person, listening |-> chat.listening,
                       ended |-> chat.ended, events |-> chat.events, seen |-> c.seen,
                       shown |-> c.shown, inbox |-> chat.inbox, left |-> chat.left,
                       fetches |-> chat.fetches]
               /\ chat.shown \subseteq c.shown
               /\ \A i \in c.seen : i \in chat.seen \/ i \in c.shown
<1>1. PICK new : Shows(chat, told) = [chat EXCEPT !.shown = chat.shown \cup new, !.seen = chat.seen \cup new]
  BY DEF Shows
<1>2. PICK seen, shown0 : seen = chat.seen \cup new /\ shown0 = chat.shown \cup new
  OBVIOUS
<1>3. Shows(chat, told) = [chat EXCEPT !.shown = shown0, !.seen = seen]
  BY <1>1, <1>2
<1>4. QED
  BY <1>2, <1>3 DEF ChatType

\* Every step.
LEMMA ChatStep == MailInv /\ ChatInv /\ [MailNext]_mailVars => ChatInv'
<1> SUFFICES ASSUME MailInv, ChatInv, [MailNext]_mailVars PROVE ChatInv'
  OBVIOUS
<1>1. /\ chat = [at |-> chat.at, person |-> chat.person, listening |-> chat.listening,
                 ended |-> chat.ended, events |-> chat.events, seen |-> chat.seen,
                 shown |-> chat.shown, inbox |-> chat.inbox, left |-> chat.left,
                 fetches |-> chat.fetches]
  BY DEF ChatInv, ChatType
<1>2. ASSUME UNCHANGED chat PROVE ChatInv'
  <2>1. ChatType'
    BY <1>2 DEF ChatInv, ChatType
  <2>2. QED
    BY <1>2, <2>1, ChatGoesOn
<1>3. ASSUME NEW told, chat' = [chat EXCEPT !.events = told] PROVE ChatInv'
  <2>1. /\ chat'.inbox = chat.inbox /\ chat'.left = chat.left /\ chat'.shown = chat.shown
        /\ chat'.seen = chat.seen /\ chat'.at = chat.at /\ ChatType'
    BY <1>1, <1>3 DEF ChatType
  <2>2. QED
    BY <2>1, ChatGoesOn
<1>4. CASE SendsByServer
  <2>1. chat' = Told(chat)
    BY <1>4 DEF SendsByServer
  <2>2. UNCHANGED chat \/ \E told : chat' = [chat EXCEPT !.events = told]
    BY <2>1 DEF Told
  <2>3. QED
    BY <1>2, <1>3, <2>2
<1>5. CASE ChatEnters
  <2>1. PICK terminal : chat' = [chat EXCEPT !.at = "inbox", !.person = terminal]
    BY <1>5 DEF ChatEnters
  <2>2. /\ chat'.inbox = chat.inbox /\ chat'.left = chat.left /\ chat'.shown = chat.shown
        /\ chat'.seen = chat.seen /\ chat'.at = "inbox" /\ ChatType'
    BY <1>1, <2>1 DEF ChatType
  <2>3. QED
    BY <2>2, ChatGoesOn
<1>6. CASE StreamBegins \/ StreamEnds
  <2>1. PICK listening, ended : chat' = [chat EXCEPT !.listening = listening, !.ended = ended]
    <3>1. CASE StreamBegins
      <4>1. chat' = [chat EXCEPT !.listening = TRUE, !.ended = chat.ended]
        BY <1>1, <3>1 DEF StreamBegins
      <4>2. QED
        BY <4>1
    <3>2. CASE StreamEnds
      BY <3>2 DEF StreamEnds
    <3>3. QED
      BY <1>6, <3>1, <3>2
  <2>2. /\ chat'.inbox = chat.inbox /\ chat'.left = chat.left /\ chat'.shown = chat.shown
        /\ chat'.seen = chat.seen /\ chat'.at = chat.at /\ ChatType'
    BY <1>1, <2>1 DEF ChatType
  <2>3. QED
    BY <2>2, ChatGoesOn
<1>7. CASE InboxFetched
  <2>1. PICK box : box = Inbox(Watcher)
    OBVIOUS
  <2>2. PICK n : chat' = [chat EXCEPT !.at = "showing", !.inbox = box, !.left = box, !.fetches = n]
    BY <1>7, <2>1 DEF InboxFetched
  <2>3. /\ chat'.inbox = box /\ chat'.left = box /\ chat'.shown = chat.shown
        /\ chat'.seen = chat.seen /\ chat'.at = "showing" /\ ChatType' /\ UNCHANGED mail
    BY <1>1, <1>7, <2>2 DEF ChatType, InboxFetched
  <2>4. \A i \in box : i \in DOMAIN mail /\ ~Own(i)
    BY <2>1 DEF Inbox, Own
  <2>5. QED
    BY <2>3, <2>4 DEF ChatInv, SeenIsShown, RestIsLeft, ChatShowsInbox, Own
<1>8. CASE ShowsNext
  <2>10. PICK i \in chat.left :
            /\ chat' = [chat EXCEPT !.left = chat.left \ {i},
                                    !.shown = IF i \in chat.seen THEN chat.shown ELSE chat.shown \cup {i},
                                    !.seen = chat.seen \cup {i}]
            /\ chat.at = "showing" /\ UNCHANGED mail
    BY <1>8 DEF ShowsNext
  <2>9. PICK sh : sh = IF i \in chat.seen THEN chat.shown ELSE chat.shown \cup {i}
    OBVIOUS
  <2>1. /\ chat' = [chat EXCEPT !.left = chat.left \ {i}, !.shown = sh, !.seen = chat.seen \cup {i}]
        /\ chat.at = "showing" /\ UNCHANGED mail
    BY <2>10, <2>9
  <2>2. PICK left, seen : left = chat.left \ {i} /\ seen = chat.seen \cup {i}
    OBVIOUS
  <2>3. chat' = [chat EXCEPT !.left = left, !.shown = sh, !.seen = seen]
    BY <2>1, <2>2
  <2>4. /\ chat'.inbox = chat.inbox /\ chat'.left = left /\ chat'.shown = sh
        /\ chat'.seen = seen /\ chat'.at = "showing" /\ ChatType'
    BY <1>1, <2>1, <2>3 DEF ChatType
  <2>5. i \in sh /\ chat.shown \subseteq sh
    BY <2>9 DEF ChatInv, SeenIsShown, RestIsLeft
  <2>6. SeenIsShown'
    BY <2>1, <2>9, <2>2, <2>4, <2>5 DEF ChatInv, SeenIsShown, Own
  <2>7. RestIsLeft'
    BY <2>1, <2>2, <2>4, <2>5 DEF ChatInv, RestIsLeft, Own
  <2>8. QED
    BY <2>4, <2>6, <2>7 DEF ChatInv, ChatShowsInbox
<1>9. CASE ShowsAll
  <2>1. chat' = [chat EXCEPT !.at = "reading"] /\ chat.at = "showing" /\ chat.left = {} /\ UNCHANGED mail
    BY <1>9 DEF ShowsAll
  <2>2. /\ chat'.inbox = chat.inbox /\ chat'.left = chat.left /\ chat'.shown = chat.shown
        /\ chat'.seen = chat.seen /\ chat'.at = "reading" /\ ChatType'
    BY <1>1, <2>1 DEF ChatType
  <2>3. QED
    BY <2>1, <2>2 DEF ChatInv, SeenIsShown, RestIsLeft, ChatShowsInbox, Own
<1>10. CASE PrinterShows
  <2>1. PICK c, rest : chat' = [c EXCEPT !.events = rest] /\ c = Shows(chat, {Head(chat.events)})
    BY <1>10 DEF PrinterShows
  <2>2. /\ c = [at |-> chat.at, person |-> chat.person, listening |-> chat.listening,
                ended |-> chat.ended, events |-> chat.events, seen |-> c.seen,
                shown |-> c.shown, inbox |-> chat.inbox, left |-> chat.left,
                fetches |-> chat.fetches]
        /\ chat.shown \subseteq c.shown
        /\ \A i \in c.seen : i \in chat.seen \/ i \in c.shown
    BY <2>1, ShowsTold DEF ChatInv
  <2>3. /\ chat'.inbox = chat.inbox /\ chat'.left = chat.left /\ chat'.shown = c.shown
        /\ chat'.seen = c.seen /\ chat'.at = chat.at /\ ChatType'
    BY <2>1, <2>2 DEF ChatType
  <2>4. QED
    BY <2>2, <2>3, ChatGoesOn
<1>11. CASE PipeShows
  <2>1. /\ chat.at = "sent"
        /\ \E c : chat' = [c EXCEPT !.events = <<>>, !.at = "reading"] /\ c = Shows(chat, ToSet(chat.events))
    BY <1>11 DEF PipeShows
  <2>2. PICK c : chat' = [c EXCEPT !.events = <<>>, !.at = "reading"] /\ c = Shows(chat, ToSet(chat.events))
    BY <2>1
  <2>3. /\ c = [at |-> chat.at, person |-> chat.person, listening |-> chat.listening,
                ended |-> chat.ended, events |-> chat.events, seen |-> c.seen,
                shown |-> c.shown, inbox |-> chat.inbox, left |-> chat.left,
                fetches |-> chat.fetches]
        /\ chat.shown \subseteq c.shown
        /\ \A i \in c.seen : i \in chat.seen \/ i \in c.shown
    BY <2>2, ShowsTold DEF ChatInv
  <2>4. /\ chat'.inbox = chat.inbox /\ chat'.left = chat.left /\ chat'.shown = c.shown
        /\ chat'.seen = c.seen /\ chat'.at = "reading" /\ ChatType'
    <3>1. PICK none : none = <<>>
      OBVIOUS
    <3>2. chat' = [c EXCEPT !.events = none, !.at = "reading"]
      BY <2>2, <3>1
    <3>3. PICK seen, shown0 : seen = c.seen /\ shown0 = c.shown
      OBVIOUS
    <3>6. c = [at |-> chat.at, person |-> chat.person, listening |-> chat.listening,
               ended |-> chat.ended, events |-> chat.events, seen |-> seen,
               shown |-> shown0, inbox |-> chat.inbox, left |-> chat.left,
               fetches |-> chat.fetches]
      BY <2>3, <3>3
    <3>4. chat' = [at |-> "reading", person |-> chat.person, listening |-> chat.listening,
                   ended |-> chat.ended, events |-> none, seen |-> seen,
                   shown |-> shown0, inbox |-> chat.inbox, left |-> chat.left,
                   fetches |-> chat.fetches]
      BY <3>2, <3>6
    <3>5. QED
      BY <3>3, <3>4 DEF ChatType
  <2>5. QED
    BY <2>1, <2>3, <2>4, ChatGoesOn
<1>12. CASE ChatAsks
  <2>1. chat' = [chat EXCEPT !.at = "inbox"]
    BY <1>12 DEF ChatAsks
  <2>2. /\ chat'.inbox = chat.inbox /\ chat'.left = chat.left /\ chat'.shown = chat.shown
        /\ chat'.seen = chat.seen /\ chat'.at = "inbox" /\ ChatType'
    BY <1>1, <2>1 DEF ChatType
  <2>3. QED
    BY <2>2, ChatGoesOn
<1>13. CASE ChatSends
  <2>1. /\ chat.at = "reading" /\ \E letter : letter.from = Watcher /\ Writes(letter)
        /\ chat' = [Told(chat) EXCEPT !.at = IF chat.person THEN "reading" ELSE "sent",
                                      !.seen = @ \cup {Len(mail) + 1}]
    BY <1>13 DEF ChatSends
  <2>2. PICK told : Told(chat) = [chat EXCEPT !.events = told]
    <3>1. chat = [chat EXCEPT !.events = chat.events]
      BY <1>1
    <3>2. Told(chat) = chat \/ \E told : Told(chat) = [chat EXCEPT !.events = told]
      BY DEF Told
    <3>3. QED
      BY <3>1, <3>2
  <2>3. PICK c : c = [chat EXCEPT !.events = told]
    OBVIOUS
  <2>4. PICK at0 \in {"reading", "sent"} : at0 = IF chat.person THEN "reading" ELSE "sent"
    OBVIOUS
  <2>5. /\ c = [at |-> chat.at, person |-> chat.person, listening |-> chat.listening,
                ended |-> chat.ended, events |-> told, seen |-> chat.seen,
                shown |-> chat.shown, inbox |-> chat.inbox, left |-> chat.left,
                fetches |-> chat.fetches]
    BY <1>1, <2>3
  <2>11. PICK n : n = Len(mail) + 1
    OBVIOUS
  <2>6. PICK seen : seen = chat.seen \cup {n}
    OBVIOUS
  <2>7. chat' = [c EXCEPT !.at = at0, !.seen = seen]
    BY <2>1, <2>2, <2>3, <2>4, <2>5, <2>6, <2>11
  <2>8. /\ chat'.inbox = chat.inbox /\ chat'.left = chat.left /\ chat'.shown = chat.shown
        /\ chat'.seen = seen /\ chat'.at = at0 /\ ChatType'
    BY <2>5, <2>7 DEF ChatType
  <2>9. Own(n)'
    <3>1. PICK letter : letter.from = Watcher /\ mail' = Append(mail, FileOf(letter))
      BY <2>1 DEF Writes
    <3>2. FileOf(letter).from = Watcher
      BY <3>1 DEF FileOf
    <3>3. mail'[Len(mail) + 1] = FileOf(letter) /\ DOMAIN mail' = 1..(Len(mail) + 1) /\ Len(mail) \in Nat
      BY <3>1, ListAppend, MailPlaces DEF MailInv, MailType
    <3>4. QED
      BY <2>11, <3>2, <3>3 DEF Own
  <2>10. QED
    BY <2>1, <2>4, <2>6, <2>8, <2>9, ChatGoesOn
<1>14. CASE ChatLeaves
  <2>1. PICK n : chat' = [NoChat EXCEPT !.fetches = n]
    BY <1>14 DEF ChatLeaves
  <2>2. /\ chat'.inbox = {} /\ chat'.left = {} /\ chat'.shown = {}
        /\ chat'.seen = {} /\ chat'.at = "off" /\ ChatType'
    BY <2>1 DEF ChatType, NoChat
  <2>3. QED
    BY <2>2 DEF ChatInv, SeenIsShown, RestIsLeft, ChatShowsInbox
<1>15. CASE \/ Closes \/ SendsByFile \/ UNCHANGED mailVars
            \/ \E p \in People : Joins(p) \/ AckReads(p) \/ AckWrites(p)
  BY <1>2, <1>15 DEF Closes, SendsByFile, mailVars, Joins, AckReads, AckWrites
<1>16. QED
  BY <1>4, <1>5, <1>6, <1>7, <1>8, <1>9, <1>10, <1>11, <1>12, <1>13, <1>14, <1>15 DEF MailNext

(***************************************************************************)
(* Once the chat has gone through an inbox, all of it was on the screen,   *)
(* whatever the thread that listens showed of it meanwhile.                *)
(***************************************************************************)
THEOREM InboxIsShown == MailSpec => []ChatShowsInbox
<1>1. MailSpec => [](MailInv /\ ChatInv)
  <2>1. MailInit => MailInv /\ ChatInv
    BY MailStart, ChatStart
  <2>2. MailInv /\ ChatInv /\ [MailNext]_mailVars => (MailInv /\ ChatInv)'
    BY MailStep, ChatStep
  <2>3. QED
    BY <2>1, <2>2, PTL DEF MailSpec
<1>2. MailInv /\ ChatInv => ChatShowsInbox
  BY DEF ChatInv
<1>3. QED
  BY <1>1, <1>2, PTL

-----------------------------------------------------------------------------
(***************************************************************************)
(* The documents and their index.  What files, copies of the manifest and  *)
(* the jobs look like, and where a job goes on.                            *)
(***************************************************************************)
IsText(x) ==
    /\ x = [task |-> x.task, owner |-> x.owner, version |-> x.version, body |-> x.body]
    /\ x.version \in Nat

FilesType == file = [d \in DOMAIN file |-> file[d]] /\ \A d \in DOMAIN file : IsText(file[d])

JobShape(z) ==
    /\ z = [pc |-> z.pc, who |-> z.who, doc |-> z.doc, then |-> z.then, back |-> z.back,
            last |-> z.last, todo |-> z.todo, limit |-> z.limit, tries |-> z.tries,
            granted |-> z.granted, to |-> z.to, owner |-> z.owner, version |-> z.version,
            text |-> z.text, payload |-> z.payload, key |-> z.key, items |-> z.items,
            missed |-> z.missed]
    /\ IsText(z.text) /\ z.who \in Processes

Lasts == {"end", "reconciled", "promoted"}

JobWay(z) ==
    /\ z.pc = "mark" => \/ z.then = "repair" /\ z.back = "end"
                        \/ z.then = "pick" /\ z.last = "promoted"
    /\ z.pc \in {"pick", "refresh"} => z.last \in Lasts
    /\ z.pc = "repair" => z.back \in {"end", "verify"}
    /\ z.pc = "refresh" => z.back = "refresh"
    /\ z.pc = "verify" => z.back = "verify"
    /\ z.pc = "write" => z.doc.kind = "entry"
    /\ z.pc \in {"embed", "settle"} => \/ z.back \in {"end", "verify"}
                                       \/ z.back = "refresh" /\ z.last \in Lasts
    /\ z.pc \in {"reconcile", "pick", "refresh", "embed", "settle", "repair", "mark", "end",
                 "reconciled", "promote", "publish", "promoted", "write", "create", "gate",
                 "verify", "save", "unlink", "idle"}

JobsType ==
    job = [t \in Threads |-> job[t]] /\ \A t \in Threads : JobShape(job[t]) /\ JobWay(job[t])

OneThread == \A s, t \in Threads : s = t

\* A job that is idle.
LEMMA IdleIsJob == JobShape(Idle) /\ JobWay(Idle)
BY RecordsAssumption DEF JobShape, JobWay, Idle, IsText, Text, Lasts

\* A job is replaced.
LEMMA JobIsPut ==
    ASSUME JobsType, NEW t \in Threads, NEW z, job' = [job EXCEPT ![t] = z]
    PROVE  /\ job' = [s \in Threads |-> job'[s]]
           /\ job'[t] = z
           /\ \A s \in Threads : s # t => job'[s] = job[s]
BY DEF JobsType

OnlyJob(t) ==
    /\ job' = [s \in Threads |-> job'[s]] /\ (\A s \in Threads : s # t => job'[s] = job[s])
    /\ JobShape(job'[t])

\* A job that goes to another point.
LEMMA JobGoes ==
    ASSUME JobsType, NEW t \in Threads, NEW pc,
           Go(t, pc)
    PROVE  /\ OnlyJob(t)
           /\ job'[t].pc = pc /\ job'[t].who = job[t].who /\ job'[t].doc = job[t].doc
           /\ job'[t].then = job[t].then /\ job'[t].back = job[t].back
           /\ job'[t].last = job[t].last /\ job'[t].todo = job[t].todo
           /\ job'[t].granted = job[t].granted /\ job'[t].to = job[t].to
           /\ job'[t].owner = job[t].owner /\ job'[t].version = job[t].version
           /\ job'[t].text = job[t].text /\ job'[t].items = job[t].items
           /\ job'[t].missed = job[t].missed
<1>1. PICK z : z = [job[t] EXCEPT !.pc = pc]
  OBVIOUS
<1>2. job' = [job EXCEPT ![t] = z]
  BY <1>1 DEF Go
<1>3. JobShape(job[t])
  BY DEF JobsType
<1>4. /\ JobShape(z)
      /\ z.pc = pc /\ z.who = job[t].who /\ z.doc = job[t].doc /\ z.then = job[t].then
      /\ z.back = job[t].back /\ z.last = job[t].last /\ z.todo = job[t].todo
      /\ z.granted = job[t].granted /\ z.to = job[t].to /\ z.owner = job[t].owner
      /\ z.version = job[t].version /\ z.text = job[t].text /\ z.items = job[t].items
      /\ z.missed = job[t].missed
  BY <1>1, <1>3 DEF JobShape
<1>5. /\ job'[t] = z /\ job' = [s \in Threads |-> job'[s]]
      /\ \A s \in Threads : s # t => job'[s] = job[s]
  BY <1>2, JobIsPut
<1>6. OnlyJob(t)
  BY <1>4, <1>5 DEF OnlyJob
<1>7. QED
  BY <1>4, <1>5, <1>6

\* A job that reads a file.
LEMMA JobReads ==
    ASSUME JobsType, NEW t \in Threads, NEW pc, NEW x,
           IsText(x), job' = [job EXCEPT ![t].pc = pc, ![t].text = x]
    PROVE  /\ OnlyJob(t)
           /\ job'[t].pc = pc /\ job'[t].text = x /\ job'[t].who = job[t].who
           /\ job'[t].doc = job[t].doc /\ job'[t].then = job[t].then
           /\ job'[t].back = job[t].back /\ job'[t].last = job[t].last
           /\ job'[t].todo = job[t].todo /\ job'[t].granted = job[t].granted
           /\ job'[t].to = job[t].to /\ job'[t].owner = job[t].owner
           /\ job'[t].version = job[t].version /\ job'[t].items = job[t].items
           /\ job'[t].missed = job[t].missed
<1>1. PICK z : z = [job[t] EXCEPT !.pc = pc, !.text = x]
  OBVIOUS
<1>2. job' = [job EXCEPT ![t] = z]
  BY <1>1
<1>3. JobShape(job[t])
  BY DEF JobsType
<1>4. /\ JobShape(z)
      /\ z.pc = pc /\ z.text = x /\ z.who = job[t].who /\ z.doc = job[t].doc
      /\ z.then = job[t].then /\ z.back = job[t].back /\ z.last = job[t].last
      /\ z.todo = job[t].todo /\ z.granted = job[t].granted /\ z.to = job[t].to
      /\ z.owner = job[t].owner /\ z.version = job[t].version /\ z.items = job[t].items
      /\ z.missed = job[t].missed
  BY <1>1, <1>3 DEF JobShape
<1>5. /\ job'[t] = z /\ job' = [s \in Threads |-> job'[s]]
      /\ \A s \in Threads : s # t => job'[s] = job[s]
  BY <1>2, JobIsPut
<1>6. OnlyJob(t)
  BY <1>4, <1>5 DEF OnlyJob
<1>7. QED
  BY <1>4, <1>5, <1>6

\* A refresh that takes its queue.
LEMMA JobPicks ==
    ASSUME JobsType, NEW t \in Threads, NEW Q,
           job' = [job EXCEPT ![t].pc = "refresh", ![t].back = "refresh", ![t].todo = Q]
    PROVE  /\ OnlyJob(t)
           /\ job'[t].pc = "refresh" /\ job'[t].back = "refresh" /\ job'[t].todo = Q
           /\ job'[t].who = job[t].who /\ job'[t].doc = job[t].doc /\ job'[t].then = job[t].then
           /\ job'[t].last = job[t].last /\ job'[t].granted = job[t].granted
           /\ job'[t].to = job[t].to /\ job'[t].owner = job[t].owner
           /\ job'[t].version = job[t].version /\ job'[t].text = job[t].text
           /\ job'[t].items = job[t].items /\ job'[t].missed = job[t].missed
<1>1. PICK z : z = [job[t] EXCEPT !.pc = "refresh", !.back = "refresh", !.todo = Q]
  OBVIOUS
<1>2. job' = [job EXCEPT ![t] = z]
  BY <1>1
<1>3. JobShape(job[t])
  BY DEF JobsType
<1>4. /\ JobShape(z)
      /\ z.pc = "refresh" /\ z.back = "refresh" /\ z.todo = Q /\ z.who = job[t].who
      /\ z.doc = job[t].doc /\ z.then = job[t].then /\ z.last = job[t].last
      /\ z.granted = job[t].granted /\ z.to = job[t].to /\ z.owner = job[t].owner
      /\ z.version = job[t].version /\ z.text = job[t].text /\ z.items = job[t].items
      /\ z.missed = job[t].missed
  BY <1>1, <1>3 DEF JobShape
<1>5. /\ job'[t] = z /\ job' = [s \in Threads |-> job'[s]]
      /\ \A s \in Threads : s # t => job'[s] = job[s]
  BY <1>2, JobIsPut
<1>6. OnlyJob(t)
  BY <1>4, <1>5 DEF OnlyJob
<1>7. QED
  BY <1>4, <1>5, <1>6

\* A refresh that is through with a document that is gone.
LEMMA JobDrops ==
    ASSUME JobsType, NEW t \in Threads, NEW d,
           job' = [job EXCEPT ![t].todo = @ \ {d}]
    PROVE  /\ OnlyJob(t)
           /\ job'[t].todo = job[t].todo \ {d} /\ job'[t].pc = job[t].pc
           /\ job'[t].who = job[t].who /\ job'[t].doc = job[t].doc /\ job'[t].then = job[t].then
           /\ job'[t].back = job[t].back /\ job'[t].last = job[t].last
           /\ job'[t].granted = job[t].granted /\ job'[t].to = job[t].to
           /\ job'[t].owner = job[t].owner /\ job'[t].version = job[t].version
           /\ job'[t].text = job[t].text /\ job'[t].items = job[t].items
           /\ job'[t].missed = job[t].missed
<1>1. PICK z : z = [job[t] EXCEPT !.todo = job[t].todo \ {d}]
  OBVIOUS
<1>2. job' = [job EXCEPT ![t] = z]
  BY <1>1
<1>3. JobShape(job[t])
  BY DEF JobsType
<1>4. /\ JobShape(z)
      /\ z.todo = job[t].todo \ {d} /\ z.pc = job[t].pc /\ z.who = job[t].who
      /\ z.doc = job[t].doc /\ z.then = job[t].then /\ z.back = job[t].back
      /\ z.last = job[t].last /\ z.granted = job[t].granted /\ z.to = job[t].to
      /\ z.owner = job[t].owner /\ z.version = job[t].version /\ z.text = job[t].text
      /\ z.items = job[t].items /\ z.missed = job[t].missed
  BY <1>1, <1>3 DEF JobShape
<1>5. /\ job'[t] = z /\ job' = [s \in Threads |-> job'[s]]
      /\ \A s \in Threads : s # t => job'[s] = job[s]
  BY <1>2, JobIsPut
<1>6. OnlyJob(t)
  BY <1>4, <1>5 DEF OnlyJob
<1>7. QED
  BY <1>4, <1>5, <1>6

\* A refresh that takes a document up.
LEMMA JobTakes ==
    ASSUME JobsType, NEW t \in Threads, NEW d, NEW x,
           IsText(x), job' = [job EXCEPT ![t].todo = @ \ {d}, ![t].doc = d,
                              ![t].pc = "embed", ![t].text = x]
    PROVE  /\ OnlyJob(t)
           /\ job'[t].todo = job[t].todo \ {d} /\ job'[t].doc = d /\ job'[t].pc = "embed"
           /\ job'[t].text = x /\ job'[t].who = job[t].who /\ job'[t].then = job[t].then
           /\ job'[t].back = job[t].back /\ job'[t].last = job[t].last
           /\ job'[t].granted = job[t].granted /\ job'[t].to = job[t].to
           /\ job'[t].owner = job[t].owner /\ job'[t].version = job[t].version
           /\ job'[t].items = job[t].items /\ job'[t].missed = job[t].missed
<1>1. PICK z : z = [job[t] EXCEPT !.todo = job[t].todo \ {d}, !.doc = d,
                                    !.pc = "embed", !.text = x]
  OBVIOUS
<1>2. job' = [job EXCEPT ![t] = z]
  BY <1>1
<1>3. JobShape(job[t])
  BY DEF JobsType
<1>4. /\ JobShape(z)
      /\ z.todo = job[t].todo \ {d} /\ z.doc = d /\ z.pc = "embed" /\ z.text = x
      /\ z.who = job[t].who /\ z.then = job[t].then /\ z.back = job[t].back
      /\ z.last = job[t].last /\ z.granted = job[t].granted /\ z.to = job[t].to
      /\ z.owner = job[t].owner /\ z.version = job[t].version /\ z.items = job[t].items
      /\ z.missed = job[t].missed
  BY <1>1, <1>3 DEF JobShape
<1>5. /\ job'[t] = z /\ job' = [s \in Threads |-> job'[s]]
      /\ \A s \in Threads : s # t => job'[s] = job[s]
  BY <1>2, JobIsPut
<1>6. OnlyJob(t)
  BY <1>4, <1>5 DEF OnlyJob
<1>7. QED
  BY <1>4, <1>5, <1>6

\* A reconcile that goes on to its refresh.
LEMMA JobMarks ==
    ASSUME JobsType, NEW t \in Threads,
           job' = [job EXCEPT ![t].pc = "pick",
                              ![t].limit = NoLimit, ![t].last = "reconciled"]
    PROVE  /\ OnlyJob(t)
           /\ job'[t].pc = "pick" /\ job'[t].last = "reconciled" /\ job'[t].who = job[t].who
           /\ job'[t].doc = job[t].doc /\ job'[t].then = job[t].then
           /\ job'[t].back = job[t].back /\ job'[t].todo = job[t].todo
           /\ job'[t].granted = job[t].granted /\ job'[t].to = job[t].to
           /\ job'[t].owner = job[t].owner /\ job'[t].version = job[t].version
           /\ job'[t].text = job[t].text /\ job'[t].items = job[t].items
           /\ job'[t].missed = job[t].missed
<1>1. PICK z : z = [job[t] EXCEPT !.pc = "pick",
                                    !.limit = NoLimit, !.last = "reconciled"]
  OBVIOUS
<1>2. job' = [job EXCEPT ![t] = z]
  BY <1>1
<1>3. JobShape(job[t])
  BY DEF JobsType
<1>4. /\ JobShape(z)
      /\ z.pc = "pick" /\ z.last = "reconciled" /\ z.who = job[t].who /\ z.doc = job[t].doc
      /\ z.then = job[t].then /\ z.back = job[t].back /\ z.todo = job[t].todo
      /\ z.granted = job[t].granted /\ z.to = job[t].to /\ z.owner = job[t].owner
      /\ z.version = job[t].version /\ z.text = job[t].text /\ z.items = job[t].items
      /\ z.missed = job[t].missed
  BY <1>1, <1>3 DEF JobShape
<1>5. /\ job'[t] = z /\ job' = [s \in Threads |-> job'[s]]
      /\ \A s \in Threads : s # t => job'[s] = job[s]
  BY <1>2, JobIsPut
<1>6. OnlyJob(t)
  BY <1>4, <1>5 DEF OnlyJob
<1>7. QED
  BY <1>4, <1>5, <1>6

\* A gate that has found the newest copy.
LEMMA JobGates ==
    ASSUME JobsType, NEW t \in Threads, NEW d,
           job' = [job EXCEPT ![t].pc = "verify", ![t].doc = d, ![t].back = "verify"]
    PROVE  /\ OnlyJob(t)
           /\ job'[t].pc = "verify" /\ job'[t].doc = d /\ job'[t].back = "verify"
           /\ job'[t].who = job[t].who /\ job'[t].then = job[t].then
           /\ job'[t].last = job[t].last /\ job'[t].todo = job[t].todo
           /\ job'[t].granted = job[t].granted /\ job'[t].to = job[t].to
           /\ job'[t].owner = job[t].owner /\ job'[t].version = job[t].version
           /\ job'[t].text = job[t].text /\ job'[t].items = job[t].items
           /\ job'[t].missed = job[t].missed
<1>1. PICK z : z = [job[t] EXCEPT !.pc = "verify", !.doc = d, !.back = "verify"]
  OBVIOUS
<1>2. job' = [job EXCEPT ![t] = z]
  BY <1>1
<1>3. JobShape(job[t])
  BY DEF JobsType
<1>4. /\ JobShape(z)
      /\ z.pc = "verify" /\ z.doc = d /\ z.back = "verify" /\ z.who = job[t].who
      /\ z.then = job[t].then /\ z.last = job[t].last /\ z.todo = job[t].todo
      /\ z.granted = job[t].granted /\ z.to = job[t].to /\ z.owner = job[t].owner
      /\ z.version = job[t].version /\ z.text = job[t].text /\ z.items = job[t].items
      /\ z.missed = job[t].missed
  BY <1>1, <1>3 DEF JobShape
<1>5. /\ job'[t] = z /\ job' = [s \in Threads |-> job'[s]]
      /\ \A s \in Threads : s # t => job'[s] = job[s]
  BY <1>2, JobIsPut
<1>6. OnlyJob(t)
  BY <1>4, <1>5 DEF OnlyJob
<1>7. QED
  BY <1>4, <1>5, <1>6

\* A move that has its record repaired.
LEMMA JobTries ==
    ASSUME JobsType, NEW t \in Threads, NEW pc, NEW n,
           job' = [job EXCEPT ![t].pc = pc, ![t].tries = n]
    PROVE  /\ OnlyJob(t)
           /\ job'[t].pc = pc /\ job'[t].who = job[t].who /\ job'[t].doc = job[t].doc
           /\ job'[t].then = job[t].then /\ job'[t].back = job[t].back
           /\ job'[t].last = job[t].last /\ job'[t].todo = job[t].todo
           /\ job'[t].granted = job[t].granted /\ job'[t].to = job[t].to
           /\ job'[t].owner = job[t].owner /\ job'[t].version = job[t].version
           /\ job'[t].text = job[t].text /\ job'[t].items = job[t].items
           /\ job'[t].missed = job[t].missed
<1>1. PICK z : z = [job[t] EXCEPT !.pc = pc, !.tries = n]
  OBVIOUS
<1>2. job' = [job EXCEPT ![t] = z]
  BY <1>1
<1>3. JobShape(job[t])
  BY DEF JobsType
<1>4. /\ JobShape(z)
      /\ z.pc = pc /\ z.who = job[t].who /\ z.doc = job[t].doc /\ z.then = job[t].then
      /\ z.back = job[t].back /\ z.last = job[t].last /\ z.todo = job[t].todo
      /\ z.granted = job[t].granted /\ z.to = job[t].to /\ z.owner = job[t].owner
      /\ z.version = job[t].version /\ z.text = job[t].text /\ z.items = job[t].items
      /\ z.missed = job[t].missed
  BY <1>1, <1>3 DEF JobShape
<1>5. /\ job'[t] = z /\ job' = [s \in Threads |-> job'[s]]
      /\ \A s \in Threads : s # t => job'[s] = job[s]
  BY <1>2, JobIsPut
<1>6. OnlyJob(t)
  BY <1>4, <1>5 DEF OnlyJob
<1>7. QED
  BY <1>4, <1>5, <1>6

\* A move that has its old copy removed.
LEMMA JobUnlinks ==
    ASSUME JobsType, NEW t \in Threads, NEW d,
           job' = [job EXCEPT ![t].pc = "unlink", ![t].doc = d]
    PROVE  /\ OnlyJob(t)
           /\ job'[t].pc = "unlink" /\ job'[t].doc = d /\ job'[t].who = job[t].who
           /\ job'[t].then = job[t].then /\ job'[t].back = job[t].back
           /\ job'[t].last = job[t].last /\ job'[t].todo = job[t].todo
           /\ job'[t].granted = job[t].granted /\ job'[t].to = job[t].to
           /\ job'[t].owner = job[t].owner /\ job'[t].version = job[t].version
           /\ job'[t].text = job[t].text /\ job'[t].items = job[t].items
           /\ job'[t].missed = job[t].missed
<1>1. PICK z : z = [job[t] EXCEPT !.pc = "unlink", !.doc = d]
  OBVIOUS
<1>2. job' = [job EXCEPT ![t] = z]
  BY <1>1
<1>3. JobShape(job[t])
  BY DEF JobsType
<1>4. /\ JobShape(z)
      /\ z.pc = "unlink" /\ z.doc = d /\ z.who = job[t].who /\ z.then = job[t].then
      /\ z.back = job[t].back /\ z.last = job[t].last /\ z.todo = job[t].todo
      /\ z.granted = job[t].granted /\ z.to = job[t].to /\ z.owner = job[t].owner
      /\ z.version = job[t].version /\ z.text = job[t].text /\ z.items = job[t].items
      /\ z.missed = job[t].missed
  BY <1>1, <1>3 DEF JobShape
<1>5. /\ job'[t] = z /\ job' = [s \in Threads |-> job'[s]]
      /\ \A s \in Threads : s # t => job'[s] = job[s]
  BY <1>2, JobIsPut
<1>6. OnlyJob(t)
  BY <1>4, <1>5 DEF OnlyJob
<1>7. QED
  BY <1>4, <1>5, <1>6

\* A batch that goes on to its next item.
LEMMA JobSkips ==
    ASSUME JobsType, NEW t \in Threads,
           job' = [job EXCEPT ![t].pc = "promote", ![t].items = Tail(@)]
    PROVE  /\ OnlyJob(t)
           /\ job'[t].pc = "promote" /\ job'[t].items = Tail(job[t].items)
           /\ job'[t].who = job[t].who /\ job'[t].doc = job[t].doc /\ job'[t].then = job[t].then
           /\ job'[t].back = job[t].back /\ job'[t].last = job[t].last
           /\ job'[t].todo = job[t].todo /\ job'[t].granted = job[t].granted
           /\ job'[t].to = job[t].to /\ job'[t].owner = job[t].owner
           /\ job'[t].version = job[t].version /\ job'[t].text = job[t].text
           /\ job'[t].missed = job[t].missed
<1>1. PICK z : z = [job[t] EXCEPT !.pc = "promote", !.items = Tail(job[t].items)]
  OBVIOUS
<1>2. job' = [job EXCEPT ![t] = z]
  BY <1>1
<1>3. JobShape(job[t])
  BY DEF JobsType
<1>4. /\ JobShape(z)
      /\ z.pc = "promote" /\ z.items = Tail(job[t].items) /\ z.who = job[t].who
      /\ z.doc = job[t].doc /\ z.then = job[t].then /\ z.back = job[t].back
      /\ z.last = job[t].last /\ z.todo = job[t].todo /\ z.granted = job[t].granted
      /\ z.to = job[t].to /\ z.owner = job[t].owner /\ z.version = job[t].version
      /\ z.text = job[t].text /\ z.missed = job[t].missed
  BY <1>1, <1>3 DEF JobShape
<1>5. /\ job'[t] = z /\ job' = [s \in Threads |-> job'[s]]
      /\ \A s \in Threads : s # t => job'[s] = job[s]
  BY <1>2, JobIsPut
<1>6. OnlyJob(t)
  BY <1>4, <1>5 DEF OnlyJob
<1>7. QED
  BY <1>4, <1>5, <1>6

\* A batch that has written an entry.
LEMMA JobPublished ==
    ASSUME JobsType, NEW t \in Threads, NEW d, NEW x,
           IsText(x), job' = [job EXCEPT ![t].pc = "mark", ![t].doc = d, ![t].then = "pick",
                              ![t].limit = 1, ![t].last = "promoted", ![t].text = x]
    PROVE  /\ OnlyJob(t)
           /\ job'[t].pc = "mark" /\ job'[t].doc = d /\ job'[t].then = "pick"
           /\ job'[t].last = "promoted" /\ job'[t].text = x /\ job'[t].who = job[t].who
           /\ job'[t].back = job[t].back /\ job'[t].todo = job[t].todo
           /\ job'[t].granted = job[t].granted /\ job'[t].to = job[t].to
           /\ job'[t].owner = job[t].owner /\ job'[t].version = job[t].version
           /\ job'[t].items = job[t].items /\ job'[t].missed = job[t].missed
<1>1. PICK z : z = [job[t] EXCEPT !.pc = "mark", !.doc = d, !.then = "pick",
                                    !.limit = 1, !.last = "promoted", !.text = x]
  OBVIOUS
<1>2. job' = [job EXCEPT ![t] = z]
  BY <1>1
<1>3. JobShape(job[t])
  BY DEF JobsType
<1>4. /\ JobShape(z)
      /\ z.pc = "mark" /\ z.doc = d /\ z.then = "pick" /\ z.last = "promoted" /\ z.text = x
      /\ z.who = job[t].who /\ z.back = job[t].back /\ z.todo = job[t].todo
      /\ z.granted = job[t].granted /\ z.to = job[t].to /\ z.owner = job[t].owner
      /\ z.version = job[t].version /\ z.items = job[t].items /\ z.missed = job[t].missed
  BY <1>1, <1>3 DEF JobShape
<1>5. /\ job'[t] = z /\ job' = [s \in Threads |-> job'[s]]
      /\ \A s \in Threads : s # t => job'[s] = job[s]
  BY <1>2, JobIsPut
<1>6. OnlyJob(t)
  BY <1>4, <1>5 DEF OnlyJob
<1>7. QED
  BY <1>4, <1>5, <1>6

\* A note that was written.
LEMMA JobWrote ==
    ASSUME JobsType, NEW t \in Threads, NEW x,
           IsText(x), job' = [job EXCEPT ![t].pc = "mark", ![t].then = "repair",
                              ![t].back = "end", ![t].text = x]
    PROVE  /\ OnlyJob(t)
           /\ job'[t].pc = "mark" /\ job'[t].then = "repair" /\ job'[t].back = "end"
           /\ job'[t].text = x /\ job'[t].who = job[t].who /\ job'[t].doc = job[t].doc
           /\ job'[t].last = job[t].last /\ job'[t].todo = job[t].todo
           /\ job'[t].granted = job[t].granted /\ job'[t].to = job[t].to
           /\ job'[t].owner = job[t].owner /\ job'[t].version = job[t].version
           /\ job'[t].items = job[t].items /\ job'[t].missed = job[t].missed
<1>1. PICK z : z = [job[t] EXCEPT !.pc = "mark", !.then = "repair",
                                    !.back = "end", !.text = x]
  OBVIOUS
<1>2. job' = [job EXCEPT ![t] = z]
  BY <1>1
<1>3. JobShape(job[t])
  BY DEF JobsType
<1>4. /\ JobShape(z)
      /\ z.pc = "mark" /\ z.then = "repair" /\ z.back = "end" /\ z.text = x
      /\ z.who = job[t].who /\ z.doc = job[t].doc /\ z.last = job[t].last
      /\ z.todo = job[t].todo /\ z.granted = job[t].granted /\ z.to = job[t].to
      /\ z.owner = job[t].owner /\ z.version = job[t].version /\ z.items = job[t].items
      /\ z.missed = job[t].missed
  BY <1>1, <1>3 DEF JobShape
<1>5. /\ job'[t] = z /\ job' = [s \in Threads |-> job'[s]]
      /\ \A s \in Threads : s # t => job'[s] = job[s]
  BY <1>2, JobIsPut
<1>6. OnlyJob(t)
  BY <1>4, <1>5 DEF OnlyJob
<1>7. QED
  BY <1>4, <1>5, <1>6

\* One job changes, and is one.
LEMMA OnlyKeeps ==
    ASSUME JobsType, NEW t \in Threads, OnlyJob(t), JobWay(job'[t])
    PROVE  JobsType'
BY DEF JobsType, OnlyJob

\* A job that ends.
LEMMA JobEnds ==
    ASSUME JobsType, NEW t \in Threads, Done(t)
    PROVE  JobsType' /\ job'[t] = Idle
<1>1. OnlyJob(t) /\ job'[t] = Idle
  BY IdleIsJob, JobIsPut DEF Done, OnlyJob
<1>2. QED
  BY <1>1, OnlyKeeps, IdleIsJob

\* A job that begins.
LEMMA JobBegins ==
    ASSUME JobsType, NEW t \in Threads, NEW z, Begin(t, z), JobShape(z), JobWay(z)
    PROVE  JobsType' /\ job'[t] = z
<1>1. OnlyJob(t) /\ job'[t] = z
  BY JobIsPut DEF Begin, OnlyJob
<1>2. QED
  BY <1>1, OnlyKeeps

-----------------------------------------------------------------------------
(***************************************************************************)
(* The records.  Of each there is a newest copy, what a move is about to   *)
(* write follows it, and what it removes is an older one.                  *)
(***************************************************************************)
NewestThere ==
    \A r : FilesOf(r) # {} =>
        \E d \in FilesOf(r) : \A e \in FilesOf(r) : file[e].version <= file[d].version

VersionsApart ==
    \A r : \A d, e \in FilesOf(r) : file[d].version = file[e].version => d = e

Moving(z) == \/ z.pc \in {"gate", "verify", "save"}
             \/ z.pc \in {"repair", "embed", "settle"} /\ z.back = "verify"

MovesFit ==
    \A t \in Threads : Moving(job[t]) =>
        /\ job[t].doc.id \in RecordIds /\ FilesOf(job[t].doc.id) # {}
        /\ \/ job[t].to = "handed_off" /\ job[t].owner \in Receivers
           \/ job[t].to = "completed" /\ job[t].owner = "-"
        /\ job[t].granted =>
              /\ job[t].version = file[Latest(job[t].doc.id)].version + 1
              /\ <<Latest(job[t].doc.id).status, job[t].to>> \in Moves
        /\ job[t].pc = "save" => job[t].granted

NewIsAsked == \A t \in Threads : job[t].pc = "create" => job[t].payload \in Payloads

OldGoes ==
    \A t \in Threads : job[t].pc = "unlink" =>
        /\ job[t].doc \in FilesOf(job[t].doc.id)
        /\ \E e \in FilesOf(job[t].doc.id) : file[job[t].doc].version < file[e].version

FilesInv == FilesType /\ JobsType /\ NewestThere /\ VersionsApart

BookInv == FilesInv /\ MovesFit /\ NewIsAsked /\ OldGoes

\* The newest copy is the only one of its kind.
LEMMA NewestIs ==
    ASSUME NEW S, NEW f, \A d \in S : f[d].version \in Nat,
           \A d, e \in S : f[d].version = f[e].version => d = e,
           NEW m \in S, \A e \in S : f[e].version <= f[m].version
    PROVE  (CHOOSE d \in S : \A e \in S : f[e].version <= f[d].version) = m
<1>1. \E d \in S : \A e \in S : f[e].version <= f[d].version
  OBVIOUS
<1>2. PICK x : x = CHOOSE d \in S : \A e \in S : f[e].version <= f[d].version
  OBVIOUS
<1>3. x \in S /\ \A e \in S : f[e].version <= f[x].version
  BY <1>1, <1>2
<1>4. f[x].version <= f[m].version /\ f[m].version <= f[x].version
  BY <1>3
<1>5. f[x].version = f[m].version
  BY <1>3, <1>4
<1>6. x = m
  BY <1>3, <1>5
<1>7. QED
  BY <1>2, <1>6

\* Copies have numbers.
LEMMA CopiesHaveVersions ==
    ASSUME FilesType, NEW r, NEW d \in FilesOf(r)
    PROVE  d \in DOMAIN file /\ d.kind = "collab" /\ d.id = r /\ IsText(file[d]) /\ file[d].version \in Nat
BY DEF FilesType, FilesOf, IsText

\* What Latest gives.
LEMMA LatestIsNewest ==
    ASSUME FilesType, NewestThere, VersionsApart, NEW r, FilesOf(r) # {}
    PROVE  Latest(r) \in FilesOf(r) /\ \A e \in FilesOf(r) : file[e].version <= file[Latest(r)].version
<1>1. PICK m \in FilesOf(r) : \A e \in FilesOf(r) : file[e].version <= file[m].version
  BY DEF NewestThere
<1>2. \A d \in FilesOf(r) : file[d].version \in Nat
  BY CopiesHaveVersions
<1>3. \A d, e \in FilesOf(r) : file[d].version = file[e].version => d = e
  BY DEF VersionsApart
<1>4. Latest(r) = m
  BY <1>1, <1>2, <1>3, NewestIs DEF Latest
<1>5. QED
  BY <1>1, <1>4

\* A file was changed beside the jobs.
LEMMA JobMisses ==
    ASSUME JobsType, NEW d, Miss(d)
    PROVE  /\ JobsType'
           /\ \A t \in Threads :
                 /\ job'[t].pc = job[t].pc /\ job'[t].who = job[t].who /\ job'[t].doc = job[t].doc
                 /\ job'[t].then = job[t].then /\ job'[t].back = job[t].back
                 /\ job'[t].last = job[t].last /\ job'[t].todo = job[t].todo
                 /\ job'[t].granted = job[t].granted /\ job'[t].to = job[t].to
                 /\ job'[t].owner = job[t].owner /\ job'[t].version = job[t].version
                 /\ job'[t].text = job[t].text /\ job'[t].items = job[t].items
                 /\ job'[t].payload = job[t].payload
                 /\ job'[t].missed = IF job[t].last = "reconciled" THEN job[t].missed \cup {d}
                                     ELSE job[t].missed
<1>1. job' = [t \in Threads |-> IF job[t].last = "reconciled" THEN [job[t] EXCEPT !.missed = @ \cup {d}]
                                ELSE job[t]]
  BY DEF Miss
<1>2. job' = [t \in Threads |-> job'[t]]
  BY <1>1
<1>3. ASSUME NEW t \in Threads
      PROVE  /\ JobShape(job'[t])
             /\ job'[t].pc = job[t].pc /\ job'[t].who = job[t].who /\ job'[t].doc = job[t].doc
             /\ job'[t].then = job[t].then /\ job'[t].back = job[t].back
             /\ job'[t].last = job[t].last /\ job'[t].todo = job[t].todo
             /\ job'[t].granted = job[t].granted /\ job'[t].to = job[t].to
             /\ job'[t].owner = job[t].owner /\ job'[t].version = job[t].version
             /\ job'[t].text = job[t].text /\ job'[t].items = job[t].items
             /\ job'[t].payload = job[t].payload
             /\ job'[t].missed = IF job[t].last = "reconciled" THEN job[t].missed \cup {d}
                                 ELSE job[t].missed
  <2>1. JobShape(job[t])
    BY DEF JobsType
  <2>2. CASE job[t].last = "reconciled"
    <3>1. job'[t] = [job[t] EXCEPT !.missed = job[t].missed \cup {d}]
      BY <1>1, <2>2
    <3>2. QED
      BY <2>1, <2>2, <3>1 DEF JobShape
  <2>3. CASE job[t].last # "reconciled"
    <3>1. job'[t] = job[t]
      BY <1>1, <2>3
    <3>2. QED
      BY <2>1, <2>3, <3>1
  <2>4. QED
    BY <2>2, <2>3
<1>4. ASSUME NEW t \in Threads PROVE JobWay(job'[t])
  <2>1. JobWay(job[t])
    BY DEF JobsType
  <2>2. QED
    BY <1>3, <2>1 DEF JobWay
<1>5. QED
  BY <1>2, <1>3, <1>4 DEF JobsType

Begun(t, pc, who) ==
    /\ Begin(t, job'[t]) /\ OnlyJob(t) /\ JobWay(job'[t])
    /\ job'[t].pc = pc /\ job'[t].who = who /\ job'[t].missed = {}
    /\ job'[t].last \in {"-", "end"}

TellsMore(t) ==
    job'[t].doc \in DOMAIN file => file[job'[t].doc].body \subseteq job'[t].text.body

\* Requests, and what a job is when they are taken up.
LEMMA RequestKinds ==
    ASSUME JobsType, NEW t \in Threads, Request(t)
    PROVE  \/ UNCHANGED job /\ (Propose(t) \/ Approve(t))
           \/ CreateRequest(t) /\ Begun(t, "create", "server") /\ job'[t].payload \in Payloads
           \/ MoveRequest(t) /\ Begun(t, "gate", "server")
           \/ \E p \in Processes :
                 /\ IndexerRequest(t, p)
                 /\ \/ Begun(t, "reconcile", p)
                    \/ Begun(t, "pick", p)
                    \/ Begun(t, "repair", p) /\ job'[t].back = "end"
           \/ \E p \in Processes : NoteRequest(t, p) /\ Begun(t, "write", p) /\ TellsMore(t)
           \/ \E p \in Processes, limit \in {1, NoLimit} :
                 BatchRequest(t, p, limit) /\ Begun(t, "promote", p)
<1>1. CASE Propose(t) \/ Approve(t)
  BY <1>1 DEF Propose, Approve
<1>2. ASSUME NEW z, Begin(t, z), JobShape(z), JobWay(z), z.missed = {}, z.last \in {"-", "end"}
      PROVE  Begun(t, z.pc, z.who) /\ job'[t] = z
  <2>1. job' = [job EXCEPT ![t] = z]
    BY <1>2 DEF Begin
  <2>2. /\ job'[t] = z /\ job' = [s \in Threads |-> job'[s]]
        /\ \A s \in Threads : s # t => job'[s] = job[s]
    BY <2>1, JobIsPut
  <2>3. QED
    BY <1>2, <2>2 DEF Begun, OnlyJob
<1>3. /\ JobShape(Idle) /\ JobWay(Idle) /\ Idle.missed = {} /\ Idle.last = "-"
      /\ Idle.who = "server" /\ Idle.doc.kind = "workflow"
  BY IdleIsJob DEF Idle, OutsideDoc, Doc
<1>4. CASE CreateRequest(t)
  <2>1. PICK x \in Payloads, k \in Keys : Begin(t, [Idle EXCEPT !.pc = "create", !.payload = x, !.key = k])
    BY <1>4 DEF CreateRequest
  <2>2. PICK z : z = [Idle EXCEPT !.pc = "create", !.payload = x, !.key = k]
    OBVIOUS
  <2>3. /\ JobShape(z) /\ z.pc = "create" /\ z.who = "server" /\ z.payload = x
        /\ z.missed = {} /\ z.last = "-"
    BY <1>3, <2>2 DEF JobShape
  <2>4. JobWay(z)
    BY <2>3 DEF JobWay
  <2>5. QED
    BY <1>2, <1>4, <2>1, <2>2, <2>3, <2>4
<1>5. CASE MoveRequest(t)
  <2>1. PICK d, to, own, v, g :
           Begin(t, [Idle EXCEPT !.pc = "gate", !.doc = d, !.to = to, !.owner = own, !.version = v,
                                 !.granted = g])
    BY <1>5 DEF MoveRequest
  <2>2. PICK z : z = [Idle EXCEPT !.pc = "gate", !.doc = d, !.to = to, !.owner = own, !.version = v,
                                  !.granted = g]
    OBVIOUS
  <2>3. JobShape(z) /\ z.pc = "gate" /\ z.who = "server" /\ z.missed = {} /\ z.last = "-"
    BY <1>3, <2>2 DEF JobShape
  <2>4. JobWay(z)
    BY <2>3 DEF JobWay
  <2>5. QED
    BY <1>2, <1>5, <2>1, <2>2, <2>3, <2>4
<1>6. ASSUME NEW p \in Processes, IndexerRequest(t, p)
      PROVE  \/ Begun(t, "reconcile", p)
             \/ Begun(t, "pick", p)
             \/ Begun(t, "repair", p) /\ job'[t].back = "end"
  <2>1. \/ Begin(t, [Idle EXCEPT !.pc = "reconcile", !.who = p])
        \/ \E n : Begin(t, [Idle EXCEPT !.pc = "pick", !.who = p, !.limit = n, !.last = "end"])
        \/ \E d : Begin(t, [Idle EXCEPT !.pc = "repair", !.who = p, !.doc = d, !.back = "end"])
    BY <1>6 DEF IndexerRequest
  <2>2. ASSUME NEW z, Begin(t, z), z = [Idle EXCEPT !.pc = "reconcile", !.who = p]
        PROVE  Begun(t, "reconcile", p)
    <3>1. JobShape(z) /\ z.pc = "reconcile" /\ z.who = p /\ z.missed = {} /\ z.last = "-"
      BY <1>3, <2>2 DEF JobShape
    <3>2. JobWay(z)
      BY <3>1 DEF JobWay
    <3>3. QED
      BY <1>2, <2>2, <3>1, <3>2
  <2>3. ASSUME NEW z, NEW n, Begin(t, z),
               z = [Idle EXCEPT !.pc = "pick", !.who = p, !.limit = n, !.last = "end"]
        PROVE  Begun(t, "pick", p)
    <3>1. JobShape(z) /\ z.pc = "pick" /\ z.who = p /\ z.missed = {} /\ z.last = "end"
      BY <1>3, <2>3 DEF JobShape
    <3>2. JobWay(z)
      BY <3>1 DEF JobWay, Lasts
    <3>3. QED
      BY <1>2, <2>3, <3>1, <3>2
  <2>4. ASSUME NEW z, NEW d, Begin(t, z),
               z = [Idle EXCEPT !.pc = "repair", !.who = p, !.doc = d, !.back = "end"]
        PROVE  Begun(t, "repair", p) /\ job'[t].back = "end"
    <3>1. JobShape(z) /\ z.pc = "repair" /\ z.who = p /\ z.back = "end" /\ z.missed = {} /\ z.last = "-"
      BY <1>3, <2>4 DEF JobShape
    <3>2. JobWay(z)
      BY <3>1 DEF JobWay
    <3>3. QED
      BY <1>2, <2>4, <3>1, <3>2
  <2>5. QED
    BY <2>1, <2>2, <2>3, <2>4
<1>7. ASSUME NEW p \in Processes, NoteRequest(t, p) PROVE Begun(t, "write", p) /\ TellsMore(t)
  <2>1. PICK n : /\ NoteDoc(n) \notin DOMAIN file
                 /\ \/ Begin(t, [[Idle EXCEPT !.who = p, !.doc = NoteDoc(n),
                                               !.text = Text("-", "-", 1, {n})]
                                   EXCEPT !.pc = "write"])
                    \/ \E d \in DOMAIN vec :
                         /\ d.kind = "entry"
                         /\ Begin(t, [[Idle EXCEPT !.who = p, !.doc = NoteDoc(n),
                                                    !.text = Text("-", "-", 1, {n})]
                                   EXCEPT !.pc = "write", !.doc = d, !.text.body = file[d].body \cup {n}])
    BY <1>7 DEF NoteRequest
  <2>2. PICK y : y = [Idle EXCEPT !.who = p, !.doc = NoteDoc(n), !.text = Text("-", "-", 1, {n})]
    OBVIOUS
  <2>3. /\ JobShape(y) /\ y.doc = NoteDoc(n) /\ y.who = p /\ y.missed = {} /\ y.last = "-"
        /\ y.text = [task |-> "-", owner |-> "-", version |-> 1, body |-> {n}]
    BY <1>3, <2>2 DEF JobShape, IsText, Text
  <2>4. y.doc.kind = "entry"
    BY <2>3 DEF NoteDoc, Doc
  <2>5. ASSUME NEW z, JobShape(z), z.pc = "write", z.doc.kind = "entry", z.who = y.who,
               z.missed = y.missed, z.last = y.last, Begin(t, z),
               z.doc \in DOMAIN file => file[z.doc].body \subseteq z.text.body
        PROVE  Begun(t, "write", p) /\ TellsMore(t)
    <3>1. JobWay(z)
      BY <2>5 DEF JobWay
    <3>2. QED
      BY <1>2, <2>3, <2>5, <3>1 DEF TellsMore
  <2>6. CASE Begin(t, [y EXCEPT !.pc = "write"])
    <3>1. PICK z : z = [y EXCEPT !.pc = "write"]
      OBVIOUS
    <3>2. /\ JobShape(z) /\ z.pc = "write" /\ z.doc = y.doc /\ z.who = y.who
          /\ z.missed = y.missed /\ z.last = y.last
      BY <2>3, <3>1 DEF JobShape
    <3>3. QED
      BY <2>1, <2>3, <2>4, <2>5, <2>6, <3>1, <3>2
  <2>7. ASSUME NEW d, d.kind = "entry",
               Begin(t, [y EXCEPT !.pc = "write", !.doc = d, !.text.body = file[d].body \cup {n}])
        PROVE  Begun(t, "write", p) /\ TellsMore(t)
    <3>1. PICK x : x = [y.text EXCEPT !.body = file[d].body \cup {n}]
      OBVIOUS
    <3>2. IsText(x) /\ x.body = file[d].body \cup {n}
      BY <2>3, <3>1 DEF IsText
    <3>3. PICK z : z = [y EXCEPT !.pc = "write", !.doc = d, !.text = x]
      OBVIOUS
    <3>4. /\ JobShape(z) /\ z.pc = "write" /\ z.doc = d /\ z.who = y.who
          /\ z.missed = y.missed /\ z.last = y.last /\ z.text = x
      BY <2>3, <3>2, <3>3 DEF JobShape
    <3>5. Begin(t, z)
      BY <2>7, <3>1, <3>3
    <3>6. QED
      BY <2>5, <2>7, <3>2, <3>4, <3>5
  <2>8. QED
    BY <2>1, <2>2, <2>6, <2>7
<1>8. ASSUME NEW p \in Processes, NEW limit, BatchRequest(t, p, limit) PROVE Begun(t, "promote", p)
  <2>1. PICK list : Begin(t, [Idle EXCEPT !.pc = "promote", !.who = p, !.items = list])
    BY <1>8 DEF BatchRequest
  <2>2. PICK z : z = [Idle EXCEPT !.pc = "promote", !.who = p, !.items = list]
    OBVIOUS
  <2>3. JobShape(z) /\ z.pc = "promote" /\ z.who = p /\ z.missed = {} /\ z.last = "-"
    BY <1>3, <2>2 DEF JobShape
  <2>4. JobWay(z)
    BY <2>3 DEF JobWay
  <2>5. QED
    BY <1>2, <2>1, <2>2, <2>3, <2>4
<1>9. QED
  BY <1>1, <1>4, <1>5, <1>6, <1>7, <1>8 DEF Request

LatestThere == \A r : FilesOf(r) # {} => Latest(r) \in FilesOf(r)

\* Each step of a job leaves jobs.
LEMMA JobsKept ==
    ASSUME FilesType, JobsType, LatestThere, [RecNext]_recVars
    PROVE  JobsType'
<1>1. JobsType /\ FilesType
  OBVIOUS
<1>2. ASSUME NEW t \in Threads, JobStep(t) PROVE JobsType'
  <2>1. JobShape(job[t]) /\ JobWay(job[t])
    BY <1>1 DEF JobsType
  <2>2. CASE Finish(t) \/ Create(t) \/ Unlink(t)
    BY <1>1, <2>2, JobEnds DEF Finish, Create, Unlink
  <2>3. CASE MarkStep(t)
    <3>1. Go(t, job[t].then) /\ job[t].pc = "mark"
      BY <2>3 DEF MarkStep, At
    <3>2. OnlyJob(t) /\ job'[t].pc = job[t].then /\ job'[t].back = job[t].back /\ job'[t].last = job[t].last
      BY <1>1, <3>1, JobGoes
    <3>3. JobWay(job'[t])
      BY <2>1, <3>1, <3>2 DEF JobWay, Lasts
    <3>4. QED
      BY <1>1, <3>2, <3>3, OnlyKeeps
  <2>4. CASE RepairStep(t)
    <3>1. At(t, "repair") /\ job[t].pc = "repair" /\ job[t].back \in {"end", "verify"}
      BY <2>1, <2>4 DEF RepairStep, At, JobWay
    <3>2. CASE Go(t, job[t].back)
      <4>1. OnlyJob(t) /\ job'[t].pc = job[t].back /\ job'[t].back = job[t].back
        BY <1>1, <3>2, JobGoes
      <4>2. JobWay(job'[t])
        BY <3>1, <4>1 DEF JobWay
      <4>3. QED
        BY <1>1, <4>1, <4>2, OnlyKeeps
    <3>3. CASE /\ job[t].doc \in DOMAIN file
               /\ job' = [job EXCEPT ![t].pc = "embed", ![t].text = file[job[t].doc]]
      <4>1. IsText(file[job[t].doc])
        BY <1>1, <3>3 DEF FilesType
      <4>2. OnlyJob(t) /\ job'[t].pc = "embed" /\ job'[t].back = job[t].back
        BY <1>1, <3>3, <4>1, JobReads
      <4>3. JobWay(job'[t])
        BY <3>1, <4>2 DEF JobWay
      <4>4. QED
        BY <1>1, <4>2, <4>3, OnlyKeeps
    <3>4. QED
      BY <2>4, <3>2, <3>3 DEF RepairStep
  <2>5. CASE Embed(t) \/ EmbedFails(t) \/ Settle(t)
    <3>1. /\ job[t].pc \in {"embed", "settle"}
          /\ \/ Go(t, "settle") /\ job[t].pc = "embed"
             \/ Go(t, job[t].back)
      BY <2>5 DEF Embed, EmbedFails, Settle, At
    <3>2. PICK pc : /\ Go(t, pc)
                    /\ \/ pc = "settle" /\ job[t].pc = "embed"
                       \/ pc = job[t].back
      BY <3>1
    <3>3. OnlyJob(t) /\ job'[t].pc = pc /\ job'[t].back = job[t].back /\ job'[t].last = job[t].last
      BY <1>1, <3>2, JobGoes
    <3>4. JobWay(job'[t])
      BY <2>1, <3>1, <3>2, <3>3 DEF JobWay, Lasts
    <3>5. QED
      BY <1>1, <3>3, <3>4, OnlyKeeps
  <2>6. CASE RefreshPick(t)
    <3>1. PICK Q : job' = [job EXCEPT ![t].pc = "refresh", ![t].back = "refresh", ![t].todo = Q]
      BY <2>6 DEF RefreshPick
    <3>2. /\ OnlyJob(t) /\ job'[t].pc = "refresh" /\ job'[t].last = job[t].last
          /\ job'[t].back = "refresh"
      BY <1>1, <3>1, JobPicks
    <3>3. JobWay(job'[t])
      BY <2>1, <2>6, <3>2 DEF JobWay, RefreshPick, At
    <3>4. QED
      BY <1>1, <3>2, <3>3, OnlyKeeps
  <2>7. CASE RefreshStep(t)
    <3>1. job[t].pc = "refresh" /\ job[t].last \in Lasts /\ job[t].back = "refresh"
      BY <2>1, <2>7 DEF RefreshStep, At, JobWay
    <3>2. CASE Go(t, job[t].last)
      <4>1. OnlyJob(t) /\ job'[t].pc = job[t].last
        BY <1>1, <3>2, JobGoes
      <4>2. JobWay(job'[t])
        BY <3>1, <4>1 DEF JobWay, Lasts
      <4>3. QED
        BY <1>1, <4>1, <4>2, OnlyKeeps
    <3>3. ASSUME NEW d, job' = [job EXCEPT ![t].todo = @ \ {d}] PROVE JobsType'
      <4>1. /\ OnlyJob(t) /\ job'[t].pc = job[t].pc /\ job'[t].last = job[t].last
            /\ job'[t].back = job[t].back
        BY <1>1, <3>3, JobDrops
      <4>2. JobWay(job'[t])
        BY <3>1, <4>1 DEF JobWay, Lasts
      <4>3. QED
        BY <1>1, <4>1, <4>2, OnlyKeeps
    <3>4. ASSUME NEW d \in DOMAIN file,
                 job' = [job EXCEPT ![t].todo = @ \ {d}, ![t].doc = d, ![t].pc = "embed",
                                    ![t].text = file[d]]
          PROVE  JobsType'
      <4>1. IsText(file[d])
        BY <1>1 DEF FilesType
      <4>2. OnlyJob(t) /\ job'[t].pc = "embed" /\ job'[t].last = job[t].last /\ job'[t].back = job[t].back
        BY <1>1, <3>4, <4>1, JobTakes
      <4>3. JobWay(job'[t])
        BY <2>1, <3>1, <4>2 DEF JobWay, Lasts
      <4>4. QED
        BY <1>1, <4>2, <4>3, OnlyKeeps
    <3>5. QED
      BY <2>7, <3>2, <3>3, <3>4 DEF RefreshStep
  <2>8. CASE Reconcile(t)
    <3>1. OnlyJob(t) /\ job'[t].pc = "pick" /\ job'[t].last = "reconciled"
      BY <1>1, <2>8, JobMarks DEF Reconcile
    <3>2. QED
      BY <1>1, <3>1, OnlyKeeps DEF JobWay, Lasts
  <2>9. CASE Gate(t)
    <3>1. \/ Done(t)
          \/ \E d : job' = [job EXCEPT ![t].pc = "verify", ![t].doc = d, ![t].back = "verify"]
      BY <2>9 DEF Gate
    <3>2. ASSUME NEW d, job' = [job EXCEPT ![t].pc = "verify", ![t].doc = d, ![t].back = "verify"]
          PROVE  JobsType'
      <4>1. OnlyJob(t) /\ job'[t].pc = "verify" /\ job'[t].back = "verify"
        BY <1>1, <3>2, JobGates
      <4>2. QED
        BY <1>1, <4>1, OnlyKeeps DEF JobWay
    <3>3. QED
      BY <1>1, <3>1, <3>2, JobEnds
  <2>10. CASE Verify(t)
    <3>1. job[t].pc = "verify" /\ job[t].back = "verify"
      BY <2>1, <2>10 DEF Verify, At, JobWay
    <3>2. \/ Go(t, "save") \/ Done(t)
          \/ \E n : job' = [job EXCEPT ![t].pc = "repair", ![t].tries = n]
      BY <2>10 DEF Verify
    <3>3. CASE Go(t, "save")
      <4>1. OnlyJob(t) /\ job'[t].pc = "save"
        BY <1>1, <3>3, JobGoes
      <4>2. QED
        BY <1>1, <4>1, OnlyKeeps DEF JobWay
    <3>4. ASSUME NEW n, job' = [job EXCEPT ![t].pc = "repair", ![t].tries = n] PROVE JobsType'
      <4>1. OnlyJob(t) /\ job'[t].pc = "repair" /\ job'[t].back = job[t].back
        BY <1>1, <3>4, JobTries
      <4>2. QED
        BY <1>1, <3>1, <4>1, OnlyKeeps DEF JobWay
    <3>5. QED
      BY <1>1, <3>2, <3>3, <3>4, JobEnds
  <2>11. CASE Save(t)
    <3>1. Done(t) \/ \E d : job' = [job EXCEPT ![t].pc = "unlink", ![t].doc = d]
      BY <2>11 DEF Save
    <3>2. ASSUME NEW d, job' = [job EXCEPT ![t].pc = "unlink", ![t].doc = d] PROVE JobsType'
      <4>1. OnlyJob(t) /\ job'[t].pc = "unlink"
        BY <1>1, <3>2, JobUnlinks
      <4>2. QED
        BY <1>1, <4>1, OnlyKeeps DEF JobWay
    <3>3. QED
      BY <1>1, <3>1, <3>2, JobEnds
  <2>12. CASE Promote(t) \/ Promoted(t)
    <3>1. \/ Skip(t)
          \/ \E r : FilesOf(r) # {} /\ job' = [job EXCEPT ![t].pc = "publish", ![t].text = file[Latest(r)]]
      BY <2>12 DEF Promote, Promoted
    <3>2. CASE Skip(t)
      <4>1. OnlyJob(t) /\ job'[t].pc = "promote"
        BY <1>1, <3>2, JobSkips DEF Skip
      <4>2. QED
        BY <1>1, <4>1, OnlyKeeps DEF JobWay
    <3>3. ASSUME NEW r, FilesOf(r) # {},
                 job' = [job EXCEPT ![t].pc = "publish", ![t].text = file[Latest(r)]]
          PROVE  JobsType'
      <4>1. IsText(file[Latest(r)])
        BY <1>1, <3>3, CopiesHaveVersions DEF LatestThere
      <4>2. OnlyJob(t) /\ job'[t].pc = "publish"
        BY <1>1, <3>3, <4>1, JobReads
      <4>3. QED
        BY <1>1, <4>2, OnlyKeeps DEF JobWay
    <3>4. QED
      BY <3>1, <3>2, <3>3
  <2>13. CASE Publish(t)
    <3>1. PICK x : x = [job[t].text EXCEPT !.owner = "-"]
      OBVIOUS
    <3>2. IsText(x)
      BY <2>1, <3>1 DEF JobShape, IsText
    <3>3. PICK d : job' = [job EXCEPT ![t].pc = "mark", ![t].doc = d, ![t].then = "pick",
                              ![t].limit = 1, ![t].last = "promoted", ![t].text = x]
      BY <2>13, <3>1 DEF Publish
    <3>4. OnlyJob(t) /\ job'[t].pc = "mark" /\ job'[t].then = "pick" /\ job'[t].last = "promoted"
      BY <1>1, <3>2, <3>3, JobPublished
    <3>5. QED
      BY <1>1, <3>4, OnlyKeeps DEF JobWay
  <2>14. CASE Write(t)
    <3>1. PICK v : v = IF job[t].doc \in DOMAIN file THEN file[job[t].doc].version + 1 ELSE 1
      OBVIOUS
    <3>2. PICK x : x = [job[t].text EXCEPT !.version = v]
      OBVIOUS
    <3>3. v \in Nat
      BY <1>1, <3>1 DEF FilesType, IsText
    <3>4. IsText(x)
      BY <2>1, <3>2, <3>3 DEF JobShape, IsText
    <3>5. job' = [job EXCEPT ![t].pc = "mark", ![t].then = "repair", ![t].back = "end", ![t].text = x]
      BY <2>14, <3>1, <3>2 DEF Write
    <3>6. OnlyJob(t) /\ job'[t].pc = "mark" /\ job'[t].then = "repair" /\ job'[t].back = "end"
      BY <1>1, <3>4, <3>5, JobWrote
    <3>7. QED
      BY <1>1, <3>6, OnlyKeeps DEF JobWay
  <2>15. QED
    BY <1>2, <2>2, <2>3, <2>4, <2>5, <2>6, <2>7, <2>8, <2>9, <2>10, <2>11, <2>12, <2>13, <2>14
       DEF JobStep
<1>3. ASSUME NEW t \in Threads, Request(t) PROVE JobsType'
  <2>1. UNCHANGED job \/ (OnlyJob(t) /\ JobWay(job'[t]))
    BY <1>1, <1>3, RequestKinds DEF Begun
  <2>2. QED
    BY <1>1, <2>1, OnlyKeeps DEF JobsType
<1>4. CASE OutsideWrite \/ RemoveByHand
  <2>1. \E d : Miss(d)
    BY <1>4 DEF OutsideWrite, RemoveByHand
  <2>2. QED
    BY <1>1, <2>1, JobMisses
<1>5. ASSUME NEW p \in Processes, Kill(p) PROVE JobsType'
  <2>1. PICK next : next = [t \in Threads |-> IF job[t].who = p THEN Idle ELSE job[t]]
    OBVIOUS
  <2>2. next = [t \in Threads |-> next[t]] /\ \A t \in Threads : JobShape(next[t]) /\ JobWay(next[t])
    BY <1>1, <2>1, IdleIsJob DEF JobsType
  <2>3. PICK z : z = [Idle EXCEPT !.pc = "reconcile"]
    OBVIOUS
  <2>4. JobShape(z) /\ JobWay(z)
    BY <2>3, IdleIsJob DEF JobShape, JobWay
  <2>5. job' = next \/ \E s \in Threads : job' = [next EXCEPT ![s] = z]
    BY <1>5, <2>1, <2>3 DEF Kill
  <2>6. QED
    BY <2>2, <2>4, <2>5 DEF JobsType
<1>6. CASE UNCHANGED recVars
  BY <1>1, <1>6 DEF recVars, JobsType
<1>7. QED
  BY <1>2, <1>3, <1>4, <1>5, <1>6 DEF RecNext

-----------------------------------------------------------------------------
(***************************************************************************)
(* Who changes the files, and that the records are touched by their own    *)
(* operations only.                                                        *)
(***************************************************************************)
RecordWrites(t) == Create(t) \/ Save(t) \/ Unlink(t)

BookSame == \A r : FilesOf(r)' = FilesOf(r) /\ \A d \in FilesOf(r) : file'[d] = file[d]

\* A file is written.
LEMMA FilePut ==
    ASSUME FilesType, NEW d, NEW x, IsText(x), file' = Put(file, d, x)
    PROVE  /\ FilesType' /\ DOMAIN file' = DOMAIN file \cup {d} /\ file'[d] = x
           /\ \A e \in DOMAIN file : e # d => file'[e] = file[e]
           /\ d.kind # "collab" => BookSame
<1>1. file' = [e \in DOMAIN file \cup {d} |-> IF e = d THEN x ELSE file[e]]
  BY DEF Put
<1>2. /\ DOMAIN file' = DOMAIN file \cup {d} /\ file'[d] = x
      /\ \A e \in DOMAIN file : e # d => file'[e] = file[e]
  BY <1>1
<1>3. FilesType'
  BY <1>1, <1>2 DEF FilesType
<1>4. d.kind # "collab" => BookSame
  BY <1>2 DEF BookSame, FilesOf
<1>5. QED
  BY <1>2, <1>3, <1>4

\* A file is removed.
LEMMA FileGone ==
    ASSUME FilesType, NEW d, file' = Without(file, {d})
    PROVE  /\ FilesType' /\ DOMAIN file' = DOMAIN file \ {d}
           /\ \A e \in DOMAIN file' : file'[e] = file[e]
           /\ d.kind # "collab" => BookSame
<1>1. file' = [e \in DOMAIN file \ {d} |-> file[e]]
  BY DEF Without, Restrict
<1>2. DOMAIN file' = DOMAIN file \ {d} /\ \A e \in DOMAIN file' : file'[e] = file[e]
  BY <1>1
<1>3. FilesType'
  BY <1>1, <1>2 DEF FilesType
<1>4. d.kind # "collab" => BookSame
  BY <1>2 DEF BookSame, FilesOf
<1>5. QED
  BY <1>2, <1>3, <1>4

\* These steps change files, and no other.
LEMMA FileSteps ==
    ASSUME [RecNext]_recVars
    PROVE  \/ UNCHANGED file
           \/ \E t \in Threads : RecordWrites(t) \/ Publish(t) \/ Write(t)
           \/ OutsideWrite \/ RemoveByHand
<1>1. ASSUME NEW t \in Threads, JobStep(t)
      PROVE  UNCHANGED file \/ RecordWrites(t) \/ Publish(t) \/ Write(t)
  BY <1>1 DEF JobStep, RecordWrites, Finish, MarkStep, RepairStep, Embed, EmbedFails, Settle, RefreshPick,
              RefreshStep, Reconcile, Gate, Verify, Promote, Promoted
<1>2. ASSUME NEW t \in Threads, Request(t) PROVE UNCHANGED file
  BY <1>2 DEF Request, CreateRequest, MoveRequest, Propose, Approve, IndexerRequest, NoteRequest,
              BatchRequest
<1>3. ASSUME NEW p \in Processes, Kill(p) PROVE UNCHANGED file
  BY <1>3 DEF Kill
<1>4. CASE UNCHANGED recVars
  BY <1>4 DEF recVars
<1>5. QED
  BY <1>1, <1>2, <1>3, <1>4 DEF RecNext

\* The files keep their form.
LEMMA FilesKept ==
    ASSUME FilesInv, MovesFit, [RecNext]_recVars
    PROVE  /\ FilesType'
           /\ BookSame \/ \E t \in Threads : RecordWrites(t)
<1>1. FilesType /\ JobsType /\ NewestThere /\ VersionsApart
  BY DEF FilesInv
<1>2. CASE UNCHANGED file
  BY <1>1, <1>2 DEF FilesType, BookSame, FilesOf
<1>3. ASSUME NEW t \in Threads, Create(t) PROVE FilesType'
  <2>1. PICK d, x : file' = Put(file, d, Text(x.task, x.author, 1, {}))
    BY <1>3 DEF Create
  <2>2. IsText(Text(x.task, x.author, 1, {}))
    BY DEF IsText, Text
  <2>3. QED
    BY <1>1, <2>1, <2>2, FilePut
<1>4. ASSUME NEW t \in Threads, Save(t) PROVE FilesType'
  <2>1. CASE UNCHANGED file
    BY <1>1, <2>1 DEF FilesType
  <2>2. CASE FilesOf(job[t].doc.id) # {}
    <3>1. PICK old : old = Latest(job[t].doc.id)
      OBVIOUS
    <3>2. IsText(file[old]) /\ file[old].version \in Nat
      BY <1>1, <2>2, <3>1, LatestIsNewest, CopiesHaveVersions
    <3>3. PICK x : x = [file[old] EXCEPT !.version = job[t].version,
                                         !.owner = IF job[t].owner = "-" THEN @ ELSE job[t].owner]
      OBVIOUS
    <3>4. job[t].version \in Nat
      <4>1. Moving(job[t]) /\ job[t].pc = "save"
        BY <1>4 DEF Moving, Save, At
      <4>2. job[t].version = file[old].version + 1
        BY <3>1, <4>1 DEF MovesFit
      <4>3. QED
        BY <3>2, <4>2
    <3>5. IsText(x)
      BY <3>2, <3>3, <3>4 DEF IsText
    <3>6. \E new : file' = Put(file, new, x)
      BY <1>4, <2>2, <3>1, <3>3 DEF Save
    <3>7. QED
      BY <1>1, <3>5, <3>6, FilePut
  <2>3. QED
    BY <1>4, <2>1, <2>2 DEF Save
<1>5. ASSUME NEW t \in Threads, Unlink(t) PROVE FilesType'
  BY <1>1, <1>5, FileGone DEF Unlink
<1>6. ASSUME NEW t \in Threads, Publish(t) PROVE FilesType' /\ BookSame
  <2>1. PICK x : x = [job[t].text EXCEPT !.owner = "-"]
    OBVIOUS
  <2>2. IsText(x)
    <3>1. IsText(job[t].text)
      BY <1>1 DEF JobsType, JobShape
    <3>2. QED
      BY <2>1, <3>1 DEF IsText
  <2>3. PICK i : file' = Put(file, PromotedDoc(i), x)
    BY <1>6, <2>1 DEF Publish
  <2>4. PromotedDoc(i).kind = "promoted"
    BY DEF PromotedDoc, Doc
  <2>5. QED
    BY <1>1, <2>2, <2>3, <2>4, FilePut
<1>7. ASSUME NEW t \in Threads, Write(t) PROVE FilesType' /\ BookSame
  <2>1. PICK v : v = IF job[t].doc \in DOMAIN file THEN file[job[t].doc].version + 1 ELSE 1
    OBVIOUS
  <2>2. PICK x : x = [job[t].text EXCEPT !.version = v]
    OBVIOUS
  <2>3. v \in Nat
    BY <1>1, <2>1 DEF FilesType, IsText
  <2>4. IsText(x)
    BY <1>1, <2>2, <2>3 DEF JobsType, JobShape, IsText
  <2>5. file' = Put(file, job[t].doc, x) /\ job[t].doc.kind = "entry"
    BY <1>1, <1>7, <2>1, <2>2 DEF Write, At, JobsType, JobWay
  <2>6. QED
    BY <1>1, <2>4, <2>5, FilePut
<1>8. CASE OutsideWrite
  <2>1. PICK w, v : v \in Nat /\ file' = Put(file, OutsideDoc(w), Text("-", "-", v, {}))
    <3>1. PICK w, v : /\ v = IF OutsideDoc(w) \in DOMAIN file
                             THEN file[OutsideDoc(w)].version + 1 ELSE 1
                      /\ file' = Put(file, OutsideDoc(w), Text("-", "-", v, {}))
      BY <1>8 DEF OutsideWrite
    <3>2. v \in Nat
      BY <1>1, <3>1 DEF FilesType, IsText
    <3>3. QED
      BY <3>1, <3>2
  <2>2. IsText(Text("-", "-", v, {})) /\ OutsideDoc(w).kind = "workflow"
    BY <2>1 DEF IsText, Text, OutsideDoc, Doc
  <2>3. QED
    BY <1>1, <2>1, <2>2, FilePut
<1>9. CASE RemoveByHand
  <2>1. PICK d \in DOMAIN file : d.kind \in {"entry", "workflow"} /\ file' = Without(file, {d})
    BY <1>9, Zenon DEF RemoveByHand
  <2>2. QED
    BY <1>1, <2>1, FileGone
<1>10. QED
  BY <1>2, <1>3, <1>4, <1>5, <1>6, <1>7, <1>8, <1>9, FileSteps DEF RecordWrites

\* Where no record was touched, the newest copies are the same.
LEMMA LatestSame ==
    ASSUME FilesType, NewestThere, VersionsApart, BookSame
    PROVE  /\ NewestThere' /\ VersionsApart'
           /\ \A r : FilesOf(r) # {} => Latest(r)' = Latest(r) /\ file'[Latest(r)] = file[Latest(r)]
<1>1. NewestThere'
  BY DEF NewestThere, BookSame
<1>2. VersionsApart'
  BY DEF VersionsApart, BookSame
<1>3. ASSUME NEW r, FilesOf(r) # {}
      PROVE  Latest(r)' = Latest(r) /\ file'[Latest(r)] = file[Latest(r)]
  <2>1. PICK m : m = Latest(r)
    OBVIOUS
  <2>2. m \in FilesOf(r) /\ \A e \in FilesOf(r) : file[e].version <= file[m].version
    BY <1>3, <2>1, LatestIsNewest
  <2>3. \A d \in FilesOf(r) : file'[d] = file[d] /\ file[d].version \in Nat
    BY CopiesHaveVersions DEF BookSame
  <2>4. \A d, e \in FilesOf(r) : file[d].version = file[e].version => d = e
    BY DEF VersionsApart
  <2>5. FilesOf(r)' = FilesOf(r)
    BY DEF BookSame
  <2>6. (CHOOSE d \in FilesOf(r) : \A e \in FilesOf(r) : file'[e].version <= file'[d].version) = m
    BY <2>2, <2>3, <2>4, NewestIs
  <2>7. Latest(r)' = m
    BY <2>5, <2>6 DEF Latest
  <2>8. QED
    BY <2>1, <2>2, <2>3, <2>7
<1>4. QED
  BY <1>1, <1>2, <1>3

\* A move goes on as it was begun, unless it is a new one.
MoveGoesOn(t) ==
    /\ Moving(job[t]) /\ job'[t].doc.id = job[t].doc.id /\ job'[t].granted = job[t].granted
    /\ job'[t].to = job[t].to /\ job'[t].owner = job[t].owner /\ job'[t].version = job[t].version
    /\ job'[t].pc = "save" => job[t].granted

MovesGo(t) ==
    /\ Moving(job'[t]) => MoveRequest(t) \/ MoveGoesOn(t)
    /\ job'[t].pc = "create" => \/ job'[t].payload \in Payloads
                                \/ job[t].pc = "create" /\ job'[t].payload = job[t].payload
    /\ job'[t].pc = "unlink" => \/ Save(t)
                                \/ job[t].pc = "unlink" /\ job'[t].doc = job[t].doc
    /\ job'[t].pc = "publish" => \/ \E r : FilesOf(r) # {} /\ job'[t].text = file[Latest(r)]
                                 \/ job[t].pc = "publish" /\ job'[t].text = job[t].text
    /\ job'[t].pc = "write" =>
          \/ job'[t].doc \in DOMAIN file => file[job'[t].doc].body \subseteq job'[t].text.body
          \/ job[t].pc = "write" /\ job'[t].doc = job[t].doc /\ job'[t].text = job[t].text

\* Every step goes on with a move, or has nothing to do with one.
LEMMA MovesAreKept ==
    ASSUME FilesInv, MovesFit, OneThread, [RecNext]_recVars, NEW s \in Threads
    PROVE  MovesGo(s)
<1>1. JobsType /\ FilesType /\ NewestThere /\ VersionsApart
  BY DEF FilesInv
<1>2. ASSUME job'[s] = job[s] PROVE MovesGo(s)
  BY <1>2 DEF MovesFit, MovesGo, MoveGoesOn, Moving
<1>3. ASSUME ~Moving(job'[s]), job'[s].pc \notin {"create", "unlink", "publish", "write"} PROVE MovesGo(s)
  BY <1>3 DEF MovesGo
<1>4. ASSUME NEW t \in Threads, JobStep(t) PROVE MovesGo(s)
  <2>1. JobShape(job[s]) /\ JobWay(job[s]) /\ t = s
    BY <1>1 DEF JobsType, OneThread
  <2>2. ASSUME job'[s] = Idle PROVE MovesGo(s)
    BY <1>3, <2>2 DEF Idle, Moving
  <2>3. CASE Finish(s) \/ Create(s) \/ Unlink(s)
    BY <1>1, <2>2, <2>3, JobEnds DEF Finish, Create, Unlink
  <2>4. CASE MarkStep(s)
    <3>1. Go(s, job[s].then) /\ job[s].pc = "mark"
      BY <2>4 DEF MarkStep, At
    <3>2. job'[s].pc = job[s].then /\ job'[s].back = job[s].back
      BY <1>1, <3>1, JobGoes
    <3>3. QED
      BY <1>3, <2>1, <3>1, <3>2 DEF JobWay, Moving
  <2>5. CASE RepairStep(s)
    <3>1. job[s].pc = "repair" /\ job[s].back \in {"end", "verify"}
      BY <2>1, <2>5 DEF RepairStep, At, JobWay
    <3>2. CASE Go(s, job[s].back)
      <4>1. /\ job'[s].pc = job[s].back /\ job'[s].back = job[s].back /\ job'[s].doc = job[s].doc
            /\ job'[s].granted = job[s].granted /\ job'[s].to = job[s].to
            /\ job'[s].owner = job[s].owner /\ job'[s].version = job[s].version
        BY <1>1, <3>2, JobGoes
      <4>2. QED
        BY <3>1, <4>1 DEF MovesGo, MoveGoesOn, Moving
    <3>3. CASE /\ job[s].doc \in DOMAIN file
               /\ job' = [job EXCEPT ![s].pc = "embed", ![s].text = file[job[s].doc]]
      <4>1. IsText(file[job[s].doc])
        BY <1>1, <3>3 DEF FilesType
      <4>2. /\ job'[s].pc = "embed" /\ job'[s].back = job[s].back /\ job'[s].doc = job[s].doc
            /\ job'[s].granted = job[s].granted /\ job'[s].to = job[s].to
            /\ job'[s].owner = job[s].owner /\ job'[s].version = job[s].version
        BY <1>1, <3>3, <4>1, JobReads
      <4>3. QED
        BY <3>1, <4>2 DEF MovesGo, MoveGoesOn, Moving
    <3>4. QED
      BY <2>1, <2>5, <3>2, <3>3 DEF RepairStep
  <2>6. CASE Embed(s) \/ EmbedFails(s) \/ Settle(s)
    <3>1. /\ job[s].pc \in {"embed", "settle"}
          /\ \/ Go(s, "settle")
             \/ Go(s, job[s].back)
      BY <2>6 DEF Embed, EmbedFails, Settle, At
    <3>2. PICK pc : Go(s, pc) /\ pc \in {"settle", job[s].back}
      BY <3>1
    <3>3. /\ job'[s].pc = pc /\ job'[s].back = job[s].back /\ job'[s].doc = job[s].doc
          /\ job'[s].granted = job[s].granted /\ job'[s].to = job[s].to
          /\ job'[s].owner = job[s].owner /\ job'[s].version = job[s].version
      BY <1>1, <3>2, JobGoes
    <3>4. job[s].back \in {"end", "verify", "refresh"}
      BY <2>1, <3>1 DEF JobWay
    <3>5. CASE job[s].back = "verify"
      BY <3>1, <3>2, <3>3, <3>5 DEF MovesGo, MoveGoesOn, Moving
    <3>6. CASE job[s].back # "verify"
      BY <1>3, <3>2, <3>3, <3>4, <3>6 DEF Moving
    <3>7. QED
      BY <3>5, <3>6
  <2>7. CASE RefreshPick(s)
    <3>1. PICK Q : job' = [job EXCEPT ![s].pc = "refresh", ![s].back = "refresh", ![s].todo = Q]
      BY <2>7 DEF RefreshPick
    <3>2. job'[s].pc = "refresh"
      BY <1>1, <3>1, JobPicks
    <3>3. QED
      BY <1>3, <3>2 DEF Moving
  <2>8. CASE RefreshStep(s)
    <3>1. job[s].pc = "refresh" /\ job[s].last \in Lasts /\ job[s].back = "refresh"
      BY <2>1, <2>8 DEF RefreshStep, At, JobWay
    <3>2. CASE Go(s, job[s].last)
      <4>1. job'[s].pc = job[s].last
        BY <1>1, <3>2, JobGoes
      <4>2. QED
        BY <1>3, <3>1, <4>1 DEF Moving, Lasts
    <3>3. ASSUME NEW d, job' = [job EXCEPT ![s].todo = @ \ {d}] PROVE MovesGo(s)
      <4>1. job'[s].pc = job[s].pc
        BY <1>1, <3>3, JobDrops
      <4>2. QED
        BY <1>3, <3>1, <4>1 DEF Moving
    <3>4. ASSUME NEW d \in DOMAIN file,
                 job' = [job EXCEPT ![s].todo = @ \ {d}, ![s].doc = d, ![s].pc = "embed",
                                    ![s].text = file[d]]
          PROVE  MovesGo(s)
      <4>1. IsText(file[d])
        BY <1>1 DEF FilesType
      <4>2. job'[s].pc = "embed" /\ job'[s].back = job[s].back
        BY <1>1, <3>4, <4>1, JobTakes
      <4>3. QED
        BY <1>3, <3>1, <4>2 DEF Moving
    <3>5. QED
      BY <2>1, <2>8, <3>2, <3>3, <3>4 DEF RefreshStep
  <2>9. CASE Reconcile(s)
    <3>1. job'[s].pc = "pick"
      BY <1>1, <2>9, JobMarks DEF Reconcile
    <3>2. QED
      BY <1>3, <3>1 DEF Moving
  <2>10. CASE Gate(s)
    <3>1. PICK r : r = job[s].doc.id
      OBVIOUS
    <3>2. CASE FilesOf(r) = {}
      BY <1>1, <2>2, <2>10, <3>1, <3>2, JobEnds DEF Gate
    <3>3. CASE FilesOf(r) # {}
      <4>1. PICK d : d = Latest(r)
        OBVIOUS
      <4>2. d.id = r
        BY <1>1, <3>3, <4>1, LatestIsNewest, CopiesHaveVersions
      <4>3. job[s].pc = "gate" /\ job' = [job EXCEPT ![s].pc = "verify", ![s].doc = d, ![s].back = "verify"]
        BY <2>10, <3>1, <3>3, <4>1 DEF Gate, At
      <4>4. /\ job'[s].pc = "verify" /\ job'[s].doc = d
            /\ job'[s].granted = job[s].granted /\ job'[s].to = job[s].to
            /\ job'[s].owner = job[s].owner /\ job'[s].version = job[s].version
        BY <1>1, <4>3, JobGates
      <4>5. QED
        BY <3>1, <4>2, <4>3, <4>4 DEF MovesGo, MoveGoesOn, Moving
    <3>4. QED
      BY <3>2, <3>3
  <2>11. CASE Verify(s)
    <3>1. job[s].pc = "verify"
      BY <2>11 DEF Verify, At
    <3>2. \/ Go(s, "save") /\ job[s].granted
          \/ Done(s)
          \/ \E n : job' = [job EXCEPT ![s].pc = "repair", ![s].tries = n]
      BY <2>11 DEF Verify
    <3>3. CASE Go(s, "save") /\ job[s].granted
      <4>1. /\ job'[s].pc = "save" /\ job'[s].doc = job[s].doc
            /\ job'[s].granted = job[s].granted /\ job'[s].to = job[s].to
            /\ job'[s].owner = job[s].owner /\ job'[s].version = job[s].version
        BY <1>1, <3>3, JobGoes
      <4>2. QED
        BY <3>1, <3>3, <4>1 DEF MovesGo, MoveGoesOn, Moving
    <3>4. ASSUME NEW n, job' = [job EXCEPT ![s].pc = "repair", ![s].tries = n] PROVE MovesGo(s)
      <4>1. /\ job'[s].pc = "repair" /\ job'[s].doc = job[s].doc
            /\ job'[s].granted = job[s].granted /\ job'[s].to = job[s].to
            /\ job'[s].owner = job[s].owner /\ job'[s].version = job[s].version
        BY <1>1, <3>4, JobTries
      <4>2. QED
        BY <3>1, <4>1 DEF MovesGo, MoveGoesOn, Moving
    <3>5. QED
      BY <1>1, <2>2, <3>2, <3>3, <3>4, JobEnds
  <2>12. CASE Save(s)
    <3>1. Done(s) \/ \E d : job' = [job EXCEPT ![s].pc = "unlink", ![s].doc = d]
      BY <2>12 DEF Save
    <3>2. ASSUME NEW d, job' = [job EXCEPT ![s].pc = "unlink", ![s].doc = d] PROVE MovesGo(s)
      <4>1. job'[s].pc = "unlink"
        BY <1>1, <3>2, JobUnlinks
      <4>2. QED
        BY <2>12, <4>1 DEF MovesGo, Moving
    <3>3. QED
      BY <1>1, <2>2, <3>1, <3>2, JobEnds
  <2>13. CASE Promote(s) \/ Promoted(s)
    <3>1. \/ Skip(s)
          \/ \E r : FilesOf(r) # {} /\ job' = [job EXCEPT ![s].pc = "publish", ![s].text = file[Latest(r)]]
      BY <2>13 DEF Promote, Promoted
    <3>2. CASE Skip(s)
      <4>1. job'[s].pc = "promote"
        BY <1>1, <3>2, JobSkips DEF Skip
      <4>2. QED
        BY <1>3, <4>1 DEF Moving
    <3>3. ASSUME NEW r, FilesOf(r) # {},
                 job' = [job EXCEPT ![s].pc = "publish", ![s].text = file[Latest(r)]]
          PROVE  MovesGo(s)
      <4>1. PICK x : x = file[Latest(r)]
        OBVIOUS
      <4>2. IsText(x)
        BY <1>1, <3>3, <4>1, LatestIsNewest, CopiesHaveVersions
      <4>3. job' = [job EXCEPT ![s] = [job[s] EXCEPT !.pc = "publish", !.text = x]]
        BY <3>3, <4>1
      <4>4. PICK z : z = [job[s] EXCEPT !.pc = "publish", !.text = x]
        OBVIOUS
      <4>5. z.pc = "publish" /\ z.text = x
        BY <2>1, <4>4 DEF JobShape
      <4>6. job'[s] = z
        BY <1>1, <4>3, <4>4, JobIsPut
      <4>7. QED
        BY <3>3, <4>1, <4>5, <4>6 DEF MovesGo, Moving
    <3>4. QED
      BY <3>1, <3>2, <3>3
  <2>14. CASE Publish(s) \/ Write(s)
    <3>1. job' = [job EXCEPT ![s] = job'[s]] /\ job'[s].pc = "mark"
      BY <1>1, <2>14, <2>1 DEF Publish, Write, JobsType, JobShape
    <3>2. QED
      BY <1>3, <3>1 DEF Moving
  <2>15. QED
    BY <1>4, <2>1, <2>3, <2>4, <2>5, <2>6, <2>7, <2>8, <2>9, <2>10, <2>11, <2>12, <2>13, <2>14
       DEF JobStep
<1>5. ASSUME NEW t \in Threads, Request(t) PROVE MovesGo(s)
  <2>1. t = s
    BY DEF OneThread
  <2>2. CASE UNCHANGED job
    BY <1>2, <2>2
  <2>3. CASE MoveRequest(s) /\ job'[s].pc = "gate"
    BY <2>3 DEF MovesGo
  <2>4. CASE job'[s].payload \in Payloads /\ job'[s].pc = "create"
    BY <2>4 DEF MovesGo, Moving
  <2>5. CASE \/ job'[s].pc \in {"reconcile", "pick", "promote"}
             \/ job'[s].pc = "repair" /\ job'[s].back = "end"
    BY <1>3, <2>5 DEF Moving
  <2>6. CASE /\ job'[s].pc = "write"
             /\ job'[s].doc \in DOMAIN file => file[job'[s].doc].body \subseteq job'[s].text.body
    BY <2>6 DEF MovesGo, Moving
  <2>7. QED
    BY <1>1, <1>5, <2>1, <2>2, <2>3, <2>4, <2>5, <2>6, RequestKinds DEF Begun, TellsMore
<1>6. CASE OutsideWrite \/ RemoveByHand
  <2>1. \E d : Miss(d)
    BY <1>6 DEF OutsideWrite, RemoveByHand
  <2>2. /\ job'[s].pc = job[s].pc /\ job'[s].back = job[s].back /\ job'[s].doc = job[s].doc
        /\ job'[s].granted = job[s].granted /\ job'[s].to = job[s].to
        /\ job'[s].owner = job[s].owner /\ job'[s].version = job[s].version
        /\ job'[s].payload = job[s].payload /\ job'[s].text = job[s].text
    BY <1>1, <2>1, JobMisses
  <2>3. QED
    BY <2>2 DEF MovesFit, MovesGo, MoveGoesOn, Moving
<1>7. ASSUME NEW p \in Processes, Kill(p) PROVE MovesGo(s)
  <2>1. PICK next : next = [t \in Threads |-> IF job[t].who = p THEN Idle ELSE job[t]]
    OBVIOUS
  <2>2. PICK z : z = [Idle EXCEPT !.pc = "reconcile"]
    OBVIOUS
  <2>3. job' = next \/ \E t \in Threads : job' = [next EXCEPT ![t] = z]
    BY <1>7, <2>1, <2>2 DEF Kill
  <2>4. job'[s] \in {Idle, job[s], z}
    BY <2>1, <2>3
  <2>5. z.pc = "reconcile" /\ Idle.pc = "idle"
    BY <2>2 DEF Idle
  <2>6. QED
    BY <1>2, <1>3, <2>4, <2>5 DEF Moving
<1>8. CASE UNCHANGED recVars
  BY <1>2, <1>8 DEF recVars
<1>9. QED
  BY <1>4, <1>5, <1>6, <1>7, <1>8 DEF RecNext

\* A copy that is newer than the others.
LEMMA CopyAdded ==
    ASSUME FilesInv, NEW d, NEW x, d.kind = "collab", IsText(x), file' = Put(file, d, x),
           \A e \in FilesOf(d.id) : file[e].version < x.version
    PROVE  /\ NewestThere' /\ VersionsApart'
           /\ Latest(d.id)' = d /\ file'[d] = x /\ d \in FilesOf(d.id)'
           /\ \A e \in FilesOf(d.id) : e # d => e \in FilesOf(d.id)' /\ file'[e] = file[e]
           /\ \A q : q # d.id /\ FilesOf(q) # {} => /\ Latest(q)' = Latest(q)
                                                    /\ file'[Latest(q)] = file[Latest(q)]
           /\ \A q : q # d.id => FilesOf(q)' = FilesOf(q)
<1>1. FilesType /\ NewestThere /\ VersionsApart
  BY DEF FilesInv
<1>2. /\ DOMAIN file' = DOMAIN file \cup {d} /\ file'[d] = x
      /\ \A e \in DOMAIN file : e # d => file'[e] = file[e]
  BY <1>1, FilePut
<1>3. FilesOf(d.id)' = FilesOf(d.id) \cup {d}
  BY <1>2 DEF FilesOf
<1>4. \A q : q # d.id => FilesOf(q)' = FilesOf(q) /\ \A e \in FilesOf(q) : file'[e] = file[e]
  BY <1>2 DEF FilesOf
<1>5. \A q : \A e \in FilesOf(q) : e \in DOMAIN file /\ file[e].version \in Nat
  BY <1>1, CopiesHaveVersions
<1>6. x.version \in Nat
  BY DEF IsText
<1>7. \A e \in FilesOf(d.id)' : /\ file'[e].version <= file'[d].version
                                /\ file'[e].version = file'[d].version => e = d
                                /\ file'[e].version \in Nat
                                /\ e # d => file'[e] = file[e] /\ e \in FilesOf(d.id)
  <2> TAKE e \in FilesOf(d.id)'
  <2>1. CASE e = d
    BY <1>2, <1>6, <2>1
  <2>2. CASE e # d
    <3>1. e \in FilesOf(d.id) /\ file'[e] = file[e] /\ file[e].version \in Nat
      BY <1>2, <1>3, <1>5, <2>2
    <3>2. file[e].version < x.version
      BY <3>1
    <3>3. QED
      BY <1>2, <1>6, <2>2, <3>1, <3>2
  <2>3. QED
    BY <2>1, <2>2
<1>8. NewestThere'
  <2> SUFFICES ASSUME NEW r, FilesOf(r)' # {}
               PROVE  \E m \in FilesOf(r)' : \A e \in FilesOf(r)' : file'[e].version <= file'[m].version
    BY DEF NewestThere
  <2>1. CASE r = d.id
    BY <1>3, <1>7, <2>1
  <2>2. CASE r # d.id
    BY <1>1, <1>4, <2>2 DEF NewestThere
  <2>3. QED
    BY <2>1, <2>2
<1>9. VersionsApart'
  <2> SUFFICES ASSUME NEW r, NEW e \in FilesOf(r)', NEW m \in FilesOf(r)',
                      file'[e].version = file'[m].version
               PROVE  e = m
    BY DEF VersionsApart
  <2>1. CASE r = d.id
    BY <1>1, <1>7, <2>1 DEF VersionsApart
  <2>2. CASE r # d.id
    BY <1>1, <1>4, <2>2 DEF VersionsApart
  <2>3. QED
    BY <2>1, <2>2
<1>10. Latest(d.id)' = d
  <2>1. \A e, m \in FilesOf(d.id)' : file'[e].version = file'[m].version => e = m
    BY <1>9 DEF VersionsApart
  <2>2. d \in FilesOf(d.id)'
    BY <1>3
  <2>3. PICK S : S = FilesOf(d.id)'
    OBVIOUS
  <2>4. (CHOOSE m \in S : \A e \in S : file'[e].version <= file'[m].version) = d
    BY <1>7, <2>1, <2>2, <2>3, NewestIs
  <2>5. QED
    BY <2>3, <2>4 DEF Latest
<1>11. ASSUME NEW q, q # d.id, FilesOf(q) # {}
       PROVE  Latest(q)' = Latest(q) /\ file'[Latest(q)] = file[Latest(q)]
  <2>1. PICK m : m = Latest(q)
    OBVIOUS
  <2>2. m \in FilesOf(q) /\ \A e \in FilesOf(q) : file[e].version <= file[m].version
    BY <1>1, <1>11, <2>1, LatestIsNewest
  <2>3. \A e, y \in FilesOf(q) : file[e].version = file[y].version => e = y
    BY <1>1 DEF VersionsApart
  <2>4. FilesOf(q)' = FilesOf(q) /\ \A e \in FilesOf(q) : file'[e] = file[e] /\ file[e].version \in Nat
    BY <1>4, <1>5, <1>11
  <2>5. (CHOOSE y \in FilesOf(q) : \A e \in FilesOf(q) : file'[e].version <= file'[y].version) = m
    BY <2>2, <2>3, <2>4, NewestIs
  <2>6. Latest(q)' = m
    BY <2>4, <2>5 DEF Latest
  <2>7. QED
    BY <2>1, <2>2, <2>4, <2>6
<1>12. QED
  BY <1>2, <1>3, <1>4, <1>5, <1>8, <1>9, <1>10, <1>11

\* A copy that is older than another goes.
LEMMA CopyRemoved ==
    ASSUME FilesInv, NEW d, d \in FilesOf(d.id), file' = Without(file, {d}),
           NEW n \in FilesOf(d.id), file[d].version < file[n].version
    PROVE  /\ NewestThere' /\ VersionsApart'
           /\ \A q : FilesOf(q) # {} => /\ Latest(q)' = Latest(q) /\ FilesOf(q)' # {}
                                        /\ file'[Latest(q)] = file[Latest(q)]
           /\ \A q : FilesOf(q)' \subseteq FilesOf(q)
<1>1. FilesType /\ NewestThere /\ VersionsApart
  BY DEF FilesInv
<1>2. DOMAIN file' = DOMAIN file \ {d} /\ \A e \in DOMAIN file' : file'[e] = file[e]
  BY <1>1, FileGone
<1>3. \A q : /\ FilesOf(q)' = FilesOf(q) \ {d}
             /\ \A e \in FilesOf(q)' : file'[e] = file[e] /\ file[e].version \in Nat
  <2> TAKE q
  <2>1. FilesOf(q)' = FilesOf(q) \ {d}
    BY <1>2 DEF FilesOf
  <2>2. \A e \in FilesOf(q)' : e \in FilesOf(q) /\ e \in DOMAIN file'
    BY <2>1 DEF FilesOf
  <2>3. QED
    BY <1>1, <1>2, <2>1, <2>2, CopiesHaveVersions
<1>4. ASSUME NEW q, FilesOf(q) # {}
      PROVE  /\ Latest(q) \in FilesOf(q) \ {d}
             /\ \A e \in FilesOf(q) : file[e].version <= file[Latest(q)].version
  <2>1. /\ Latest(q) \in FilesOf(q)
        /\ \A e \in FilesOf(q) : file[e].version <= file[Latest(q)].version
    BY <1>1, <1>4, LatestIsNewest
  <2>2. CASE Latest(q) = d
    <3>1. q = d.id
      BY <1>1, <2>1, <2>2, CopiesHaveVersions
    <3>2. file[n].version <= file[d].version /\ file[n].version \in Nat /\ file[d].version \in Nat
      BY <1>1, <2>1, <2>2, <3>1, CopiesHaveVersions
    <3>3. QED
      BY <3>2
  <2>3. QED
    BY <2>1, <2>2
<1>5. NewestThere'
  <2> SUFFICES ASSUME NEW r, FilesOf(r)' # {}
               PROVE  \E m \in FilesOf(r)' : \A e \in FilesOf(r)' : file'[e].version <= file'[m].version
    BY DEF NewestThere
  <2>1. FilesOf(r) # {}
    BY <1>3
  <2>2. PICK m : m = Latest(r)
    OBVIOUS
  <2>3. m \in FilesOf(r)' /\ \A e \in FilesOf(r) : file[e].version <= file[m].version
    BY <1>3, <1>4, <2>1, <2>2
  <2>4. QED
    BY <1>3, <2>3
<1>6. VersionsApart'
  <2> SUFFICES ASSUME NEW r, NEW e \in FilesOf(r)', NEW m \in FilesOf(r)',
                      file'[e].version = file'[m].version
               PROVE  e = m
    BY DEF VersionsApart
  <2>1. e \in FilesOf(r) /\ m \in FilesOf(r) /\ file[e].version = file[m].version
    BY <1>3
  <2>2. QED
    BY <1>1, <2>1 DEF VersionsApart
<1>7. ASSUME NEW q, FilesOf(q) # {}
      PROVE  Latest(q)' = Latest(q) /\ FilesOf(q)' # {} /\ file'[Latest(q)] = file[Latest(q)]
  <2>1. PICK m : m = Latest(q)
    OBVIOUS
  <2>2. m \in FilesOf(q)' /\ \A e \in FilesOf(q) : file[e].version <= file[m].version
    BY <1>3, <1>4, <1>7, <2>1
  <2>3. PICK S : S = FilesOf(q)'
    OBVIOUS
  <2>4. \A e \in S : file'[e] = file[e] /\ file[e].version \in Nat /\ e \in FilesOf(q)
    BY <1>3, <2>3
  <2>5. \A e, y \in S : file'[e].version = file'[y].version => e = y
    BY <1>6, <2>3 DEF VersionsApart
  <2>6. m \in S /\ \A e \in S : file'[e].version \in Nat /\ file'[e].version <= file'[m].version
    BY <2>2, <2>3, <2>4
  <2>7. (CHOOSE y \in S : \A e \in S : file'[e].version <= file'[y].version) = m
    BY <2>5, <2>6, NewestIs
  <2>8. Latest(q)' = m
    BY <2>3, <2>7 DEF Latest
  <2>9. QED
    BY <2>1, <2>2, <2>3, <2>4, <2>8
<1>8. QED
  BY <1>3, <1>5, <1>6, <1>7

MovesOn(t, r, old, new, x) ==
    /\ r \in RecordIds /\ FilesOf(r) # {} /\ old = Latest(r) /\ old \in FilesOf(r)
    /\ file[old].version \in Nat
    /\ new.kind = "collab" /\ new.id = r /\ new.status = job[t].to /\ new # old
    /\ <<old.status, job[t].to>> \in Moves
    /\ \/ job[t].to = "handed_off" /\ job[t].owner \in Receivers
       \/ job[t].to = "completed" /\ job[t].owner = "-"
    /\ IsText(x) /\ file' = Put(file, new, x)
    /\ x.version = file[old].version + 1 /\ x.body = file[old].body
    /\ x.owner = IF job[t].owner = "-" THEN file[old].owner ELSE job[t].owner
    /\ \A e \in FilesOf(r) : file[e].version < x.version
    /\ OnlyJob(t) /\ job'[t].pc = "unlink" /\ job'[t].doc = old

\* A move writes a copy that follows the newest, and is to remove that one.
LEMMA SaveAdds ==
    ASSUME BookInv, NEW t \in Threads, Save(t)
    PROVE  \E r, old, new, x : MovesOn(t, r, old, new, x)
<1> PICK r : r = job[t].doc.id
  OBVIOUS
<1> PICK old : old = Latest(r)
  OBVIOUS
<1> PICK new : new = Moved(old, job[t].to)
  OBVIOUS
<1>1. JobsType /\ FilesType /\ NewestThere /\ VersionsApart
  BY DEF BookInv, FilesInv
<1>2. Moving(job[t]) /\ job[t].pc = "save"
  BY DEF Moving, Save, At
<1>3. /\ r \in RecordIds /\ FilesOf(r) # {}
      /\ job[t].version = file[old].version + 1 /\ <<old.status, job[t].to>> \in Moves
      /\ \/ job[t].to = "handed_off" /\ job[t].owner \in Receivers
         \/ job[t].to = "completed" /\ job[t].owner = "-"
  BY <1>2 DEF BookInv, MovesFit
<1>4. old \in FilesOf(r) /\ \A e \in FilesOf(r) : file[e].version <= file[old].version
  BY <1>1, <1>3, LatestIsNewest
<1>5. IsText(file[old]) /\ file[old].version \in Nat /\ old.id = r
  BY <1>1, <1>4, CopiesHaveVersions
<1>6. new.kind = "collab" /\ new.id = r /\ new.status = job[t].to
  BY <1>5 DEF Moved, Doc
<1>7. old.status # job[t].to
  BY <1>3 DEF Moves
<1>8. PICK x : x = [file[old] EXCEPT !.version = job[t].version,
                                     !.owner = IF job[t].owner = "-" THEN @ ELSE job[t].owner]
  OBVIOUS
<1>9. /\ IsText(x) /\ x.version = file[old].version + 1 /\ x.body = file[old].body
      /\ x.owner = IF job[t].owner = "-" THEN file[old].owner ELSE job[t].owner
  <2>1. job[t].version = file[old].version + 1 /\ job[t].version \in Nat
    BY <1>3, <1>5
  <2>2. PICK y : y = file[old]
    OBVIOUS
  <2>3. y = [task |-> y.task, owner |-> y.owner, version |-> y.version, body |-> y.body]
    BY <1>5, <2>2 DEF IsText
  <2>4. /\ x = [task |-> y.task, owner |-> x.owner, version |-> job[t].version, body |-> y.body]
        /\ x.owner = IF job[t].owner = "-" THEN y.owner ELSE job[t].owner
    BY <1>8, <2>2, <2>3
  <2>5. x.task = y.task /\ x.version = job[t].version /\ x.body = y.body
    BY <2>4
  <2>6. QED
    BY <2>1, <2>2, <2>4, <2>5 DEF IsText
<1>10. file' = Put(file, new, x)
  BY <1>3, <1>8 DEF Save
<1>11. job' = [job EXCEPT ![t].pc = "unlink", ![t].doc = old]
  BY <1>3, <1>6, <1>7 DEF Save
<1>12. OnlyJob(t) /\ job'[t].pc = "unlink" /\ job'[t].doc = old
  BY <1>1, <1>11, JobUnlinks
<1>13. \A e \in FilesOf(r) : file[e].version < x.version
  BY <1>1, <1>4, <1>5, <1>9, CopiesHaveVersions
<1>14. MovesOn(t, r, old, new, x)
  BY <1>3, <1>4, <1>5, <1>6, <1>7, <1>9, <1>10, <1>12, <1>13 DEF MovesOn
<1>15. QED
  BY <1>14

\* What holds of records and moves goes on to hold.
LEMMA BookKept ==
    ASSUME BookInv, OneThread, [RecNext]_recVars
    PROVE  BookInv'
<1>1. FilesInv /\ MovesFit /\ NewIsAsked /\ OldGoes
  BY DEF BookInv
<1>2. JobsType /\ FilesType /\ NewestThere /\ VersionsApart
  BY <1>1 DEF FilesInv
<1>3. JobsType' /\ FilesType'
  <2>1. LatestThere
    BY <1>2, LatestIsNewest DEF LatestThere
  <2>2. QED
    BY <1>1, <1>2, <2>1, JobsKept, FilesKept
<1>4. \A s \in Threads : MovesGo(s)
  BY <1>1, MovesAreKept
<1>5. ASSUME NEW t \in Threads, job'[t] = Idle PROVE MovesFit' /\ NewIsAsked' /\ OldGoes'
  <2>1. \A s \in Threads : job'[s].pc = "idle"
    BY <1>5 DEF OneThread, Idle
  <2>2. QED
    BY <2>1 DEF MovesFit, NewIsAsked, OldGoes, Moving
<1>6. ASSUME BookSame, \A t \in Threads : ~RecordWrites(t) PROVE BookInv'
  <2>1. /\ NewestThere' /\ VersionsApart'
        /\ \A r : FilesOf(r) # {} => Latest(r)' = Latest(r) /\ file'[Latest(r)] = file[Latest(r)]
    BY <1>2, <1>6, LatestSame
  <2>2. MovesFit'
    <3> SUFFICES ASSUME NEW s \in Threads, Moving(job[s])'
                 PROVE  /\ job'[s].doc.id \in RecordIds /\ FilesOf(job[s].doc.id)' # {}
                        /\ \/ job'[s].to = "handed_off" /\ job'[s].owner \in Receivers
                           \/ job'[s].to = "completed" /\ job'[s].owner = "-"
                        /\ job'[s].granted =>
                              /\ job'[s].version = file'[Latest(job[s].doc.id)'].version + 1
                              /\ <<Latest(job[s].doc.id)'.status, job'[s].to>> \in Moves
                        /\ job'[s].pc = "save" => job'[s].granted
      BY DEF MovesFit
    <3>1. CASE MoveGoesOn(s)
      <4>1. PICK r : r = job[s].doc.id
        OBVIOUS
      <4>2. /\ r \in RecordIds /\ FilesOf(r) # {}
            /\ \/ job[s].to = "handed_off" /\ job[s].owner \in Receivers
               \/ job[s].to = "completed" /\ job[s].owner = "-"
            /\ job[s].granted => /\ job[s].version = file[Latest(r)].version + 1
                                 /\ <<Latest(r).status, job[s].to>> \in Moves
        BY <1>1, <3>1, <4>1 DEF MovesFit, MoveGoesOn
      <4>3. FilesOf(r)' = FilesOf(r) /\ Latest(r)' = Latest(r) /\ file'[Latest(r)] = file[Latest(r)]
        BY <1>6, <2>1, <4>2 DEF BookSame
      <4>4. job'[s].doc.id = r
        BY <3>1, <4>1 DEF MoveGoesOn
      <4>5. FilesOf(job[s].doc.id)' = FilesOf(r)' /\ Latest(job[s].doc.id)' = Latest(r)'
        BY <4>4 DEF FilesOf, Latest
      <4>6. QED
        BY <3>1, <4>2, <4>3, <4>4, <4>5 DEF MoveGoesOn
    <3>2. CASE MoveRequest(s)
      <4>1. PICK r \in RecordIds, to \in {"handed_off", "completed"}, own \in Receivers,
                    expected \in 1..MaxVersion :
               /\ FilesOf(r) # {}
               /\ Begin(s, [Idle EXCEPT !.pc = "gate", !.doc = Latest(r), !.to = to,
                                        !.owner = IF to = "handed_off" THEN own ELSE "-",
                                        !.version = file[Latest(r)].version + 1,
                                        !.granted = file[Latest(r)].version = expected
                                                    /\ <<Latest(r).status, to>> \in Moves
                                                    /\ file[Latest(r)].version < MaxVersion])
        BY <3>2 DEF MoveRequest
      <4>2. PICK d : d = Latest(r)
        OBVIOUS
      <4>3. PICK g \in BOOLEAN : g = (file[d].version = expected /\ <<d.status, to>> \in Moves
                                      /\ file[d].version < MaxVersion)
        OBVIOUS
      <4>4. PICK o : o = IF to = "handed_off" THEN own ELSE "-"
        OBVIOUS
      <4>5. PICK z : z = [Idle EXCEPT !.pc = "gate", !.doc = d, !.to = to, !.owner = o,
                                      !.version = file[d].version + 1, !.granted = g]
        OBVIOUS
      <4>6. /\ z.doc = d /\ z.to = to /\ z.owner = o /\ z.version = file[d].version + 1
            /\ z.granted = g /\ z.pc = "gate"
        BY <4>5, IdleIsJob DEF JobShape
      <4>7. job' = [job EXCEPT ![s] = z]
        BY <4>1, <4>2, <4>3, <4>4, <4>5 DEF Begin
      <4>8. job'[s] = z
        BY <1>2, <4>7, JobIsPut
      <4>9. d \in FilesOf(r) /\ d.id = r
        BY <1>2, <4>1, <4>2, LatestIsNewest, CopiesHaveVersions
      <4>10. FilesOf(r)' = FilesOf(r) /\ Latest(r)' = d /\ file'[d] = file[d]
        BY <1>6, <2>1, <4>1, <4>2 DEF BookSame
      <4>11. FilesOf(job[s].doc.id)' = FilesOf(r)' /\ Latest(job[s].doc.id)' = Latest(r)'
        BY <4>6, <4>8, <4>9 DEF FilesOf, Latest
      <4>12. QED
        BY <4>1, <4>3, <4>4, <4>6, <4>8, <4>9, <4>10, <4>11
    <3>3. QED
      BY <1>4, <3>1, <3>2 DEF MovesGo
  <2>3. NewIsAsked'
    BY <1>1, <1>4 DEF NewIsAsked, MovesGo
  <2>4. OldGoes'
    <3> SUFFICES ASSUME NEW s \in Threads, job'[s].pc = "unlink"
                 PROVE  /\ job'[s].doc \in FilesOf(job[s].doc.id)'
                        /\ \E e \in FilesOf(job[s].doc.id)' : file'[job'[s].doc].version < file'[e].version
      BY DEF OldGoes
    <3>1. job[s].pc = "unlink" /\ job'[s].doc = job[s].doc
      BY <1>4, <1>6 DEF MovesGo, RecordWrites
    <3>2. PICK r : r = job[s].doc.id
      OBVIOUS
    <3>3. job[s].doc \in FilesOf(r) /\ \E e \in FilesOf(r) : file[job[s].doc].version < file[e].version
      BY <1>1, <3>1, <3>2 DEF OldGoes
    <3>4. FilesOf(r)' = FilesOf(r) /\ \A e \in FilesOf(r) : file'[e] = file[e]
      BY <1>6 DEF BookSame
    <3>5. FilesOf(job[s].doc.id)' = FilesOf(r)'
      BY <3>1, <3>2 DEF FilesOf
    <3>6. QED
      BY <3>1, <3>3, <3>4, <3>5
  <2>5. QED
    BY <1>3, <2>1, <2>2, <2>3, <2>4 DEF BookInv, FilesInv
<1>7. ASSUME NEW t \in Threads, Create(t) PROVE BookInv'
  <2>1. PICK r, x, place : /\ FilesOf(r) = {}
                           /\ file' = Put(file, Doc("collab", r, x.status, place),
                                          Text(x.task, x.author, 1, {}))
    BY <1>7 DEF Create
  <2>2. PICK d : d = Doc("collab", r, x.status, place)
    OBVIOUS
  <2>3. d.kind = "collab" /\ d.id = r
    BY <2>2 DEF Doc
  <2>4. IsText(Text(x.task, x.author, 1, {}))
    BY DEF IsText, Text
  <2>5. NewestThere' /\ VersionsApart'
    BY <1>1, <2>1, <2>2, <2>3, <2>4, CopyAdded
  <2>6. job'[t] = Idle
    BY <1>2, <1>7, JobEnds DEF Create
  <2>7. QED
    BY <1>3, <1>5, <2>5, <2>6 DEF BookInv, FilesInv
<1>8. ASSUME NEW t \in Threads, Save(t) PROVE BookInv'
  <2>1. PICK r, old, new, x : MovesOn(t, r, old, new, x)
    BY <1>8, SaveAdds
  <2>2. /\ old \in FilesOf(r) /\ file[old].version \in Nat
        /\ new.kind = "collab" /\ new.id = r /\ new # old
        /\ \A e \in FilesOf(r) : file[e].version < x.version
        /\ job'[t].pc = "unlink" /\ job'[t].doc = old
        /\ IsText(x) /\ file' = Put(file, new, x) /\ x.version = file[old].version + 1
    BY <2>1 DEF MovesOn
  <2>4. \A e \in FilesOf(new.id) : file[e].version < x.version
    BY <2>2
  <2>5. /\ NewestThere' /\ VersionsApart' /\ file'[new] = x /\ new \in FilesOf(r)'
        /\ old \in FilesOf(r)' /\ file'[old] = file[old]
    BY <1>1, <2>2, <2>4, CopyAdded
  <2>6. \A s \in Threads : job'[s].pc = "unlink" /\ job'[s].doc = old
    BY <2>2 DEF OneThread
  <2>7. old.id = r
    BY <1>2, <2>2, CopiesHaveVersions
  <2>8. MovesFit' /\ NewIsAsked'
    BY <2>6 DEF MovesFit, NewIsAsked, Moving
  <2>9. OldGoes'
    <3> SUFFICES ASSUME NEW s \in Threads
                 PROVE  /\ job'[s].doc \in FilesOf(job[s].doc.id)'
                        /\ \E e \in FilesOf(job[s].doc.id)' : file'[job'[s].doc].version < file'[e].version
      BY DEF OldGoes
    <3>1. FilesOf(job[s].doc.id)' = FilesOf(r)'
      BY <2>6, <2>7 DEF FilesOf
    <3>2. file'[old].version < file'[new].version
      BY <2>2, <2>5
    <3>3. QED
      BY <2>5, <2>6, <3>1, <3>2
  <2>10. QED
    BY <1>3, <2>5, <2>8, <2>9 DEF BookInv, FilesInv
<1>9. ASSUME NEW t \in Threads, Unlink(t) PROVE BookInv'
  <2>1. PICK d : d = job[t].doc
    OBVIOUS
  <2>2. d \in FilesOf(d.id) /\ \E e \in FilesOf(d.id) : file[d].version < file[e].version
    BY <1>1, <1>9, <2>1 DEF OldGoes, Unlink, At
  <2>3. file' = Without(file, {d})
    BY <1>9, <2>1 DEF Unlink
  <2>4. NewestThere' /\ VersionsApart'
    BY <1>1, <2>2, <2>3, CopyRemoved
  <2>5. job'[t] = Idle
    BY <1>2, <1>9, JobEnds DEF Unlink
  <2>6. QED
    BY <1>3, <1>5, <2>4, <2>5 DEF BookInv, FilesInv
<1>10. QED
  BY <1>1, <1>6, <1>7, <1>8, <1>9, FilesKept DEF RecordWrites

\* It holds at the start.
LEMMA BookStarts == RecInit => BookInv
<1> SUFFICES ASSUME RecInit PROVE BookInv
  OBVIOUS
<1>1. file = [d \in {} |-> Text("-", "-", 0, {})] /\ job = [t \in Threads |-> Idle]
  BY DEF RecInit, NoFiles
<1>2. DOMAIN file = {} /\ \A r : FilesOf(r) = {}
  BY <1>1 DEF FilesOf
<1>3. FilesType /\ NewestThere /\ VersionsApart
  BY <1>1, <1>2 DEF FilesType, NewestThere, VersionsApart
<1>4. JobsType
  BY <1>1, IdleIsJob DEF JobsType
<1>5. \A t \in Threads : job[t].pc = "idle"
  BY <1>1 DEF Idle
<1>6. MovesFit /\ NewIsAsked /\ OldGoes
  BY <1>5 DEF MovesFit, NewIsAsked, OldGoes, Moving
<1>7. QED
  BY <1>3, <1>4, <1>6 DEF BookInv, FilesInv

-----------------------------------------------------------------------------
(***************************************************************************)
(* The book: what the files show of a record is entered once and moves on  *)
(* by its rules, whatever the index, batches, notes and kills do.          *)
(***************************************************************************)
LineOf(r) ==
    IF FilesOf(r) = {} THEN [owner |-> "-", status |-> "none", version |-> 0]
    ELSE [owner |-> file[Latest(r)].owner, status |-> Latest(r).status,
          version |-> file[Latest(r)].version]

Agreed == Receivers \cup {x.author : x \in Payloads}

\* One line of the book, and the others as they are.
LEMMA ShownByLine ==
    /\ Shown = [r \in RecordIds |-> LineOf(r)]
    /\ Shown' = [r \in RecordIds |-> LineOf(r)']
BY DEF Shown, LineOf

\* A record whose newest copy is the same shows the same.
LEMMA LineStays ==
    ASSUME NEW r,
           FilesOf(r)' = {} <=> FilesOf(r) = {},
           FilesOf(r) # {} => Latest(r)' = Latest(r) /\ file'[Latest(r)] = file[Latest(r)]
    PROVE  LineOf(r)' = LineOf(r)
BY DEF LineOf

\* Every step is one of the book, or shows nothing of itself.
LEMMA BookStep ==
    ASSUME BookInv, OneThread, [RecNext]_recVars
    PROVE  [Book!BookNext]_Shown
<1>1. FilesInv /\ MovesFit /\ NewIsAsked /\ OldGoes
  BY DEF BookInv
<1>2. JobsType /\ FilesType /\ NewestThere /\ VersionsApart
  BY <1>1 DEF FilesInv
<1>3. ASSUME \A r \in RecordIds : LineOf(r)' = LineOf(r) PROVE Shown' = Shown
  BY <1>3, ShownByLine
<1>4. CASE BookSame
  <2>1. \A r : FilesOf(r) # {} => Latest(r)' = Latest(r) /\ file'[Latest(r)] = file[Latest(r)]
    BY <1>2, <1>4, LatestSame
  <2>2. ASSUME NEW r \in RecordIds PROVE LineOf(r)' = LineOf(r)
    BY <1>4, <2>1, LineStays DEF BookSame
  <2>3. QED
    BY <1>3, <2>2
<1>5. ASSUME NEW t \in Threads, Create(t) PROVE Book!BookNext
  <2>1. PICK r \in RecordIds, place \in Places :
             /\ FilesOf(r) = {}
             /\ file' = Put(file, Doc("collab", r, job[t].payload.status, place),
                            Text(job[t].payload.task, job[t].payload.author, 1, {}))
    BY <1>5 DEF Create
  <2>2. PICK x : x = job[t].payload
    OBVIOUS
  <2>3. x \in Payloads
    BY <1>1, <1>5, <2>2 DEF Create, At, NewIsAsked
  <2>4. PICK d : d = Doc("collab", r, x.status, place)
    OBVIOUS
  <2>5. d.kind = "collab" /\ d.id = r /\ d.status = x.status
    BY <2>4 DEF Doc
  <2>6. PICK y : y = Text(x.task, x.author, 1, {})
    OBVIOUS
  <2>7. IsText(y) /\ y.owner = x.author /\ y.version = 1
    BY <2>6 DEF IsText, Text
  <2>8. /\ Latest(r)' = d /\ file'[d] = y /\ d \in FilesOf(r)'
        /\ \A q : q # r /\ FilesOf(q) # {} => /\ Latest(q)' = Latest(q)
                                              /\ file'[Latest(q)] = file[Latest(q)]
        /\ \A q : q # r => FilesOf(q)' = FilesOf(q)
    BY <1>1, <2>1, <2>2, <2>4, <2>5, <2>6, <2>7, CopyAdded
  <2>9. LineOf(r) = [owner |-> "-", status |-> "none", version |-> 0]
    BY <2>1 DEF LineOf
  <2>10. LineOf(r)' = [owner |-> x.author, status |-> x.status, version |-> 1]
    BY <2>5, <2>7, <2>8 DEF LineOf
  <2>11. ASSUME NEW q \in RecordIds, q # r PROVE LineOf(q)' = LineOf(q)
    BY <2>8, <2>11, LineStays
  <2>12. Shown' = [Shown EXCEPT ![r] = [owner |-> x.author, status |-> x.status, version |-> 1]]
    BY <2>1, <2>10, <2>11, ShownByLine
  <2>13. x.author \in Agreed /\ x.status \in {"draft", "handed_off", "completed"}
    BY <2>3, RecordsAssumption DEF Agreed
  <2>14. Shown[r] = [owner |-> "-", status |-> "none", version |-> 0]
    BY <2>1, <2>9, ShownByLine
  <2>15. Book!Enter(r)
    BY <2>12, <2>13, <2>14 DEF Book!Enter, Book!Line, Book!None, Agreed
  <2>16. QED
    BY <2>1, <2>15 DEF Book!BookNext
<1>6. ASSUME NEW t \in Threads, Save(t) PROVE Book!BookNext
  <2>1. PICK r, old, new, x : MovesOn(t, r, old, new, x)
    BY <1>6, SaveAdds DEF BookInv
  <2>2. /\ r \in RecordIds /\ FilesOf(r) # {} /\ old = Latest(r)
        /\ file[old].version \in Nat
        /\ new.kind = "collab" /\ new.id = r /\ new.status = job[t].to
        /\ <<old.status, job[t].to>> \in Moves
        /\ \/ job[t].to = "handed_off" /\ job[t].owner \in Receivers
           \/ job[t].to = "completed" /\ job[t].owner = "-"
        /\ IsText(x) /\ file' = Put(file, new, x)
        /\ x.version = file[old].version + 1
        /\ x.owner = IF job[t].owner = "-" THEN file[old].owner ELSE job[t].owner
        /\ \A e \in FilesOf(r) : file[e].version < x.version
    BY <2>1 DEF MovesOn
  <2>3. /\ Latest(r)' = new /\ file'[new] = x /\ new \in FilesOf(r)'
        /\ \A q : q # r /\ FilesOf(q) # {} => /\ Latest(q)' = Latest(q)
                                              /\ file'[Latest(q)] = file[Latest(q)]
        /\ \A q : q # r => FilesOf(q)' = FilesOf(q)
    BY <1>1, <2>2, CopyAdded
  <2>4. LineOf(r) = [owner |-> file[old].owner, status |-> old.status, version |-> file[old].version]
    BY <2>2 DEF LineOf
  <2>5. LineOf(r)' = [owner |-> x.owner, status |-> job[t].to, version |-> file[old].version + 1]
    BY <2>2, <2>3 DEF LineOf
  <2>6. ASSUME NEW q \in RecordIds, q # r PROVE LineOf(q)' = LineOf(q)
    BY <2>3, <2>6, LineStays
  <2>7. Shown' = [Shown EXCEPT ![r] = LineOf(r)']
    BY <2>2, <2>6, ShownByLine
  <2>8. Shown[r] = LineOf(r)
    BY <2>2, ShownByLine
  <2>9. /\ Shown[r].owner = file[old].owner /\ Shown[r].status = old.status
        /\ Shown[r].version = file[old].version
    BY <2>4, <2>8
  <2>10. Shown[r] # Book!None
    <3>1. old.status \in {"draft", "handed_off"}
      BY <2>2 DEF Moves
    <3>2. QED
      BY <2>9, <3>1 DEF Book!None, Book!Line
  <2>11. CASE job[t].to = "handed_off"
    <3>1. old.status = "draft" /\ job[t].owner \in Receivers /\ x.owner = job[t].owner
      BY <2>2, <2>11, RecordsAssumption DEF Moves
    <3>2. Shown' = [Shown EXCEPT ![r] = Book!Line(x.owner, "handed_off", Shown[r].version + 1)]
      BY <2>5, <2>7, <2>9, <2>11 DEF Book!Line
    <3>3. Book!HandOff(r)
      BY <2>9, <2>10, <3>1, <3>2 DEF Book!HandOff
    <3>4. QED
      BY <2>2, <3>3 DEF Book!BookNext
  <2>12. CASE job[t].to = "completed"
    <3>1. old.status \in {"draft", "handed_off"} /\ x.owner = file[old].owner
      BY <2>2, <2>12 DEF Moves
    <3>2. Shown' = [Shown EXCEPT ![r] = Book!Line(Shown[r].owner, "completed", Shown[r].version + 1)]
      BY <2>5, <2>7, <2>9, <2>12, <3>1 DEF Book!Line
    <3>3. Book!Complete(r)
      BY <2>9, <2>10, <3>1, <3>2 DEF Book!Complete
    <3>4. QED
      BY <2>2, <3>3 DEF Book!BookNext
  <2>13. QED
    BY <2>2, <2>11, <2>12
<1>7. ASSUME NEW t \in Threads, Unlink(t) PROVE Shown' = Shown
  <2>1. PICK d : d = job[t].doc
    OBVIOUS
  <2>2. d \in FilesOf(d.id) /\ \E e \in FilesOf(d.id) : file[d].version < file[e].version
    BY <1>1, <1>7, <2>1 DEF OldGoes, Unlink, At
  <2>3. file' = Without(file, {d})
    BY <1>7, <2>1 DEF Unlink
  <2>4. /\ \A q : FilesOf(q) # {} => /\ Latest(q)' = Latest(q) /\ FilesOf(q)' # {}
                                     /\ file'[Latest(q)] = file[Latest(q)]
        /\ \A q : FilesOf(q)' \subseteq FilesOf(q)
    BY <1>1, <2>2, <2>3, CopyRemoved
  <2>5. ASSUME NEW r \in RecordIds PROVE LineOf(r)' = LineOf(r)
    BY <2>4, LineStays
  <2>6. QED
    BY <1>3, <2>5
<1>8. BookSame \/ \E t \in Threads : RecordWrites(t)
  BY <1>1, FilesKept
<1>9. QED
  BY <1>4, <1>5, <1>6, <1>7, <1>8 DEF RecordWrites

\* The book is empty at first.
LEMMA BookOpens == RecInit => Book!BookInit
<1> SUFFICES ASSUME RecInit PROVE Book!BookInit
  OBVIOUS
<1>1. \A r : FilesOf(r) = {}
  BY DEF RecInit, NoFiles, FilesOf
<1>2. \A r : LineOf(r) = [owner |-> "-", status |-> "none", version |-> 0]
  BY <1>1 DEF LineOf
<1>3. QED
  BY <1>2, ShownByLine DEF Book!BookInit, Book!None, Book!Line

(***************************************************************************)
(* One request at a time, a record that was created is never lost and only *)
(* moves on, by one version each: update_orchestration_record writes the   *)
(* new copy before it removes the old one, and what apply_transition was   *)
(* granted is still so when the copy is written.                           *)
(***************************************************************************)
THEOREM RecordsMoveOn == ASSUME OneThread PROVE RecSpec => ImplementsRecordBook
<1>1. RecInit => BookInv /\ Book!BookInit
  BY BookStarts, BookOpens
<1>2. BookInv /\ [RecNext]_recVars => BookInv'
  BY BookKept
<1>3. BookInv /\ [RecNext]_recVars => [Book!BookNext]_Shown
  BY BookStep
<1>4. QED
  BY <1>1, <1>2, <1>3, PTL DEF RecSpec, ImplementsRecordBook, Book!BookSpec

-----------------------------------------------------------------------------
(***************************************************************************)
(* Notes.  Only entries tell of notes; what is about to be published tells *)
(* of none, and what is about to be written tells all that is on disk.     *)
(***************************************************************************)
OnlyEntriesTell == \A d \in DOMAIN file : d.kind # "entry" => file[d].body = {}

TextsTell ==
    \A t \in Threads :
        /\ job[t].pc = "publish" => job[t].text.body = {}
        /\ job[t].pc = "write" /\ job[t].doc \in DOMAIN file =>
               file[job[t].doc].body \subseteq job[t].text.body

NotesInv == BookInv /\ OnlyEntriesTell /\ TextsTell

NothingUntold == \A d \in DOMAIN file \cap DOMAIN file' : file[d].body \subseteq file'[d].body

\* The entries are as they were, but for some that were removed.
EntriesSame ==
    \A d \in DOMAIN file' : d.kind = "entry" => d \in DOMAIN file /\ file'[d] = file[d]

\* A file that is no entry is written.
LEMMA PlainPut ==
    ASSUME FilesType, OnlyEntriesTell, NEW d, NEW x, IsText(x), file' = Put(file, d, x),
           d.kind # "entry", x.body = {}
    PROVE  OnlyEntriesTell' /\ NothingUntold /\ EntriesSame
<1>1. /\ DOMAIN file' = DOMAIN file \cup {d} /\ file'[d] = x
      /\ \A e \in DOMAIN file : e # d => file'[e] = file[e]
  BY FilePut
<1>2. QED
  BY <1>1 DEF OnlyEntriesTell, NothingUntold, EntriesSame

\* A file is removed.
LEMMA PlainGone ==
    ASSUME FilesType, OnlyEntriesTell, NEW d, file' = Without(file, {d})
    PROVE  OnlyEntriesTell' /\ NothingUntold /\ EntriesSame
<1>1. DOMAIN file' = DOMAIN file \ {d} /\ \A e \in DOMAIN file' : file'[e] = file[e]
  BY FileGone
<1>2. QED
  BY <1>1 DEF OnlyEntriesTell, NothingUntold, EntriesSame

\* No step but a write of a note touches what entries tell.
LEMMA EntriesStay ==
    ASSUME NotesInv, [RecNext]_recVars, \A t \in Threads : ~Write(t)
    PROVE  OnlyEntriesTell' /\ NothingUntold /\ EntriesSame
<1>1. FilesType /\ OnlyEntriesTell /\ TextsTell /\ BookInv /\ JobsType
  BY DEF NotesInv, BookInv, FilesInv
<1>2. CASE UNCHANGED file
  BY <1>1, <1>2 DEF OnlyEntriesTell, NothingUntold, EntriesSame
<1>3. ASSUME NEW t \in Threads, Create(t) PROVE OnlyEntriesTell' /\ NothingUntold /\ EntriesSame
  <2>1. PICK r, x, place : file' = Put(file, Doc("collab", r, x.status, place), Text(x.task, x.author, 1, {}))
    BY <1>3 DEF Create
  <2>2. PICK d : d = Doc("collab", r, x.status, place)
    OBVIOUS
  <2>3. PICK y : y = Text(x.task, x.author, 1, {})
    OBVIOUS
  <2>4. d.kind # "entry" /\ IsText(y) /\ y.body = {}
    BY <2>2, <2>3 DEF Doc, Text, IsText
  <2>5. QED
    BY <1>1, <2>1, <2>2, <2>3, <2>4, PlainPut
<1>4. ASSUME NEW t \in Threads, Save(t) PROVE OnlyEntriesTell' /\ NothingUntold /\ EntriesSame
  <2>1. PICK r, old, new, x : MovesOn(t, r, old, new, x)
    BY <1>1, <1>4, SaveAdds
  <2>2. /\ old \in FilesOf(r) /\ new.kind = "collab" /\ IsText(x)
        /\ file' = Put(file, new, x) /\ x.body = file[old].body
    BY <2>1 DEF MovesOn
  <2>3. x.body = {}
    BY <1>1, <2>2 DEF OnlyEntriesTell, FilesOf
  <2>4. QED
    BY <1>1, <2>2, <2>3, PlainPut
<1>5. ASSUME NEW t \in Threads, Unlink(t) PROVE OnlyEntriesTell' /\ NothingUntold /\ EntriesSame
  BY <1>1, <1>5, PlainGone DEF Unlink
<1>6. ASSUME NEW t \in Threads, Publish(t) PROVE OnlyEntriesTell' /\ NothingUntold /\ EntriesSame
  <2>1. PICK d : d = PromotedDoc(Head(job[t].items).item)
    OBVIOUS
  <2>2. PICK y : y = job[t].text
    OBVIOUS
  <2>3. PICK x : x = [y EXCEPT !.owner = "-"]
    OBVIOUS
  <2>4. IsText(y) /\ y.body = {}
    BY <1>1, <1>6, <2>2 DEF JobsType, JobShape, TextsTell, Publish, At
  <2>5. IsText(x) /\ x.body = {}
    BY <2>3, <2>4 DEF IsText
  <2>6. d.kind # "entry"
    BY <2>1 DEF PromotedDoc, Doc
  <2>7. file' = Put(file, d, x)
    BY <1>6, <2>1, <2>2, <2>3 DEF Publish
  <2>8. QED
    BY <1>1, <2>5, <2>6, <2>7, PlainPut
<1>7. CASE OutsideWrite
  <2>1. PICK w, v : /\ v = IF OutsideDoc(w) \in DOMAIN file
                           THEN file[OutsideDoc(w)].version + 1 ELSE 1
                    /\ file' = Put(file, OutsideDoc(w), Text("-", "-", v, {}))
    BY <1>7 DEF OutsideWrite
  <2>2. v \in Nat
    BY <1>1, <2>1 DEF FilesType, IsText
  <2>3. PICK d : d = OutsideDoc(w)
    OBVIOUS
  <2>4. PICK y : y = Text("-", "-", v, {})
    OBVIOUS
  <2>5. d.kind # "entry" /\ IsText(y) /\ y.body = {}
    BY <2>2, <2>3, <2>4 DEF OutsideDoc, Doc, Text, IsText
  <2>6. QED
    BY <1>1, <2>1, <2>3, <2>4, <2>5, PlainPut
<1>8. CASE RemoveByHand
  <2>1. PICK d \in DOMAIN file : file' = Without(file, {d})
    BY <1>8, Zenon DEF RemoveByHand
  <2>2. QED
    BY <1>1, <2>1, PlainGone
<1>9. QED
  BY <1>2, <1>3, <1>4, <1>5, <1>6, <1>7, <1>8, FileSteps DEF RecordWrites

\* A note is written: what the entry told is told on.
LEMMA NoteIsAdded ==
    ASSUME NotesInv, NEW t \in Threads, Write(t)
    PROVE  OnlyEntriesTell' /\ NothingUntold /\ job'[t].pc = "mark"
<1>1. FilesType /\ OnlyEntriesTell /\ TextsTell /\ JobsType
  BY DEF NotesInv, BookInv, FilesInv
<1>2. PICK d : d = job[t].doc
  OBVIOUS
<1>3. PICK v : v = IF d \in DOMAIN file THEN file[d].version + 1 ELSE 1
  OBVIOUS
<1>4. PICK y : y = job[t].text
  OBVIOUS
<1>5. PICK x : x = [y EXCEPT !.version = v]
  OBVIOUS
<1>6. v \in Nat
  BY <1>1, <1>3 DEF FilesType, IsText
<1>7. IsText(y) /\ d.kind = "entry" /\ (d \in DOMAIN file => file[d].body \subseteq y.body)
  BY <1>1, <1>2, <1>4 DEF JobsType, JobShape, JobWay, TextsTell, Write, At
<1>8. IsText(x) /\ x.body = y.body
  BY <1>5, <1>6, <1>7 DEF IsText
<1>9. file' = Put(file, d, x)
  BY <1>2, <1>3, <1>4, <1>5 DEF Write
<1>10. /\ DOMAIN file' = DOMAIN file \cup {d} /\ file'[d] = x
       /\ \A e \in DOMAIN file : e # d => file'[e] = file[e]
  BY <1>1, <1>8, <1>9, FilePut
<1>11. job'[t].pc = "mark"
  BY <1>1 DEF Write, JobsType, JobShape
<1>12. QED
  BY <1>1, <1>7, <1>8, <1>10, <1>11 DEF OnlyEntriesTell, NothingUntold

\* The texts go on to tell what they must.
LEMMA NotesKept ==
    ASSUME NotesInv, OneThread, [RecNext]_recVars
    PROVE  NotesInv' /\ NothingUntold
<1>1. BookInv /\ OnlyEntriesTell /\ TextsTell
  BY DEF NotesInv
<1>2. FilesInv /\ MovesFit /\ FilesType
  BY <1>1 DEF BookInv, FilesInv
<1>3. BookInv'
  BY <1>1, BookKept
<1>4. JobsType'
  BY <1>3 DEF BookInv, FilesInv
<1>5. ASSUME NEW t \in Threads, Write(t) PROVE NotesInv' /\ NothingUntold
  <2>1. OnlyEntriesTell' /\ NothingUntold /\ job'[t].pc = "mark"
    BY <1>5, NoteIsAdded
  <2>2. \A s \in Threads : job'[s].pc = "mark"
    BY <2>1 DEF OneThread
  <2>3. TextsTell'
    BY <2>2 DEF TextsTell
  <2>4. QED
    BY <1>3, <2>1, <2>3 DEF NotesInv
<1>6. ASSUME \A t \in Threads : ~Write(t) PROVE NotesInv' /\ NothingUntold
  <2>1. OnlyEntriesTell' /\ NothingUntold /\ EntriesSame
    BY <1>6, EntriesStay
  <2>2. ASSUME NEW t \in Threads, job'[t].pc = "publish" PROVE job'[t].text.body = {}
    <3>1. CASE job[t].pc = "publish" /\ job'[t].text = job[t].text
      BY <1>1, <3>1 DEF TextsTell
    <3>2. ASSUME NEW r, FilesOf(r) # {}, job'[t].text = file[Latest(r)]
          PROVE  job'[t].text.body = {}
      <4>1. PICK d : d = Latest(r)
        OBVIOUS
      <4>2. d \in FilesOf(r)
        BY <1>2, <3>2, <4>1, LatestIsNewest DEF FilesInv
      <4>3. d \in DOMAIN file /\ d.kind # "entry"
        BY <4>2 DEF FilesOf
      <4>4. file[d].body = {}
        BY <1>1, <4>3 DEF OnlyEntriesTell
      <4>5. QED
        BY <3>2, <4>1, <4>4
    <3>3. QED
      BY <1>2, <2>2, <3>1, <3>2, MovesAreKept DEF MovesGo
  <2>3. ASSUME NEW t \in Threads, job'[t].pc = "write", job'[t].doc \in DOMAIN file'
        PROVE  file'[job'[t].doc].body \subseteq job'[t].text.body
    <3>1. PICK d : d = job'[t].doc
      OBVIOUS
    <3>2. d.kind = "entry"
      BY <1>4, <2>3, <3>1 DEF JobsType, JobWay
    <3>3. d \in DOMAIN file /\ file'[d] = file[d]
      BY <2>1, <2>3, <3>1, <3>2 DEF EntriesSame
    <3>4. \/ d \in DOMAIN file => file[d].body \subseteq job'[t].text.body
          \/ job[t].pc = "write" /\ d = job[t].doc /\ job'[t].text = job[t].text
      BY <1>2, <2>3, <3>1, MovesAreKept DEF MovesGo
    <3>5. file[d].body \subseteq job'[t].text.body
      BY <1>1, <3>3, <3>4 DEF TextsTell
    <3>6. QED
      BY <3>1, <3>3, <3>5
  <2>4. TextsTell'
    BY <2>2, <2>3 DEF TextsTell
  <2>5. QED
    BY <1>3, <2>1, <2>4 DEF NotesInv
<1>7. QED
  BY <1>5, <1>6

(***************************************************************************)
(* One request at a time, no write of an entry loses a note it told of:    *)
(* _consolidate reads the entry and writes it with the new note, and no    *)
(* other operation writes an entry in between.                             *)
(***************************************************************************)
THEOREM NotesAreKept == ASSUME OneThread PROVE RecSpec => NotesStay
<1>1. RecInit => NotesInv
  <2> SUFFICES ASSUME RecInit PROVE NotesInv
    OBVIOUS
  <2>1. BookInv
    BY BookStarts
  <2>2. DOMAIN file = {} /\ \A t \in Threads : job[t].pc = "idle"
    BY DEF RecInit, NoFiles, Idle
  <2>3. QED
    BY <2>1, <2>2 DEF NotesInv, OnlyEntriesTell, TextsTell
<1>2. NotesInv /\ [RecNext]_recVars => NotesInv'
  BY NotesKept
<1>3. NotesInv /\ [RecNext]_recVars => [NothingUntold]_recVars
  BY NotesKept
<1>4. QED
  BY <1>1, <1>2, <1>3, PTL DEF RecSpec, NotesStay, NothingUntold
=============================================================================
