------------------------------ MODULE Records ------------------------------
(***************************************************************************)
(* The Markdown documents of the data directory (storage.py), the index    *)
(* that is kept beside them (indexer.py, indexer_manifest.py, vector.py),  *)
(* the records agents hand to one another (api_orchestration.py), their    *)
(* promotion (promotion_store.py, promotion_worker.py) and the notes that  *)
(* are recorded or merged into earlier ones (btwin.py, consolidation.py).  *)
(*                                                                         *)
(* The server and a command of the command line are two processes.  Each   *)
(* has its own copy of the manifest and of the promotion queue, reads it   *)
(* when it starts and saves it whole with every change.  A thread carries  *)
(* out one request or command, cut at its writes; a process may be killed  *)
(* between any two.                                                        *)
(***************************************************************************)
EXTENDS Naturals, Sequences, SequencesExt, FiniteSets, Functions

CONSTANTS
    RecordIds,      \* bound: records that can be created, a set 1..n
    Payloads,       \* bound: what creations ask for, [task, author, status]
    Places,         \* bound: where a record is created, "own" or "global"
    Receivers,      \* bound: agents a record is handed to
    Keys,           \* bound: the idempotency keys clients send, "-" for none
    CacheSize,      \* _IDEMPOTENCY_CACHE_MAX
    MaxItems,       \* bound: promotions proposed
    Notes,          \* bound: notes recorded
    Outside,        \* bound: documents the workflow engine writes
    MaxDocs,        \* bound: documents known when another one is begun
    MaxVersion,     \* bound: rewrites of a document
    MaxEvents,      \* bound: kills, embeddings that fail, files written or removed
                    \*   outside, commands beside the server
    Processes,      \* "server", and "cli" when commands run beside it
    Threads         \* requests and commands at once

ASSUME RecordsAssumption ==
    /\ "server" \in Processes
    /\ "-" \notin Receivers
    /\ \A x \in Payloads : x.status \in {"draft", "handed_off", "completed"}

VARIABLES
    file,       \* the documents on disk and what each holds
    vec,        \* the documents in the vector store and what was embedded
    mem,        \* each process's copy of the manifest and of the queue
    disk,       \* the manifest and the queue on disk
    cache,      \* the server's idempotency cache, oldest first
    job,        \* what each thread is doing
    events      \* how many of the bounded events there were

recVars == <<file, vec, mem, disk, cache, job, events>>

Doc(kind, id, status, place) == [kind |-> kind, id |-> id, status |-> status, place |-> place]
NoteDoc(n) == Doc("entry", n, "-", "-")
OutsideDoc(w) == Doc("workflow", w, "-", "-")
PromotedDoc(i) == Doc("promoted", i, "-", "global")

Text(task, owner, version, body) ==
    [task |-> task, owner |-> owner, version |-> version, body |-> body]

Room == Cardinality(DOMAIN file \cup DOMAIN disk.man) < MaxDocs

Put(f, d, x) == [e \in DOMAIN f \cup {d} |-> IF e = d THEN x ELSE f[e]]
Without(f, D) == Restrict(f, DOMAIN f \ D)

-----------------------------------------------------------------------------
(***************************************************************************)
(* A record is the file of the highest version that names it.  Status and  *)
(* project are part of a file's path.                                      *)
(***************************************************************************)
FilesOf(r) == {d \in DOMAIN file : d.kind = "collab" /\ d.id = r}

Latest(r) == CHOOSE d \in FilesOf(r) : \A e \in FilesOf(r) : file[e].version <= file[d].version

Moves == {<<"draft", "handed_off">>, <<"draft", "completed">>, <<"handed_off", "completed">>}

-----------------------------------------------------------------------------
(***************************************************************************)
(* The manifest: for each document a checksum, which stands for what the   *)
(* file held, and a status.                                                *)
(***************************************************************************)
Entry(sum, status) == [sum |-> sum, status |-> status]

MarkKeepingStatus(m, d, x) ==  \* mutant: a changed document stays indexed
    Put(m, d, Entry(x, IF d \notin DOMAIN m THEN "pending"
                       ELSE IF m[d].status \in {"failed", "deleted"} THEN "pending"
                       ELSE m[d].status))

\* mark_pending, for the content x.
Mark(m, d, x) ==
    Put(m, d, Entry(x, IF d \notin DOMAIN m THEN "pending"
                       ELSE IF m[d].sum # x THEN "stale"
                       ELSE IF m[d].status \in {"failed", "deleted"} THEN "pending"
                       ELSE m[d].status))

SetStatus(m, d, status) == [m EXCEPT ![d].status = status]

\* verify_doc_integrity
Healthy(m, d) ==
    /\ d \in DOMAIN m /\ d \in DOMAIN file /\ d \in DOMAIN vec
    /\ m[d].status = "indexed" /\ m[d].sum = file[d]

Dirty(m, status) == {d \in DOMAIN m : m[d].status = status}

NoLimit == 0

\* What refresh takes up: by status in this order, cut at the limit.
Queues(m, limit) ==
    LET rank(d) == CASE m[d].status = "pending" -> 1 [] m[d].status = "stale" -> 2
                     [] m[d].status = "failed" -> 3 [] OTHER -> 4
        all == UNION {Dirty(m, s) : s \in {"pending", "stale", "failed", "deleted"}}
    IN  IF limit = NoLimit THEN {all}
        ELSE {Q \in SUBSET all :
                 /\ Cardinality(Q) = (IF Cardinality(all) < limit THEN Cardinality(all) ELSE limit)
                 /\ \A d \in Q, e \in all \ Q : rank(d) <= rank(e)}

-----------------------------------------------------------------------------
(***************************************************************************)
(* A thread: "then" is where it goes on after marking, "back" after        *)
(* indexing one document, "last" after a refresh.  "missed" are the        *)
(* documents written or removed around a reconcile since it listed them.   *)
(***************************************************************************)
Idle == [pc |-> "idle", who |-> "server", doc |-> OutsideDoc(0), then |-> "-", back |-> "-",
         last |-> "-", todo |-> {}, limit |-> 0, tries |-> 0, granted |-> FALSE,
         to |-> "-", owner |-> "-", version |-> 0, text |-> Text("-", "-", 0, {}), payload |-> <<>>,
         key |-> "-", items |-> <<>>, missed |-> {}]

Man(t) == mem[job[t].who].man
Queue(t) == mem[job[t].who].queue

SaveManifest(t, m) ==
    mem' = [mem EXCEPT ![job[t].who].man = m] /\ disk' = [disk EXCEPT !.man = m]

SaveQueue(t, q) ==
    mem' = [mem EXCEPT ![job[t].who].queue = q] /\ disk' = [disk EXCEPT !.queue = q]

NoFiles == [d \in {} |-> Text("-", "-", 0, {})]
Blank == [man |-> [d \in {} |-> Entry(Text("-", "-", 0, {}), "-")], queue |-> <<>>]

At(t, pc) == job[t].pc = pc
Go(t, pc) == job' = [job EXCEPT ![t].pc = pc]
Done(t) == job' = [job EXCEPT ![t] = Idle]

\* A command is a process that starts; the server has been running.
Begin(t, z) ==
    /\ At(t, "idle") /\ z.who \in Processes
    /\ job' = [job EXCEPT ![t] = z]
    /\ \/ z.who = "server" /\ UNCHANGED <<mem, events>>
       \/ /\ z.who = "cli" /\ \A s \in Threads : job[s].pc = "idle" \/ job[s].who # "cli"
          /\ events < MaxEvents /\ events' = events + 1
          /\ mem' = [mem EXCEPT !["cli"] = disk]

Finish(t) ==
    /\ \/ At(t, "end") \/ At(t, "reconciled")
       \/ At(t, "promote") /\ job[t].items = <<>>
    /\ Done(t)
    /\ mem' = IF job[t].who = "cli" THEN [mem EXCEPT !["cli"] = Blank] ELSE mem
    /\ UNCHANGED <<file, vec, disk, cache, events>>

-----------------------------------------------------------------------------
(***************************************************************************)
(* Indexing: mark_pending, then repair for one document or refresh for     *)
(* many.  A file without a tldr, like an embedding that fails, ends in     *)
(* "failed".                                                               *)
(***************************************************************************)
MarkStep(t) ==
    /\ At(t, "mark")
    /\ SaveManifest(t, Mark(Man(t), job[t].doc, job[t].text))
    /\ Go(t, job[t].then)
    /\ UNCHANGED <<file, vec, cache, events>>

DropVector(t, d) ==
    /\ vec' = Without(vec, {d})
    /\ SaveManifest(t, SetStatus(Man(t), d, "deleted"))

RepairStep(t) ==
    LET d == job[t].doc IN
    /\ At(t, "repair")
    /\ \/ d \in DOMAIN file
          /\ SaveManifest(t, Put(Man(t), d, Entry(file[d], "stale")))
          /\ job' = [job EXCEPT ![t].pc = "embed", ![t].text = file[d]]
          /\ UNCHANGED vec
       \/ d \notin DOMAIN file /\ d \in DOMAIN Man(t)
          /\ DropVector(t, d) /\ Go(t, job[t].back)
       \/ d \notin DOMAIN file /\ d \notin DOMAIN Man(t)
          /\ Go(t, job[t].back) /\ UNCHANGED <<vec, mem, disk>>
    /\ UNCHANGED <<file, cache, events>>

\* The text was read before: what happens to the file meanwhile is no matter.
Embed(t) ==
    /\ At(t, "embed")
    /\ vec' = Put(vec, job[t].doc, job[t].text)
    /\ Go(t, "settle")
    /\ UNCHANGED <<file, mem, disk, cache, events>>

EmbedFails(t) ==
    /\ At(t, "embed") /\ events < MaxEvents
    /\ events' = events + 1
    /\ SaveManifest(t, SetStatus(Man(t), job[t].doc, "failed"))
    /\ Go(t, job[t].back)
    /\ UNCHANGED <<file, vec, cache>>

Settle(t) ==
    /\ At(t, "settle")
    /\ SaveManifest(t, SetStatus(Man(t), job[t].doc, "indexed"))
    /\ Go(t, job[t].back)
    /\ UNCHANGED <<file, vec, cache, events>>

RefreshPick(t) ==
    /\ At(t, "pick")
    /\ \E Q \in Queues(Man(t), job[t].limit) :
          job' = [job EXCEPT ![t].pc = "refresh", ![t].back = "refresh", ![t].todo = Q]
    /\ UNCHANGED <<file, vec, mem, disk, cache, events>>

\* refresh, one document of its queue; the checksum is brought up to date first.
RefreshStep(t) ==
    /\ At(t, "refresh")
    /\ \/ /\ job[t].todo = {}
          /\ Go(t, job[t].last)
          /\ UNCHANGED <<vec, mem, disk>>
       \/ \E d \in job[t].todo :
             \/ /\ Man(t)[d].status = "deleted" \/ d \notin DOMAIN file
                /\ DropVector(t, d)
                /\ job' = [job EXCEPT ![t].todo = @ \ {d}]
             \/ /\ Man(t)[d].status # "deleted" /\ d \in DOMAIN file
                /\ SaveManifest(t, [Man(t) EXCEPT ![d].sum = file[d]])
                /\ job' = [job EXCEPT ![t].todo = @ \ {d}, ![t].doc = d, ![t].pc = "embed",
                                      ![t].text = file[d]]
                /\ UNCHANGED vec
    /\ UNCHANGED <<file, cache, events>>

ReconcileKeepingVectors(t) ==  \* mutant: vectors nothing names are left
    /\ At(t, "reconcile")
    /\ LET marked == [d \in DOMAIN Man(t) \cup DOMAIN file |->
                         IF d \in DOMAIN file THEN Mark(Man(t), d, file[d])[d]
                         ELSE SetStatus(Man(t), d, "deleted")[d]]
       IN  SaveManifest(t, marked)
    /\ job' = [job EXCEPT ![t].pc = "pick", ![t].limit = NoLimit, ![t].last = "reconciled"]
    /\ UNCHANGED <<file, vec, cache, events>>

\* reconcile up to its refresh: every document is marked, those without a
\* file become "deleted", vectors the manifest does not know are dropped.
Reconcile(t) ==
    /\ At(t, "reconcile")
    /\ LET marked == [d \in DOMAIN Man(t) \cup DOMAIN file |->
                         IF d \in DOMAIN file THEN Mark(Man(t), d, file[d])[d]
                         ELSE SetStatus(Man(t), d, "deleted")[d]]
       IN  SaveManifest(t, marked) /\ vec' = Restrict(vec, DOMAIN vec \cap DOMAIN marked)
    /\ job' = [job EXCEPT ![t].pc = "pick", ![t].limit = NoLimit, ![t].last = "reconciled"]
    /\ UNCHANGED <<file, cache, events>>

IndexerRequest(t, p) ==
    /\ \/ Begin(t, [Idle EXCEPT !.pc = "reconcile", !.who = p])
       \/ \E n \in {1, NoLimit} :
             Begin(t, [Idle EXCEPT !.pc = "pick", !.who = p, !.limit = n, !.last = "end"])
       \/ \E d \in DOMAIN file \cup DOMAIN disk.man :
             /\ d \in DOMAIN (IF p = "cli" THEN disk.man ELSE mem[p].man)
             /\ Begin(t, [Idle EXCEPT !.pc = "repair", !.who = p, !.doc = d, !.back = "end"])
    /\ UNCHANGED <<file, vec, disk, cache>>

-----------------------------------------------------------------------------
(***************************************************************************)
(* Records handed from agent to agent.  A creation is refused when a file  *)
(* with its task, status and author exists, or its key was used for        *)
(* another payload; a key seen with the same payload gets the same answer. *)
(***************************************************************************)
Cached(k) == {i \in DOMAIN cache : cache[i].key = k}

Refused(x, k) ==
    \/ \E i \in Cached(k) : cache[i].payload # x \/ FilesOf(cache[i].id) # {}
    \/ \E d \in DOMAIN file : d.kind = "collab" /\ d.status = x.status
                              /\ file[d].task = x.task /\ file[d].owner = x.author

CreateRequest(t) ==
    /\ Room
    /\ \E x \in Payloads, k \in Keys :
          /\ ~Refused(x, k)
          /\ Begin(t, [Idle EXCEPT !.pc = "create", !.payload = x, !.key = k])
    /\ UNCHANGED <<file, vec, disk, cache>>

Remember(t, r) ==
    LET k == job[t].key
        fresh == [key |-> k, payload |-> job[t].payload, id |-> r]
        kept == IF Cached(k) # {} THEN [i \in DOMAIN cache |-> IF i \in Cached(k) THEN fresh ELSE cache[i]]
                ELSE Append(cache, fresh)
    IN  cache' = IF k = "-" THEN cache
                 ELSE IF Len(kept) >= CacheSize THEN Tail(kept) ELSE kept

Create(t) ==
    /\ At(t, "create")
    /\ \E r \in RecordIds, place \in Places :
          LET x == job[t].payload IN
          /\ FilesOf(r) = {} /\ \A q \in 1..(r - 1) : FilesOf(q) # {}
          /\ file' = Put(file, Doc("collab", r, x.status, place), Text(x.task, x.author, 1, {}))
          /\ Remember(t, r)
    /\ Done(t)
    /\ UNCHANGED <<vec, mem, disk, events>>

\* handoff and complete: the owner asks, and the record is read here.
MoveRequest(t) ==
    /\ \E r \in RecordIds, to \in {"handed_off", "completed"}, new \in Receivers, expected \in 1..MaxVersion :
          /\ FilesOf(r) # {}
          /\ LET d == Latest(r)  v == file[d].version IN
             Begin(t, [Idle EXCEPT !.pc = "gate", !.doc = d, !.to = to,
                                   !.owner = IF to = "handed_off" THEN new ELSE "-",
                                   !.version = v + 1,
                                   !.granted = v = expected /\ <<d.status, to>> \in Moves
                                               /\ v < MaxVersion])
    /\ UNCHANGED <<file, vec, disk, cache>>

\* _enforce_integrity_gate: the file the record has now is checked.
Gate(t) ==
    /\ At(t, "gate")
    /\ LET r == job[t].doc.id IN
       IF FilesOf(r) = {} THEN Done(t) /\ UNCHANGED <<mem, disk>>
       ELSE LET d == Latest(r)
                fine == d \in DOMAIN Man(t) /\ Man(t)[d] = Entry(file[d], "indexed")
            IN  /\ job' = [job EXCEPT ![t].pc = "verify", ![t].doc = d, ![t].back = "verify"]
                /\ IF fine THEN UNCHANGED <<mem, disk>> ELSE SaveManifest(t, Mark(Man(t), d, file[d]))
    /\ UNCHANGED <<file, vec, cache, events>>

\* apply_transition decides on the record as it was read at first.
Verify(t) ==
    /\ At(t, "verify")
    /\ IF Healthy(Man(t), job[t].doc)
       THEN IF job[t].granted THEN Go(t, "save") ELSE Done(t)
       ELSE IF job[t].tries < 2
            THEN job' = [job EXCEPT ![t].pc = "repair", ![t].tries = @ + 1]
            ELSE Done(t)
    /\ UNCHANGED <<file, vec, mem, disk, cache, events>>

Moved(d, to) == Doc("collab", d.id, to, "global")

UnlinkFirst(t) ==  \* mutant: the old file goes before the new one is there
    /\ At(t, "save")
    /\ LET r == job[t].doc.id IN
       IF FilesOf(r) = {} THEN Done(t) /\ UNCHANGED file
       ELSE /\ file' = Without(file, {Latest(r)})
            /\ Done(t)
    /\ UNCHANGED <<vec, mem, disk, cache, events>>

\* update_orchestration_record: no project is passed, so the file moves to
\* the global one; the version is the one decided on.
Save(t) ==
    /\ At(t, "save")
    /\ LET r == job[t].doc.id IN
       IF FilesOf(r) = {} THEN Done(t) /\ UNCHANGED file
       ELSE LET old == Latest(r)
                new == Moved(old, job[t].to)
                text == [file[old] EXCEPT !.version = job[t].version,
                                          !.owner = IF job[t].owner = "-" THEN @ ELSE job[t].owner]
            IN  /\ file' = Put(file, new, text)
                /\ IF old # new THEN job' = [job EXCEPT ![t].pc = "unlink", ![t].doc = old]
                   ELSE Done(t)
    /\ UNCHANGED <<vec, mem, disk, cache, events>>

Unlink(t) ==
    /\ At(t, "unlink")
    /\ file' = Without(file, {job[t].doc})
    /\ Done(t)
    /\ UNCHANGED <<vec, mem, disk, cache, events>>

-----------------------------------------------------------------------------
(***************************************************************************)
(* Promotion: an item is proposed, approved, queued and promoted, and the  *)
(* promoted entry is one file per item.                                    *)
(***************************************************************************)
NextStatus == [proposed |-> "approved", approved |-> "queued", queued |-> "promoted", promoted |-> "-"]

ItemsAt(q, status) == SelectSeq([i \in DOMAIN q |-> i], LAMBDA i : q[i].status = status)

Propose(t) ==
    /\ At(t, "idle") /\ Len(mem["server"].queue) < MaxItems
    /\ \E r \in RecordIds :
          /\ FilesOf(r) # {}
          /\ LET q == Append(mem["server"].queue, [source |-> r, status |-> "proposed"])
             IN  mem' = [mem EXCEPT !["server"].queue = q] /\ disk' = [disk EXCEPT !.queue = q]
    /\ UNCHANGED <<file, vec, cache, job, events>>

Approve(t) ==
    /\ At(t, "idle")
    /\ \E i \in DOMAIN mem["server"].queue :
          /\ mem["server"].queue[i].status = "proposed"
          /\ LET q == [mem["server"].queue EXCEPT ![i].status = "approved"]
             IN  mem' = [mem EXCEPT !["server"].queue = q] /\ disk' = [disk EXCEPT !.queue = q]
    /\ UNCHANGED <<file, vec, cache, job, events>>

PendingWithoutQueued(q) ==  \* mutant: items a killed batch had queued are left
    ItemsAt(q, "approved")

Pending(q) == ItemsAt(q, "approved") \o ItemsAt(q, "queued")

BatchRequest(t, p, limit) ==
    LET q == (IF p = "cli" THEN disk ELSE mem[p]).queue
        all == Pending(q)
        n == IF limit = NoLimit \/ Len(all) < limit THEN Len(all) ELSE limit
    IN  /\ all # <<>>
        /\ Begin(t, [Idle EXCEPT !.pc = "promote", !.who = p,
                                 !.items = [k \in 1..n |-> [item |-> all[k], status |-> q[all[k]].status]]])
        /\ UNCHANGED <<file, vec, disk, cache>>

Skip(t) == job' = [job EXCEPT ![t].pc = "promote", ![t].items = Tail(@)]

\* set_status: only from the status before it; otherwise an error is counted.
SetItem(t, i, status) ==
    IF NextStatus[Queue(t)[i].status] = status
    THEN SaveQueue(t, [Queue(t) EXCEPT ![i].status = status])
    ELSE UNCHANGED <<mem, disk>>

Take(t, i) == SetItem(t, i, "queued")

Promote(t) ==
    /\ At(t, "promote") /\ job[t].items # <<>>
    /\ LET z == Head(job[t].items)  i == z.item  r == Queue(t)[i].source IN
       \/ FilesOf(r) = {} /\ Skip(t) /\ UNCHANGED <<mem, disk>>
       \/ /\ FilesOf(r) # {} /\ PromotedDoc(i) \in DOMAIN file
          /\ SetItem(t, i, "promoted") /\ Skip(t)
       \/ /\ FilesOf(r) # {} /\ PromotedDoc(i) \notin DOMAIN file
          /\ LET took == z.status = "queued" \/ Queue(t)[i].status = "approved" IN
             /\ IF z.status = "approved" THEN Take(t, i) ELSE UNCHANGED <<mem, disk>>
             /\ IF took THEN job' = [job EXCEPT ![t].pc = "publish", ![t].text = file[Latest(r)]]
                ELSE Skip(t)
    /\ UNCHANGED <<file, vec, cache, events>>

\* save_promoted_entry; _index_promoted marks it and refreshes one document.
Publish(t) ==
    LET d == PromotedDoc(Head(job[t].items).item)
        text == [job[t].text EXCEPT !.owner = "-"]
    IN
    /\ At(t, "publish")
    /\ file' = Put(file, d, text)
    /\ job' = [job EXCEPT ![t].pc = "mark", ![t].doc = d, ![t].then = "pick", ![t].limit = 1,
                          ![t].last = "promoted", ![t].text = text]
    /\ UNCHANGED <<vec, mem, disk, cache, events>>

Promoted(t) ==
    /\ At(t, "promoted")
    /\ SetItem(t, Head(job[t].items).item, "promoted")
    /\ Skip(t)
    /\ UNCHANGED <<file, vec, cache, events>>

-----------------------------------------------------------------------------
(***************************************************************************)
(* Notes.  The body of an entry is the set of notes it tells of; a note    *)
(* may be merged into the entry the vector store finds most like it.       *)
(***************************************************************************)
Known(n) ==
    \/ \E d \in DOMAIN file : n \in file[d].body
    \/ \E s \in Threads : n \in job[s].text.body

NoteRequest(t, p) ==
    /\ \E n \in Notes :
          /\ ~Known(n) /\ NoteDoc(n) \notin DOMAIN file \cup DOMAIN disk.man
          /\ LET z == [Idle EXCEPT !.who = p, !.doc = NoteDoc(n), !.text = Text("-", "-", 1, {n})] IN
             \/ Room /\ Begin(t, [z EXCEPT !.pc = "write"])
             \/ \E d \in DOMAIN vec :
                   /\ p = "server" /\ d.kind = "entry"
                   /\ IF d \in DOMAIN file
                      THEN /\ file[d].version < MaxVersion
                           /\ Begin(t, [z EXCEPT !.pc = "write", !.doc = d,
                                                 !.text.body = file[d].body \cup {n}])
                      ELSE Room /\ Begin(t, [z EXCEPT !.pc = "write"])
    /\ UNCHANGED <<file, vec, disk, cache>>

WriteOver(t) ==  \* mutant: the merged note replaces what the entry told
    LET d == job[t].doc
        v == IF d \in DOMAIN file THEN file[d].version + 1 ELSE 1
        text == [job[t].text EXCEPT !.version = v,
                        !.body = IF d \in DOMAIN file THEN @ \ file[d].body ELSE @]
    IN
    /\ At(t, "write")
    /\ file' = Put(file, d, text)
    /\ job' = [job EXCEPT ![t].pc = "mark", ![t].then = "repair", ![t].back = "end", ![t].text = text]
    /\ UNCHANGED <<vec, mem, disk, cache, events>>

\* save_entry of a new note, update_entry of a merged one, then _index_file.
Write(t) ==
    LET d == job[t].doc
        v == IF d \in DOMAIN file THEN file[d].version + 1 ELSE 1
        text == [job[t].text EXCEPT !.version = v]
    IN
    /\ At(t, "write")
    /\ file' = Put(file, d, text)
    /\ job' = [job EXCEPT ![t].pc = "mark", ![t].then = "repair", ![t].back = "end", ![t].text = text]
    /\ UNCHANGED <<vec, mem, disk, cache, events>>

-----------------------------------------------------------------------------
(***************************************************************************)
(* Around the index: documents written without it, files removed by hand,  *)
(* and kills.  A server that starts reconciles before it serves.           *)
(***************************************************************************)
Miss(d) ==
    job' = [t \in Threads |-> IF job[t].last = "reconciled" THEN [job[t] EXCEPT !.missed = @ \cup {d}]
                        ELSE job[t]]

OutsideWrite ==
    /\ events < MaxEvents /\ events' = events + 1
    /\ \E w \in Outside :
          LET d == OutsideDoc(w)
              v == IF d \in DOMAIN file THEN file[d].version + 1 ELSE 1
          IN  /\ v < MaxVersion /\ (d \in DOMAIN file \/ (Room /\ d \notin DOMAIN disk.man))
              /\ file' = Put(file, d, Text("-", "-", v, {})) /\ Miss(d)
    /\ UNCHANGED <<vec, mem, disk, cache>>

RemoveByHand ==
    /\ events < MaxEvents /\ events' = events + 1
    /\ \E d \in DOMAIN file :
          d.kind \in {"entry", "workflow"} /\ file' = Without(file, {d}) /\ Miss(d)
    /\ UNCHANGED <<vec, mem, disk, cache>>

Kill(p) ==
    /\ events < MaxEvents /\ events' = events + 1
    /\ \E s \in Threads :
          LET next == [t \in Threads |-> IF job[t].who = p THEN Idle ELSE job[t]] IN
          IF p = "server"
          THEN /\ job[s].who = "server" /\ \A t \in Threads : job[t].who = "server" => s <= t
               /\ mem' = [mem EXCEPT !["server"] = disk] /\ cache' = <<>>
               /\ job' = [next EXCEPT ![s] = [Idle EXCEPT !.pc = "reconcile"]]
          ELSE /\ job[s].who = p
               /\ mem' = [mem EXCEPT ![p] = Blank]
               /\ job' = next /\ UNCHANGED cache
    /\ UNCHANGED <<file, vec, disk>>

-----------------------------------------------------------------------------
RecInit ==
    /\ file = NoFiles /\ vec = NoFiles
    /\ disk = Blank
    /\ mem = [p \in Processes |-> Blank]
    /\ cache = <<>>
    /\ job = [t \in Threads |-> Idle]
    /\ events = 0

JobStep(t) ==
    \/ Finish(t) \/ MarkStep(t) \/ RepairStep(t) \/ Embed(t) \/ EmbedFails(t) \/ Settle(t)
    \/ RefreshPick(t) \/ RefreshStep(t) \/ Reconcile(t)
    \/ Create(t) \/ Gate(t) \/ Verify(t) \/ Save(t) \/ Unlink(t)
    \/ Promote(t) \/ Publish(t) \/ Promoted(t) \/ Write(t)

Request(t) ==
    \/ CreateRequest(t) \/ MoveRequest(t) \/ Propose(t) \/ Approve(t)
    \/ \E p \in Processes : IndexerRequest(t, p) \/ NoteRequest(t, p)
    \/ \E p \in Processes, limit \in {1, NoLimit} : BatchRequest(t, p, limit)

RecNext ==
    \/ \E t \in Threads : JobStep(t) \/ Request(t)
    \/ OutsideWrite \/ RemoveByHand
    \/ \E p \in Processes : Kill(p)

\* A request is carried through, and the operator of the server goes on
\* running batches.
RecFairness ==
    \A t \in Threads : WF_recVars(JobStep(t)) /\ SF_recVars(BatchRequest(t, "server", NoLimit))

RecSpec == RecInit /\ [][RecNext]_recVars /\ RecFairness

-----------------------------------------------------------------------------
Shown ==
    [r \in RecordIds |->
        IF FilesOf(r) = {} THEN [owner |-> "-", status |-> "none", version |-> 0]
        ELSE LET d == Latest(r)
             IN  [owner |-> file[d].owner, status |-> d.status, version |-> file[d].version]]

Book == INSTANCE RecordBook WITH
    book <- Shown, Agents <- Receivers \cup {x.author : x \in Payloads}

(***************************************************************************)
(* The files implement the book: a record that was created can be read at  *)
(* any later time, also in the middle of a move and after a kill, and its  *)
(* owner and status change only by a move the table allows, by one version *)
(* each; update_orchestration_record writes the new file and then unlinks  *)
(* the old one, and apply_transition compares versions.                    *)
(***************************************************************************)
ImplementsRecordBook == Book!BookSpec

(***************************************************************************)
(* What verify_doc_integrity calls healthy is: the vector store holds what *)
(* the file says now, whatever another process did to file, manifest or    *)
(* vectors, and whatever was killed half way.                              *)
(***************************************************************************)
IntegrityIsTrue ==
    \A p \in Processes : \A d \in DOMAIN mem[p].man :
        Healthy(mem[p].man, d) => vec[d] = file[d]

(***************************************************************************)
(* A reconcile brings files, manifest and vectors together from any state  *)
(* that kills, failures, commands and unindexed writes left: each document *)
(* is indexed as it is now or listed as failed, and no vector is left of   *)
(* one that is gone, but for what was written or removed meanwhile.        *)
(***************************************************************************)
ReconcileHeals ==
    \A t \in Threads : At(t, "reconciled") =>
        /\ \A d \in DOMAIN file \ job[t].missed :
              d \in DOMAIN Man(t) /\ (Man(t)[d].status = "failed" \/ Healthy(Man(t), d))
        /\ DOMAIN vec \subseteq DOMAIN file \cup job[t].missed

(***************************************************************************)
(* An item that any copy of the queue calls promoted has its entry on      *)
(* disk: run_once writes the file before the status, and what it finds     *)
(* queued after a kill, or by another process, it takes as done only when  *)
(* the entry is there.                                                     *)
(***************************************************************************)
PromotedHasEntry ==
    \A q \in {disk.queue} \cup {mem[p].queue : p \in Processes} :
        \A i \in DOMAIN q : q[i].status = "promoted" => PromotedDoc(i) \in DOMAIN file

(***************************************************************************)
(* An approved promotion is published in the end, though a batch may be    *)
(* killed at any write and another process may run batches on a copy of    *)
(* the queue: run_once takes up queued items too.  And what is called      *)
(* promoted on the way has its entry.                                      *)
(***************************************************************************)
ApprovedIsPublished ==
    /\ []PromotedHasEntry
    /\ \A i \in 1..MaxItems :
           (i \in DOMAIN mem["server"].queue /\ mem["server"].queue[i].status = "approved")
               ~> PromotedDoc(i) \in DOMAIN file

(***************************************************************************)
(* No write of an entry loses a note it told of: _consolidate merges the   *)
(* old content with the new.                                               *)
(***************************************************************************)
NotesStay ==
    [][\A d \in DOMAIN file \cap DOMAIN file' : file[d].body \subseteq file'[d].body]_recVars
=============================================================================
