---------------------------- MODULE IndexProofs ----------------------------
(***************************************************************************)
(* The index of Records, for every data directory and every value of the   *)
(* bounds: an entry the integrity check calls healthy has the vector of    *)
(* its document, and a reconcile leaves nothing out of the index except    *)
(* what it could not index and what was written while it ran.  At the end  *)
(* the promotions, here with any number of processes and requests at once. *)
(***************************************************************************)
EXTENDS RecordsProofs, WellFoundedInduction

-----------------------------------------------------------------------------
(***************************************************************************)
(* The index.  What the manifest says of a document, in the file and in    *)
(* each process's own copy, and what a job still carries, in relation to   *)
(* the document and its vector.                                            *)
(***************************************************************************)
Rank(status) == IF status = "draft" THEN 0 ELSE IF status = "handed_off" THEN 1 ELSE 2

RanksFollow ==
    \A r : \A d, e \in FilesOf(r) :
        file[d].version <= file[e].version => Rank(d.status) <= Rank(e.status)

Below(d, x, y) ==
    IF d.kind = "entry" THEN x.body \subseteq y.body /\ x.body # y.body ELSE x.version < y.version

Older(d, x, y) == x = y \/ Below(d, x, y)

Manifests == {disk.man} \cup {mem[p].man : p \in Processes}

SoundEntry(d, e) ==
    /\ e = [sum |-> e.sum, status |-> e.status] /\ IsText(e.sum)
    /\ e.status \in {"pending", "stale", "failed", "deleted", "indexed"}
    /\ d \in DOMAIN file => Older(d, e.sum, file[d]) /\ e.status # "deleted"
    /\ d \in DOMAIN file /\ e.status = "indexed" =>
           d \in DOMAIN vec /\ (e.sum = file[d] => vec[d] = file[d])
    /\ d.kind = "promoted" => d \in DOMAIN file
    /\ d.kind = "collab" => \E f \in FilesOf(d.id) : Rank(d.status) <= Rank(f.status)

Sound(m) == \A d \in DOMAIN m : SoundEntry(d, m[d])

ManifestsSound == \A m \in Manifests : Sound(m)

MemType ==
    /\ DOMAIN mem = Processes
    /\ \A p \in Processes : mem[p] = [man |-> mem[p].man, queue |-> mem[p].queue]
    /\ disk = [man |-> disk.man, queue |-> disk.queue]

\* The server's copy may be behind the file; a command's is the file while it runs.
CopiesMeet ==
    /\ \A p \in Processes : DOMAIN mem[p].man \subseteq DOMAIN disk.man
    /\ \A t \in Threads : job[t].who # "server" => mem[job[t].who].man = disk.man
    /\ \A p \in Processes : \A t \in Threads :
          p # "server" /\ job[t].who # p => DOMAIN mem[p].man = {}

ServerWork(z) ==
    /\ z.who \in {"server", "cli"}
    /\ z.pc \in {"idle", "create", "gate", "verify", "save", "unlink"} => z.who = "server"
    /\ z.pc \in {"repair", "embed", "settle"} /\ z.back = "verify" => z.who = "server"

MarkFits(z) ==
    z.pc = "mark" => /\ z.doc.kind \in {"entry", "promoted"}
                     /\ z.doc \in DOMAIN file => file[z.doc] = z.text
                     /\ z.doc.kind = "promoted" => z.doc \in DOMAIN file

EmbedFits(z) ==
    z.pc \in {"embed", "settle"} =>
        /\ z.doc \in DOMAIN mem[z.who].man /\ mem[z.who].man[z.doc].sum = z.text
        /\ z.doc \in DOMAIN file => Older(z.doc, z.text, file[z.doc])
        /\ \A m \in Manifests : z.doc \in DOMAIN m => Older(z.doc, m[z.doc].sum, z.text)
        /\ z.pc = "settle" => z.doc \in DOMAIN vec /\ vec[z.doc] = z.text

TodoFits(z) ==
    z.pc = "refresh" \/ (z.pc \in {"embed", "settle"} /\ z.back = "refresh") =>
        /\ \A d \in z.todo : d \in DOMAIN mem[z.who].man /\ mem[z.who].man[d].status # "indexed"
        /\ z.pc # "refresh" => z.doc \notin z.todo

WriteFits(z) ==
    z.pc = "write" =>
        \A m \in Manifests : z.doc \in DOMAIN m =>
            /\ Below(z.doc, m[z.doc].sum, z.text) /\ m[z.doc].status # "deleted"
            /\ m[z.doc].status = "indexed" => z.doc \in DOMAIN vec

PublishFits(z) == z.pc = "publish" => PromotedDoc(Head(z.items).item) \notin DOMAIN file

JobFits(z) ==
    ServerWork(z) /\ MarkFits(z) /\ EmbedFits(z) /\ TodoFits(z) /\ WriteFits(z) /\ PublishFits(z)

IndexFits ==
    MemType /\ CopiesMeet /\ ManifestsSound /\ \A t \in Threads : JobFits(job[t])

IndexInv == BookInv /\ RanksFollow /\ IndexFits

\* A move writes a status above those of all copies.
LEMMA RankRises ==
    ASSUME BookInv, RanksFollow, NEW t \in Threads, NEW r, NEW old, NEW new, NEW x,
           MovesOn(t, r, old, new, x)
    PROVE  /\ new.kind = "collab" /\ new.id = r /\ IsText(x) /\ file' = Put(file, new, x)
           /\ \A e \in FilesOf(r) : file[e].version < x.version
           /\ \A e \in FilesOf(r) : Rank(e.status) < Rank(new.status)
<1>1. /\ old \in FilesOf(r) /\ old = Latest(r) /\ FilesOf(r) # {}
      /\ <<old.status, new.status>> \in Moves
  BY DEF MovesOn
<1>2. \A e \in FilesOf(r) : file[e].version <= file[old].version
  BY <1>1, LatestIsNewest DEF BookInv, FilesInv
<1>3. \A e \in FilesOf(r) : Rank(e.status) <= Rank(old.status)
  BY <1>1, <1>2 DEF RanksFollow
<1>4. Rank(old.status) < Rank(new.status)
  BY <1>1 DEF Moves, Rank
<1>5. \A e \in FilesOf(r) : Rank(e.status) < Rank(new.status)
  BY <1>3, <1>4 DEF Rank
<1>6. QED
  BY <1>5 DEF MovesOn

\* What is older than what is newer.
LEMMA OlderIsOrder ==
    ASSUME NEW d, NEW x, NEW y, NEW z, IsText(x), IsText(y), IsText(z), Older(d, x, y)
    PROVE  /\ Older(d, y, z) => Older(d, x, z)
           /\ Below(d, y, z) => Below(d, x, z)
           /\ Older(d, y, x) => x = y
           /\ ~Below(d, x, x)
BY DEF Older, Below, IsText

\* The ranks go on to follow the versions.
LEMMA RanksKept ==
    ASSUME BookInv, RanksFollow, OneThread, [RecNext]_recVars
    PROVE  RanksFollow'
<1>1. FilesInv /\ MovesFit /\ NewIsAsked /\ OldGoes /\ FilesType
  BY DEF BookInv, FilesInv
<1>2. CASE BookSame
  BY <1>2 DEF RanksFollow, BookSame
<1>3. ASSUME NEW d, NEW x, d.kind = "collab", IsText(x), file' = Put(file, d, x),
             \A e \in FilesOf(d.id) : /\ file[e].version < x.version
                                      /\ Rank(e.status) <= Rank(d.status)
      PROVE  RanksFollow'
  <2>1. /\ file'[d] = x /\ d \in FilesOf(d.id)'
        /\ \A e \in FilesOf(d.id) : e # d => e \in FilesOf(d.id)' /\ file'[e] = file[e]
        /\ \A q : q # d.id => FilesOf(q)' = FilesOf(q)
    BY <1>1, <1>3, CopyAdded
  <2>2. /\ DOMAIN file' = DOMAIN file \cup {d}
        /\ \A e \in DOMAIN file : e # d => file'[e] = file[e]
    BY <1>1, <1>3, FilePut
  <2>3. SUFFICES ASSUME NEW r, NEW e \in FilesOf(r)', NEW f \in FilesOf(r)',
                        file'[e].version <= file'[f].version
                 PROVE  Rank(e.status) <= Rank(f.status)
    BY DEF RanksFollow
  <2>4. CASE r # d.id
    <3>1. e \in FilesOf(r) /\ f \in FilesOf(r) /\ e # d /\ f # d
      BY <2>1, <2>3, <2>4 DEF FilesOf
    <3>2. file'[e] = file[e] /\ file'[f] = file[f]
      BY <2>2, <3>1 DEF FilesOf
    <3>3. QED
      BY <2>3, <3>1, <3>2 DEF RanksFollow
  <2>5. CASE r = d.id
    <3>1. \A g \in FilesOf(r)' : g = d \/ (g # d /\ g \in FilesOf(r) /\ file'[g] = file[g])
      BY <2>1, <2>2, <2>5 DEF FilesOf
    <3>2. \A g \in FilesOf(r) : file[g].version \in Nat
      BY <1>1, CopiesHaveVersions
    <3>3. x.version \in Nat
      BY <1>3 DEF IsText
    <3>4. CASE f = d
      <4>1. e = d \/ Rank(e.status) <= Rank(d.status)
        BY <1>3, <2>5, <3>1
      <4>2. QED
        BY <3>4, <4>1 DEF Rank
    <3>5. CASE f # d
      <4>1. f \in FilesOf(r) /\ file'[f] = file[f]
        BY <3>1, <3>5
      <4>2. file[f].version < x.version
        BY <1>3, <2>5, <4>1
      <4>3. e # d
        BY <2>1, <2>3, <3>2, <3>3, <4>1, <4>2
      <4>4. e \in FilesOf(r) /\ file'[e] = file[e]
        BY <3>1, <4>3
      <4>5. QED
        BY <2>3, <4>1, <4>4 DEF RanksFollow
    <3>6. QED
      BY <3>4, <3>5
  <2>6. QED
    BY <2>4, <2>5
<1>4. ASSUME NEW t \in Threads, Create(t) PROVE RanksFollow'
  <2>1. PICK r, x, place : /\ FilesOf(r) = {}
                           /\ file' = Put(file, Doc("collab", r, x.status, place),
                                          Text(x.task, x.author, 1, {}))
    BY <1>4 DEF Create
  <2>2. PICK d : d = Doc("collab", r, x.status, place)
    OBVIOUS
  <2>3. d.kind = "collab" /\ d.id = r
    BY <2>2 DEF Doc
  <2>4. IsText(Text(x.task, x.author, 1, {}))
    BY DEF IsText, Text
  <2>5. QED
    BY <1>3, <2>1, <2>2, <2>3, <2>4
<1>5. ASSUME NEW t \in Threads, Save(t) PROVE RanksFollow'
  <2>1. PICK r, old, new, x : MovesOn(t, r, old, new, x)
    BY <1>5, SaveAdds
  <2>2. /\ new.kind = "collab" /\ new.id = r /\ IsText(x) /\ file' = Put(file, new, x)
        /\ \A e \in FilesOf(r) : file[e].version < x.version
        /\ \A e \in FilesOf(r) : Rank(e.status) < Rank(new.status)
    BY <2>1, RankRises
  <2>3. \A e \in FilesOf(r) : Rank(e.status) <= Rank(new.status)
    BY <2>2 DEF Rank
  <2>4. QED
    BY <1>3, <2>2, <2>3
<1>6. ASSUME NEW t \in Threads, Unlink(t) PROVE RanksFollow'
  <2>1. PICK d : file' = Without(file, {d})
    BY <1>6 DEF Unlink
  <2>2. DOMAIN file' = DOMAIN file \ {d} /\ \A e \in DOMAIN file' : file'[e] = file[e]
    BY <1>1, <2>1, FileGone
  <2>3. \A r : \A e \in FilesOf(r)' : e \in FilesOf(r) /\ file'[e] = file[e]
    BY <2>2 DEF FilesOf
  <2>4. QED
    BY <2>3 DEF RanksFollow
<1>7. QED
  BY <1>1, <1>2, <1>4, <1>5, <1>6, FilesKept DEF RecordWrites

\* A job's process is one of the two.
LEMMA WhoIsThere ==
    ASSUME JobsType, NEW t \in Threads
    PROVE  job[t].who \in Processes
BY DEF JobsType, JobShape

\* The manifest is saved by a job.
LEMMA ManifestSaved ==
    ASSUME JobsType, MemType, CopiesMeet, OneThread, NEW t \in Threads, NEW m,
           SaveManifest(t, m), DOMAIN Man(t) \subseteq DOMAIN m, job'[t].who = job[t].who
    PROVE  /\ MemType' /\ CopiesMeet'
           /\ mem'[job[t].who].man = m /\ disk'.man = m
           /\ \A k \in Manifests' : k = m \/ k \in Manifests
<1>1. PICK w : w = job[t].who
  OBVIOUS
<1>2. w \in Processes
  BY <1>1, WhoIsThere
<1>3. /\ mem' = [mem EXCEPT ![w].man = m] /\ disk' = [disk EXCEPT !.man = m]
      /\ DOMAIN mem[w].man \subseteq DOMAIN m
  BY <1>1 DEF SaveManifest, Man
<1>4. DOMAIN mem' = Processes
  BY <1>3 DEF MemType
<1>5. mem'[w] = [man |-> m, queue |-> mem[w].queue]
  BY <1>2, <1>3 DEF MemType
<1>6. \A p \in Processes : p # w => mem'[p] = mem[p]
  BY <1>3 DEF MemType
<1>7. disk' = [man |-> m, queue |-> disk.queue]
  BY <1>3 DEF MemType
<1>8. MemType'
  BY <1>4, <1>5, <1>6, <1>7 DEF MemType
<1>9. mem'[w].man = m /\ disk'.man = m /\ \A p \in Processes : p # w => mem'[p].man = mem[p].man
  BY <1>5, <1>6, <1>7
<1>10. ASSUME NEW p \in Processes PROVE DOMAIN mem'[p].man \subseteq DOMAIN m
  <2>1. CASE p = w
    BY <1>9, <2>1
  <2>2. CASE p # w /\ p = "server"
    BY <1>1, <1>3, <1>9, <2>2 DEF CopiesMeet
  <2>3. CASE p # w /\ p # "server"
    BY <1>1, <1>9, <2>3 DEF CopiesMeet
  <2>4. QED
    BY <2>1, <2>2, <2>3
<1>11. \A s \in Threads : job'[s].who = w /\ job[s].who = w
  BY <1>1 DEF OneThread
<1>12. \A p \in Processes : p # "server" /\ p # w => DOMAIN mem'[p].man = {}
  BY <1>1, <1>9 DEF CopiesMeet
<1>13. CopiesMeet'
  BY <1>9, <1>10, <1>11, <1>12 DEF CopiesMeet
<1>14. \A k \in Manifests' : k = m \/ k \in Manifests
  BY <1>9 DEF Manifests
<1>15. QED
  BY <1>1, <1>8, <1>9, <1>13, <1>14

\* The manifests are the same.
ManifestsSame ==
    /\ disk'.man = disk.man /\ \A p \in Processes : mem'[p].man = mem[p].man
    /\ MemType'

\* The queue is saved, or nothing is.
LEMMA ManifestsAreLeft ==
    ASSUME MemType, NEW p \in Processes, NEW q,
           \/ mem' = [mem EXCEPT ![p].queue = q] /\ disk' = [disk EXCEPT !.queue = q]
           \/ UNCHANGED <<mem, disk>>
    PROVE  ManifestsSame
<1>1. CASE UNCHANGED <<mem, disk>>
  BY <1>1 DEF ManifestsSame, MemType
<1>2. CASE mem' = [mem EXCEPT ![p].queue = q] /\ disk' = [disk EXCEPT !.queue = q]
  <2>1. DOMAIN mem' = Processes
    BY <1>2 DEF MemType
  <2>2. mem'[p] = [man |-> mem[p].man, queue |-> q]
    BY <1>2 DEF MemType
  <2>3. \A w \in Processes : w # p => mem'[w] = mem[w]
    BY <1>2 DEF MemType
  <2>4. disk' = [man |-> disk.man, queue |-> q]
    BY <1>2 DEF MemType
  <2>5. MemType'
    BY <2>1, <2>2, <2>3, <2>4 DEF MemType
  <2>6. QED
    BY <2>2, <2>3, <2>4, <2>5 DEF ManifestsSame
<1>3. QED
  BY <1>1, <1>2

\* Who has which copy is the same.
LEMMA CopiesMeetOn ==
    ASSUME CopiesMeet, ManifestsSame, \A s \in Threads : job'[s].who = job[s].who, JobsType
    PROVE  CopiesMeet' /\ Manifests' = Manifests
<1>1. Manifests' = Manifests
  BY DEF ManifestsSame, Manifests
<1>2. \A s \in Threads : job[s].who \in Processes
  BY WhoIsThere
<1>3. CopiesMeet'
  BY <1>2 DEF ManifestsSame, CopiesMeet
<1>4. QED
  BY <1>1, <1>3

-----------------------------------------------------------------------------
\* A file is written above what the manifest knows of it.
LEMMA SoundWhenPut ==
    ASSUME FilesType, NEW m, Sound(m), NEW d, NEW x, IsText(x), file' = Put(file, d, x),
           UNCHANGED vec,
           d \in DOMAIN m => /\ Below(d, m[d].sum, x) /\ m[d].status # "deleted"
                             /\ m[d].status = "indexed" => d \in DOMAIN vec
    PROVE  Sound(m)'
<1>1. /\ DOMAIN file' = DOMAIN file \cup {d} /\ file'[d] = x
      /\ \A e \in DOMAIN file : e # d => file'[e] = file[e]
  BY FilePut
<1>2. \A r : FilesOf(r) \subseteq FilesOf(r)'
  BY <1>1 DEF FilesOf
<1>3. SUFFICES ASSUME NEW c \in DOMAIN m PROVE SoundEntry(c, m[c])'
  BY DEF Sound
<1>4. PICK e : e = m[c]
  OBVIOUS
<1>5. SoundEntry(c, e)
  BY <1>4 DEF Sound
<1>6. CASE c # d
  BY <1>1, <1>2, <1>4, <1>5, <1>6 DEF SoundEntry
<1>7. CASE c = d
  <2>1. Below(c, e.sum, x) /\ e.status # "deleted" /\ (e.status = "indexed" => c \in DOMAIN vec)
    BY <1>4, <1>7
  <2>2. Older(c, e.sum, x) /\ e.sum # x
    BY <1>5, <2>1, OlderIsOrder DEF Older, SoundEntry
  <2>3. QED
    BY <1>1, <1>2, <1>4, <1>5, <1>7, <2>1, <2>2 DEF SoundEntry
<1>8. QED
  BY <1>6, <1>7

\* A file is removed that is no record and was not promoted.
LEMMA SoundWhenGone ==
    ASSUME FilesType, NEW m, Sound(m), NEW d, file' = Without(file, {d}), UNCHANGED vec,
           d.kind # "promoted",
           d.kind = "collab" =>
               \E f \in FilesOf(d.id) : f # d /\ \A e \in FilesOf(d.id) : Rank(e.status) <= Rank(f.status)
    PROVE  Sound(m)'
<1>1. DOMAIN file' = DOMAIN file \ {d} /\ \A e \in DOMAIN file' : file'[e] = file[e]
  BY FileGone
<1>2. SUFFICES ASSUME NEW c \in DOMAIN m PROVE SoundEntry(c, m[c])'
  BY DEF Sound
<1>3. PICK e : e = m[c]
  OBVIOUS
<1>4. SoundEntry(c, e)
  BY <1>3 DEF Sound
<1>5. c.kind = "collab" => \E f \in FilesOf(c.id)' : Rank(c.status) <= Rank(f.status)
  <2>1. SUFFICES ASSUME c.kind = "collab" PROVE \E f \in FilesOf(c.id)' : Rank(c.status) <= Rank(f.status)
    OBVIOUS
  <2>2. PICK f \in FilesOf(c.id) : Rank(c.status) <= Rank(f.status)
    BY <1>4, <2>1 DEF SoundEntry
  <2>3. CASE f # d
    BY <1>1, <2>2, <2>3 DEF FilesOf
  <2>4. CASE f = d
    <3>1. d.kind = "collab" /\ d.id = c.id
      BY <2>2, <2>4 DEF FilesOf
    <3>2. PICK g \in FilesOf(d.id) : g # d /\ \A h \in FilesOf(d.id) : Rank(h.status) <= Rank(g.status)
      BY <3>1
    <3>3. g \in FilesOf(c.id)'
      BY <1>1, <3>1, <3>2 DEF FilesOf
    <3>4. Rank(f.status) <= Rank(g.status)
      BY <2>2, <3>1, <3>2
    <3>5. QED
      BY <2>2, <3>3, <3>4 DEF Rank
  <2>5. QED
    BY <2>3, <2>4
<1>6. QED
  BY <1>1, <1>3, <1>4, <1>5 DEF SoundEntry

\* A vector changes: it is of a document that is gone, or not indexed, or what the file holds.
LEMMA SoundWhenEmbedded ==
    ASSUME NEW m, Sound(m), UNCHANGED file,
           \A d \in DOMAIN m : d \in DOMAIN file /\ m[d].status = "indexed" =>
               d \in DOMAIN vec' /\ (m[d].sum = file[d] => vec'[d] = file[d])
    PROVE  Sound(m)'
<1>1. \A r : FilesOf(r)' = FilesOf(r)
  BY DEF FilesOf
<1>2. SUFFICES ASSUME NEW c \in DOMAIN m PROVE SoundEntry(c, m[c])'
  BY DEF Sound
<1>3. SoundEntry(c, m[c])
  BY DEF Sound
<1>4. QED
  BY <1>1, <1>3 DEF SoundEntry

\* Neither files nor vectors change.
LEMMA SoundOtherwise ==
    ASSUME UNCHANGED <<file, vec>>, NEW m
    PROVE  Sound(m)' <=> Sound(m)
<1>1. \A r : FilesOf(r)' = FilesOf(r)
  BY DEF FilesOf
<1>2. QED
  BY <1>1 DEF Sound, SoundEntry

\* One entry of a manifest changes.
LEMMA SoundButOne ==
    ASSUME NEW m, Sound(m), NEW k, NEW d,
           DOMAIN k = DOMAIN m \cup {d}, SoundEntry(d, k[d]),
           \A c \in DOMAIN m : c # d => k[c] = m[c]
    PROVE  Sound(k)
BY DEF Sound

-----------------------------------------------------------------------------
\* A document is marked.
LEMMA MarkIsSound ==
    ASSUME NEW m, Sound(m), NEW d, NEW x, IsText(x), d \in DOMAIN file => Older(d, x, file[d]),
           d.kind \in {"promoted", "collab"} => d \in DOMAIN file
    PROVE  /\ Sound(Mark(m, d, x)) /\ DOMAIN Mark(m, d, x) = DOMAIN m \cup {d}
           /\ SoundEntry(d, Mark(m, d, x)[d]) /\ Mark(m, d, x)[d].sum = x
<1>1. PICK s : s = IF d \notin DOMAIN m THEN "pending"
                   ELSE IF m[d].sum # x THEN "stale"
                   ELSE IF m[d].status \in {"failed", "deleted"} THEN "pending"
                   ELSE m[d].status
  OBVIOUS
<1>2. PICK e : e = [sum |-> x, status |-> s]
  OBVIOUS
<1>3. PICK k : k = [c \in DOMAIN m \cup {d} |-> IF c = d THEN e ELSE m[c]]
  OBVIOUS
<1>4. Mark(m, d, x) = k
  BY <1>1, <1>2, <1>3 DEF Mark, Put, Entry
<1>5. d \in DOMAIN m => SoundEntry(d, m[d])
  BY DEF Sound
<1>6. SoundEntry(d, e)
  <2>1. CASE d \in DOMAIN m /\ m[d].sum = x /\ m[d].status \notin {"failed", "deleted"}
    <3>1. PICK y : y = m[d]
      OBVIOUS
    <3>2. y = [sum |-> y.sum, status |-> y.status]
      BY <1>5, <2>1, <3>1 DEF SoundEntry
    <3>3. e = y
      BY <1>1, <1>2, <2>1, <3>1, <3>2
    <3>4. QED
      BY <1>5, <2>1, <3>1, <3>3
  <2>2. CASE s \in {"pending", "stale"}
    <3>1. e.sum = x /\ e.status = s
      BY <1>2
    <3>2. d.kind = "collab" => d \in FilesOf(d.id)
      BY DEF FilesOf
    <3>3. Rank(d.status) <= Rank(d.status)
      BY DEF Rank
    <3>4. QED
      BY <1>2, <2>2, <3>1, <3>2, <3>3 DEF SoundEntry
  <2>3. QED
    BY <1>1, <2>1, <2>2
<1>7. /\ DOMAIN k = DOMAIN m \cup {d} /\ k[d] = e
      /\ \A c \in DOMAIN m : c # d => k[c] = m[c]
  BY <1>3
<1>8. Sound(k)
  BY <1>6, <1>7, SoundButOne
<1>9. e.sum = x
  BY <1>2
<1>10. QED
  BY <1>4, <1>6, <1>7, <1>8, <1>9

\* A status is set.
LEMMA StatusIsSound ==
    ASSUME NEW m, Sound(m), NEW d \in DOMAIN m, NEW s \in {"failed", "deleted", "indexed"},
           d \in DOMAIN file => s # "deleted",
           d \in DOMAIN file /\ s = "indexed" =>
               d \in DOMAIN vec /\ (m[d].sum = file[d] => vec[d] = file[d])
    PROVE  /\ Sound(SetStatus(m, d, s)) /\ DOMAIN SetStatus(m, d, s) = DOMAIN m
           /\ SoundEntry(d, SetStatus(m, d, s)[d])
           /\ SetStatus(m, d, s)[d].sum = m[d].sum /\ SetStatus(m, d, s)[d].status = s
           /\ \A c \in DOMAIN m : c # d => SetStatus(m, d, s)[c] = m[c]
<1>1. PICK y : y = m[d]
  OBVIOUS
<1>2. SoundEntry(d, y)
  BY <1>1 DEF Sound
<1>3. y = [sum |-> y.sum, status |-> y.status]
  BY <1>2 DEF SoundEntry
<1>4. PICK k : k = SetStatus(m, d, s)
  OBVIOUS
<1>5. k = [m EXCEPT ![d] = [y EXCEPT !.status = s]]
  BY <1>1, <1>4 DEF SetStatus
<1>6. [y EXCEPT !.status = s] = [sum |-> y.sum, status |-> s]
  BY <1>3
<1>7. PICK e : e = [sum |-> y.sum, status |-> s]
  OBVIOUS
<1>8. DOMAIN k = DOMAIN m /\ k[d] = e /\ \A c \in DOMAIN m : c # d => k[c] = m[c]
  BY <1>5, <1>6, <1>7
<1>9. e.sum = y.sum /\ e.status = s
  BY <1>7
<1>10. SoundEntry(d, e)
  BY <1>1, <1>2, <1>7, <1>9 DEF SoundEntry
<1>11. Sound(k)
  BY <1>8, <1>10, SoundButOne
<1>12. QED
  BY <1>1, <1>4, <1>8, <1>9, <1>10, <1>11

\* What a refresh takes up is in the manifest and not indexed.
LEMMA QueueIsDirty ==
    ASSUME NEW m, NEW limit, NEW Q \in Queues(m, limit), NEW d \in Q
    PROVE  d \in DOMAIN m /\ m[d].status # "indexed"
<1>1. PICK all : all = UNION {Dirty(m, s) : s \in {"pending", "stale", "failed", "deleted"}}
  OBVIOUS
<1>2. Q \subseteq all
  BY <1>1 DEF Queues
<1>3. \A c \in all : \E s \in {"pending", "stale", "failed", "deleted"} : c \in Dirty(m, s)
  BY <1>1
<1>4. PICK s \in {"pending", "stale", "failed", "deleted"} : d \in Dirty(m, s)
  BY <1>2, <1>3
<1>5. QED
  BY <1>4 DEF Dirty

\* One thread: what holds of its job holds of all.
LEMMA FitsOfOne ==
    ASSUME OneThread, NEW t \in Threads, MemType', CopiesMeet', ManifestsSound', JobFits(job[t])'
    PROVE  IndexFits'
<1>1. \A s \in Threads : s = t
  BY DEF OneThread
<1>2. QED
  BY <1>1 DEF IndexFits

\* Nothing is under way that a clause is about.
LEMMA FitsFreely ==
    ASSUME NEW t \in Threads, ServerWork(job'[t]),
           job'[t].pc \notin {"mark", "embed", "settle", "refresh", "write", "publish"}
    PROVE  JobFits(job[t])'
BY DEF JobFits, ServerWork, MarkFits, EmbedFits, TodoFits, WriteFits, PublishFits

\* Only the manifest changes.
LEMMA ManifestStep ==
    ASSUME BookInv, IndexFits, OneThread, NEW t \in Threads, NEW m, SaveManifest(t, m),
           UNCHANGED <<file, vec>>, DOMAIN Man(t) \subseteq DOMAIN m, Sound(m),
           job'[t].who = job[t].who
    PROVE  /\ MemType' /\ CopiesMeet' /\ ManifestsSound'
           /\ mem'[job[t].who].man = m
           /\ \A k \in Manifests' : k = m \/ k \in Manifests
<1>1. JobsType /\ MemType /\ CopiesMeet /\ ManifestsSound
  BY DEF BookInv, FilesInv, IndexFits
<1>2. /\ MemType' /\ CopiesMeet' /\ mem'[job[t].who].man = m
      /\ \A k \in Manifests' : k = m \/ k \in Manifests
  BY <1>1, ManifestSaved
<1>3. \A k : Sound(k)' <=> Sound(k)
  BY SoundOtherwise
<1>4. ManifestsSound'
  BY <1>1, <1>2, <1>3 DEF ManifestsSound
<1>5. QED
  BY <1>2, <1>4

\* The vectors change with the manifest, those of files that are indexed stay.
LEMMA VectorStep ==
    ASSUME BookInv, IndexFits, OneThread, NEW t \in Threads, NEW m, SaveManifest(t, m),
           UNCHANGED file, DOMAIN Man(t) \subseteq DOMAIN m, Sound(m),
           \A d \in DOMAIN file \cap DOMAIN vec : d \in DOMAIN m => d \in DOMAIN vec' /\ vec'[d] = vec[d],
           DOMAIN file \cap DOMAIN disk.man \subseteq DOMAIN m,
           job'[t].who = job[t].who
    PROVE  /\ MemType' /\ CopiesMeet' /\ ManifestsSound'
           /\ mem'[job[t].who].man = m
           /\ \A k \in Manifests' : k = m \/ k \in Manifests
<1>1. JobsType /\ MemType /\ CopiesMeet /\ ManifestsSound
  BY DEF BookInv, FilesInv, IndexFits
<1>2. /\ MemType' /\ CopiesMeet' /\ mem'[job[t].who].man = m
      /\ \A k \in Manifests' : k = m \/ k \in Manifests
  BY <1>1, ManifestSaved
<1>3. ASSUME NEW k, Sound(k), DOMAIN k \subseteq DOMAIN disk.man \cup DOMAIN m PROVE Sound(k)'
  <2>1. ASSUME NEW d \in DOMAIN k, d \in DOMAIN file, k[d].status = "indexed"
        PROVE  d \in DOMAIN vec' /\ (k[d].sum = file[d] => vec'[d] = file[d])
    <3>1. d \in DOMAIN vec /\ (k[d].sum = file[d] => vec[d] = file[d])
      BY <1>3, <2>1 DEF Sound, SoundEntry
    <3>2. d \in DOMAIN m
      BY <1>3, <2>1
    <3>3. QED
      BY <2>1, <3>1, <3>2
  <2>2. QED
    BY <1>3, <2>1, SoundWhenEmbedded
<1>4. \A k \in Manifests : DOMAIN k \subseteq DOMAIN disk.man
  BY <1>1 DEF Manifests, CopiesMeet
<1>5. ManifestsSound'
  BY <1>1, <1>2, <1>3, <1>4 DEF ManifestsSound
<1>6. QED
  BY <1>2, <1>5

\* The manifests stay, and so do files and vectors.
LEMMA QuietStep ==
    ASSUME BookInv, IndexFits, OneThread, NEW t \in Threads, ManifestsSame,
           UNCHANGED <<file, vec>>, job'[t].who = job[t].who
    PROVE  MemType' /\ CopiesMeet' /\ ManifestsSound' /\ Manifests' = Manifests
<1>1. JobsType /\ MemType /\ CopiesMeet /\ ManifestsSound
  BY DEF BookInv, FilesInv, IndexFits
<1>2. \A s \in Threads : job'[s].who = job[s].who
  BY DEF OneThread
<1>3. CopiesMeet' /\ Manifests' = Manifests
  BY <1>1, <1>2, CopiesMeetOn
<1>4. \A k : Sound(k)' <=> Sound(k)
  BY SoundOtherwise
<1>5. ManifestsSound'
  BY <1>1, <1>3, <1>4 DEF ManifestsSound
<1>6. QED
  BY <1>3, <1>5 DEF ManifestsSame

\* A file changes, and each manifest is sound with it.
LEMMA FileStep ==
    ASSUME BookInv, IndexFits, \A s \in Threads : job'[s].who = job[s].who,
           UNCHANGED <<mem, disk>>, \A m \in Manifests : Sound(m)'
    PROVE  MemType' /\ CopiesMeet' /\ ManifestsSound' /\ Manifests' = Manifests
<1>1. JobsType /\ MemType /\ CopiesMeet
  BY DEF BookInv, FilesInv, IndexFits
<1>2. ManifestsSame
  BY <1>1 DEF ManifestsSame, MemType
<1>3. CopiesMeet' /\ Manifests' = Manifests
  BY <1>1, <1>2, CopiesMeetOn
<1>4. QED
  BY <1>2, <1>3 DEF ManifestsSame, ManifestsSound

-----------------------------------------------------------------------------
\* What an index step starts from.
LEMMA AtWork ==
    ASSUME BookInv, IndexFits, NEW t \in Threads
    PROVE  /\ JobsType /\ FilesType /\ MemType /\ CopiesMeet /\ ManifestsSound /\ FilesInv
           /\ JobShape(job[t]) /\ JobWay(job[t]) /\ job[t].who \in Processes
           /\ ServerWork(job[t]) /\ MarkFits(job[t]) /\ EmbedFits(job[t]) /\ TodoFits(job[t])
           /\ WriteFits(job[t]) /\ PublishFits(job[t])
           /\ Man(t) = mem[job[t].who].man /\ Man(t) \in Manifests /\ Sound(Man(t))
           /\ DOMAIN Man(t) \subseteq DOMAIN disk.man
<1>1. JobsType /\ FilesType /\ MemType /\ CopiesMeet /\ ManifestsSound /\ FilesInv
  BY DEF BookInv, FilesInv, IndexFits
<1>2. JobShape(job[t]) /\ JobWay(job[t]) /\ job[t].who \in Processes
  BY <1>1 DEF JobsType, JobShape
<1>3. /\ ServerWork(job[t]) /\ MarkFits(job[t]) /\ EmbedFits(job[t]) /\ TodoFits(job[t])
      /\ WriteFits(job[t]) /\ PublishFits(job[t])
  BY DEF IndexFits, JobFits
<1>4. Man(t) = mem[job[t].who].man /\ Man(t) \in Manifests
  BY <1>2 DEF Man, Manifests
<1>5. Sound(Man(t)) /\ DOMAIN Man(t) \subseteq DOMAIN disk.man
  BY <1>1, <1>2, <1>4 DEF ManifestsSound, CopiesMeet
<1>6. QED
  BY <1>1, <1>2, <1>3, <1>4, <1>5

\* A document is marked after it was written.
LEMMA MarkStepFits ==
    ASSUME BookInv, IndexFits, OneThread, NEW t \in Threads, MarkStep(t)
    PROVE  IndexFits'
<1>1. /\ JobsType /\ JobShape(job[t]) /\ JobWay(job[t]) /\ ServerWork(job[t]) /\ MarkFits(job[t])
      /\ Sound(Man(t))
  BY AtWork
<1>2. PICK d, x : d = job[t].doc /\ x = job[t].text
  OBVIOUS
<1>3. PICK old, m : old = Man(t) /\ m = Mark(old, d, x)
  OBVIOUS
<1>4. /\ job[t].pc = "mark" /\ SaveManifest(t, m) /\ Go(t, job[t].then) /\ UNCHANGED <<file, vec>>
  BY <1>2, <1>3 DEF MarkStep, At
<1>5. IsText(x) /\ (d \in DOMAIN file => Older(d, x, file[d]))
  BY <1>1, <1>2, <1>4 DEF JobShape, MarkFits, Older
<1>6. d.kind \in {"promoted", "collab"} => d \in DOMAIN file
  BY <1>1, <1>2, <1>4 DEF MarkFits
<1>7. Sound(m) /\ DOMAIN Man(t) \subseteq DOMAIN m
  <2>1. Sound(old)
    BY <1>1, <1>3
  <2>2. Sound(Mark(old, d, x)) /\ DOMAIN Mark(old, d, x) = DOMAIN old \cup {d}
    BY <2>1, <1>5, <1>6, MarkIsSound
  <2>3. QED
    BY <1>3, <2>2
<1>8. /\ job'[t].pc = job[t].then /\ job'[t].who = job[t].who /\ job'[t].back = job[t].back
  BY <1>1, <1>4, JobGoes
<1>9. MemType' /\ CopiesMeet' /\ ManifestsSound'
  BY <1>4, <1>7, <1>8, ManifestStep
<1>10. \/ job[t].then = "repair" /\ job[t].back = "end"
       \/ job[t].then = "pick"
  BY <1>1, <1>4 DEF JobWay
<1>11. ServerWork(job'[t])
  BY <1>1, <1>8, <1>10 DEF ServerWork
<1>12. JobFits(job[t])'
  BY <1>8, <1>10, <1>11, FitsFreely
<1>13. QED
  BY <1>9, <1>12, FitsOfOne

\* A vector is dropped.
LEMMA DropFits ==
    ASSUME BookInv, IndexFits, OneThread, NEW t \in Threads, NEW d \in DOMAIN Man(t),
           d \notin DOMAIN file, DropVector(t, d), UNCHANGED file, job'[t].who = job[t].who
    PROVE  /\ MemType' /\ CopiesMeet' /\ ManifestsSound'
           /\ mem'[job[t].who].man = SetStatus(Man(t), d, "deleted")
           /\ DOMAIN SetStatus(Man(t), d, "deleted") = DOMAIN Man(t)
           /\ \A c \in DOMAIN Man(t) : c # d => SetStatus(Man(t), d, "deleted")[c] = Man(t)[c]
<1>1. JobsType /\ MemType /\ CopiesMeet /\ ManifestsSound /\ Sound(Man(t))
  BY AtWork
<1>2. PICK m : m = SetStatus(Man(t), d, "deleted")
  OBVIOUS
<1>3. /\ Sound(m) /\ DOMAIN m = DOMAIN Man(t)
      /\ \A c \in DOMAIN Man(t) : c # d => m[c] = Man(t)[c]
  BY <1>1, <1>2, StatusIsSound
<1>4. vec' = [c \in DOMAIN vec \ {d} |-> vec[c]] /\ SaveManifest(t, m)
  BY <1>2 DEF DropVector, Without, Restrict
<1>5. \A c \in DOMAIN vec : c \in DOMAIN file => c \in DOMAIN vec' /\ vec'[c] = vec[c]
  BY <1>4
<1>6. /\ MemType' /\ CopiesMeet' /\ mem'[job[t].who].man = m
      /\ \A k \in Manifests' : k = m \/ k \in Manifests
  BY <1>1, <1>3, <1>4, ManifestSaved
<1>7. ASSUME NEW k, Sound(k) PROVE Sound(k)'
  <2>1. \A c \in DOMAIN k : c \in DOMAIN file /\ k[c].status = "indexed" =>
            c \in DOMAIN vec' /\ (k[c].sum = file[c] => vec'[c] = file[c])
    BY <1>5, <1>7 DEF Sound, SoundEntry
  <2>2. QED
    BY <1>7, <2>1, SoundWhenEmbedded
<1>8. ManifestsSound'
  BY <1>1, <1>3, <1>6, <1>7 DEF ManifestsSound
<1>9. QED
  BY <1>2, <1>3, <1>6, <1>8

\* A file's entry is brought up to date and its text is taken up.
LEMMA TakenUp ==
    ASSUME BookInv, IndexFits, OneThread, NEW t \in Threads, NEW d \in DOMAIN file, NEW m,
           SaveManifest(t, m), DOMAIN m = DOMAIN Man(t) \cup {d}, Sound(m), m[d].sum = file[d],
           UNCHANGED <<file, vec>>, job'[t].who = job[t].who,
           job'[t].pc = "embed", job'[t].doc = d, job'[t].text = file[d]
    PROVE  /\ MemType' /\ CopiesMeet' /\ ManifestsSound' /\ EmbedFits(job[t])'
           /\ mem'[job[t].who].man = m
<1>1. ManifestsSound
  BY AtWork
<1>2. /\ MemType' /\ CopiesMeet' /\ ManifestsSound' /\ mem'[job[t].who].man = m
      /\ \A k \in Manifests' : k = m \/ k \in Manifests
  BY ManifestStep
<1>3. \A k \in Manifests' : d \in DOMAIN k => Older(d, k[d].sum, file[d])
  BY <1>1, <1>2 DEF ManifestsSound, Sound, SoundEntry, Older
<1>4. Older(d, file[d], file[d])
  BY DEF Older
<1>5. EmbedFits(job[t])'
  BY <1>2, <1>3, <1>4 DEF EmbedFits
<1>6. QED
  BY <1>2, <1>5

\* One document is indexed again, or its vector dropped.
LEMMA RepairStepFits ==
    ASSUME BookInv, IndexFits, OneThread, NEW t \in Threads, RepairStep(t)
    PROVE  IndexFits'
<1>1. /\ JobsType /\ FilesType /\ JobWay(job[t]) /\ ServerWork(job[t]) /\ Sound(Man(t))
      /\ MemType
  BY AtWork
<1>2. PICK d : d = job[t].doc
  OBVIOUS
<1>3. job[t].pc = "repair" /\ job[t].back \in {"end", "verify"} /\ UNCHANGED file
  BY <1>1 DEF RepairStep, At, JobWay
<1>4. ASSUME Go(t, job[t].back), MemType', CopiesMeet', ManifestsSound' PROVE IndexFits'
  <2>1. job'[t].pc = job[t].back /\ job'[t].who = job[t].who /\ job'[t].back = job[t].back
    BY <1>1, <1>4, JobGoes
  <2>2. ServerWork(job'[t])
    BY <1>1, <1>3, <2>1 DEF ServerWork
  <2>3. JobFits(job[t])'
    BY <1>3, <2>1, <2>2, FitsFreely
  <2>4. QED
    BY <1>4, <2>3, FitsOfOne
<1>5. CASE /\ d \in DOMAIN file
           /\ SaveManifest(t, Put(Man(t), d, Entry(file[d], "stale")))
           /\ job' = [job EXCEPT ![t].pc = "embed", ![t].text = file[d]]
           /\ UNCHANGED vec
  <2>1. PICK x : x = file[d]
    OBVIOUS
  <2>2. IsText(x)
    BY <1>1, <1>5, <2>1 DEF FilesType
  <2>3. PICK z : z = [job[t] EXCEPT !.pc = "embed", !.text = x]
    OBVIOUS
  <2>4. /\ job'[t].pc = "embed" /\ job'[t].text = x /\ job'[t].doc = job[t].doc
        /\ job'[t].who = job[t].who /\ job'[t].back = job[t].back
    <3>1. job' = [job EXCEPT ![t] = z]
      BY <1>5, <2>1, <2>3
    <3>2. job'[t] = z
      BY <1>1, <3>1, JobIsPut
    <3>3. JobShape(job[t])
      BY <1>1 DEF JobsType
    <3>4. /\ z.pc = "embed" /\ z.text = x /\ z.doc = job[t].doc /\ z.who = job[t].who
          /\ z.back = job[t].back
      BY <2>3, <3>3 DEF JobShape
    <3>5. QED
      BY <3>2, <3>4
  <2>5. PICK e : e = [sum |-> x, status |-> "stale"]
    OBVIOUS
  <2>6. PICK m : m = [c \in DOMAIN Man(t) \cup {d} |-> IF c = d THEN e ELSE Man(t)[c]]
    OBVIOUS
  <2>7. SaveManifest(t, m)
    BY <1>5, <2>1, <2>5, <2>6 DEF Put, Entry
  <2>8. /\ DOMAIN m = DOMAIN Man(t) \cup {d} /\ m[d] = e
        /\ \A c \in DOMAIN Man(t) : c # d => m[c] = Man(t)[c]
    BY <2>6
  <2>9. e.sum = x /\ e.status = "stale"
    BY <2>5
  <2>10. d.kind = "collab" => d \in FilesOf(d.id) /\ Rank(d.status) <= Rank(d.status)
    BY <1>5 DEF FilesOf, Rank
  <2>11. SoundEntry(d, e)
    BY <1>5, <2>1, <2>2, <2>5, <2>9, <2>10 DEF SoundEntry, Older
  <2>12. Sound(m)
    BY <1>1, <2>8, <2>11, SoundButOne
  <2>13. MemType' /\ CopiesMeet' /\ ManifestsSound' /\ EmbedFits(job[t])'
    <3>1. d \in DOMAIN file /\ UNCHANGED <<file, vec>> /\ m[d].sum = file[d]
      BY <1>3, <1>5, <2>1, <2>8, <2>9
    <3>2. DOMAIN m = DOMAIN Man(t) \cup {d}
      BY <2>8
    <3>3. job'[t].who = job[t].who /\ job'[t].pc = "embed" /\ job'[t].doc = d /\ job'[t].text = file[d]
      BY <1>2, <2>1, <2>4
    <3>4. QED
      BY <2>7, <2>12, <3>1, <3>2, <3>3, TakenUp
  <2>14. ServerWork(job'[t])
    BY <1>1, <1>3, <2>4 DEF ServerWork
  <2>15. JobFits(job[t])'
    BY <1>3, <2>4, <2>13, <2>14 DEF JobFits, ServerWork, MarkFits, TodoFits, WriteFits, PublishFits
  <2>16. QED
    BY <2>13, <2>15, FitsOfOne
<1>6. CASE d \notin DOMAIN file /\ d \in DOMAIN Man(t) /\ DropVector(t, d) /\ Go(t, job[t].back)
  <2>1. job'[t].who = job[t].who
    BY <1>1, <1>6, JobGoes
  <2>2. MemType' /\ CopiesMeet' /\ ManifestsSound'
    BY <1>3, <1>6, <2>1, DropFits
  <2>3. QED
    BY <1>4, <1>6, <2>2
<1>7. CASE Go(t, job[t].back) /\ UNCHANGED <<vec, mem, disk>>
  <2>1. job'[t].who = job[t].who
    BY <1>1, <1>7, JobGoes
  <2>2. ManifestsSame
    BY <1>1, <1>7 DEF ManifestsSame, MemType
  <2>3. MemType' /\ CopiesMeet' /\ ManifestsSound'
    BY <1>3, <1>7, <2>1, <2>2, QuietStep
  <2>4. QED
    BY <1>4, <1>7, <2>3
<1>8. QED
  BY <1>2, <1>5, <1>6, <1>7 DEF RepairStep

-----------------------------------------------------------------------------
\* One process's copy is replaced.
LEMMA CopyPut ==
    ASSUME MemType, NEW p \in Processes, NEW c, c = [man |-> c.man, queue |-> c.queue],
           mem' = [mem EXCEPT ![p] = c], UNCHANGED disk
    PROVE  /\ MemType' /\ mem'[p] = c /\ \A q \in Processes : q # p => mem'[q] = mem[q]
           /\ \A k \in Manifests' : k = c.man \/ k \in Manifests
<1>1. /\ DOMAIN mem' = Processes /\ mem'[p] = c
      /\ \A q \in Processes : q # p => mem'[q] = mem[q]
  BY DEF MemType
<1>2. \A q \in Processes : mem'[q] = [man |-> mem'[q].man, queue |-> mem'[q].queue]
  BY <1>1 DEF MemType
<1>3. MemType'
  BY <1>1, <1>2 DEF MemType
<1>4. \A k \in Manifests' : k = c.man \/ k \in Manifests
  BY <1>1 DEF Manifests
<1>5. QED
  BY <1>1, <1>3, <1>4

\* A process starts with what is on disk, or it is gone and its copy with it.
CopyGoes(t, p, c) ==
    /\ p \in Processes /\ c \in {disk, Blank} /\ mem' = [mem EXCEPT ![p] = c]
    /\ job'[t].who # "server" => p = job'[t].who /\ c = disk
    /\ \A q \in Processes : q # "server" /\ job'[t].who # q =>
          \/ job[t].who # q /\ q # p
          \/ q = p /\ c = Blank

\* Such a copy is sound, and the command's meets the file.
LEMMA CopyStep ==
    ASSUME BookInv, IndexFits, OneThread, NEW t \in Threads, NEW p, NEW c, CopyGoes(t, p, c),
           UNCHANGED <<file, vec, disk>>
    PROVE  MemType' /\ CopiesMeet' /\ ManifestsSound'
<1>1. MemType /\ CopiesMeet /\ ManifestsSound
  BY DEF IndexFits
<1>2. DOMAIN Blank.man = {} /\ Blank = [man |-> Blank.man, queue |-> Blank.queue]
  BY DEF Blank
<1>3. c = [man |-> c.man, queue |-> c.queue] /\ p \in Processes /\ mem' = [mem EXCEPT ![p] = c]
  BY <1>1, <1>2 DEF CopyGoes, MemType
<1>4. /\ MemType' /\ mem'[p] = c /\ \A q \in Processes : q # p => mem'[q] = mem[q]
      /\ \A k \in Manifests' : k = c.man \/ k \in Manifests
  BY <1>1, <1>3, CopyPut
<1>5. \A s \in Threads : s = t
  BY DEF OneThread
<1>6. \A q \in Processes : DOMAIN mem'[q].man \subseteq DOMAIN disk.man
  BY <1>1, <1>2, <1>4 DEF CopiesMeet, CopyGoes
<1>7. \A q \in Processes : q # "server" /\ job'[t].who # q => DOMAIN mem'[q].man = {}
  BY <1>1, <1>2, <1>4 DEF CopiesMeet, CopyGoes
<1>8. job'[t].who # "server" => mem'[job'[t].who].man = disk.man
  BY <1>4 DEF CopyGoes
<1>9. CopiesMeet'
  BY <1>5, <1>6, <1>7, <1>8 DEF CopiesMeet
<1>10. \A k : Sound(k)' <=> Sound(k)
  BY SoundOtherwise
<1>11. Sound(c.man)
  BY <1>1, <1>2 DEF CopyGoes, ManifestsSound, Manifests, Sound
<1>12. ManifestsSound'
  BY <1>1, <1>4, <1>10, <1>11 DEF ManifestsSound
<1>13. QED
  BY <1>4, <1>9, <1>12

\* A job ends, and with a command its copy.
LEMMA FinishFits ==
    ASSUME BookInv, IndexFits, OneThread, NEW t \in Threads, Finish(t)
    PROVE  IndexFits'
<1>1. JobsType /\ MemType /\ job[t].who \in Processes /\ ServerWork(job[t])
  BY AtWork
<1>2. job'[t] = Idle /\ UNCHANGED <<file, vec, disk>>
  BY <1>1, JobEnds DEF Finish
<1>3. job'[t].who = "server" /\ job'[t].pc = "idle"
  BY <1>2 DEF Idle
<1>4. JobFits(job[t])'
  <2>1. ServerWork(job'[t])
    BY <1>3 DEF ServerWork
  <2>2. QED
    BY <1>3, <2>1, FitsFreely
<1>5. MemType' /\ CopiesMeet' /\ ManifestsSound'
  <2>1. CASE job[t].who = "cli"
    <3>1. mem' = [mem EXCEPT !["cli"] = Blank] /\ "cli" \in Processes
      BY <1>1, <2>1 DEF Finish
    <3>2. CopyGoes(t, "cli", Blank)
      BY <1>3, <2>1, <3>1 DEF CopyGoes
    <3>3. QED
      BY <1>2, <3>2, CopyStep
  <2>2. CASE job[t].who # "cli"
    <3>1. UNCHANGED mem /\ job'[t].who = job[t].who
      BY <1>1, <1>3, <2>2 DEF Finish, ServerWork
    <3>2. ManifestsSame
      BY <1>1, <1>2, <3>1 DEF ManifestsSame, MemType
    <3>3. QED
      BY <1>2, <3>1, <3>2, QuietStep
  <2>3. QED
    BY <2>1, <2>2
<1>6. QED
  BY <1>4, <1>5, FitsOfOne

\* A text is embedded: no manifest knows of a later one but the file.
LEMMA EmbedStepFits ==
    ASSUME BookInv, IndexFits, OneThread, NEW t \in Threads, Embed(t)
    PROVE  IndexFits'
<1>1. /\ JobsType /\ FilesType /\ JobShape(job[t]) /\ MemType /\ CopiesMeet /\ ManifestsSound
      /\ ServerWork(job[t]) /\ EmbedFits(job[t]) /\ TodoFits(job[t])
  BY AtWork
<1>2. PICK d, x : d = job[t].doc /\ x = job[t].text
  OBVIOUS
<1>3. job[t].pc = "embed" /\ Go(t, "settle") /\ UNCHANGED <<file, mem, disk>>
  BY DEF Embed, At
<1>4. vec' = [c \in DOMAIN vec \cup {d} |-> IF c = d THEN x ELSE vec[c]]
  BY <1>2 DEF Embed, Put
<1>5. /\ d \in DOMAIN vec' /\ vec'[d] = x
      /\ \A c \in DOMAIN vec : c \in DOMAIN vec' /\ (c # d => vec'[c] = vec[c])
  BY <1>4
<1>6. /\ job'[t].pc = "settle" /\ job'[t].who = job[t].who /\ job'[t].doc = d
      /\ job'[t].text = x /\ job'[t].back = job[t].back /\ job'[t].todo = job[t].todo
  BY <1>1, <1>2, <1>3, JobGoes
<1>7. /\ d \in DOMAIN file => Older(d, x, file[d]) /\ IsText(file[d])
      /\ IsText(x) /\ \A m \in Manifests : d \in DOMAIN m => Older(d, m[d].sum, x)
  BY <1>1, <1>2, <1>3 DEF EmbedFits, JobShape, FilesType
<1>8. ASSUME NEW m \in Manifests PROVE Sound(m)'
  <2>1. Sound(m)
    BY <1>1 DEF ManifestsSound
  <2>2. ASSUME NEW c \in DOMAIN m, c \in DOMAIN file, m[c].status = "indexed"
        PROVE  c \in DOMAIN vec' /\ (m[c].sum = file[c] => vec'[c] = file[c])
    <3>1. c \in DOMAIN vec /\ (m[c].sum = file[c] => vec[c] = file[c])
      BY <2>1, <2>2 DEF Sound, SoundEntry
    <3>2. CASE c # d
      BY <1>5, <3>1, <3>2
    <3>3. CASE c = d
      <4>1. Older(d, m[d].sum, x) /\ Older(d, x, file[d]) /\ IsText(file[d]) /\ IsText(x)
        BY <1>7, <2>2, <3>3
      <4>2. m[d].sum = file[d] => x = file[d]
        BY <4>1, OlderIsOrder
      <4>3. QED
        BY <1>5, <3>3, <4>2
    <3>4. QED
      BY <3>2, <3>3
  <2>3. QED
    BY <1>3, <2>1, <2>2, SoundWhenEmbedded
<1>9. \A s \in Threads : job'[s].who = job[s].who
  BY <1>6 DEF OneThread
<1>10. MemType' /\ CopiesMeet' /\ ManifestsSound' /\ Manifests' = Manifests
  BY <1>3, <1>8, <1>9, FileStep
<1>11. EmbedFits(job[t])'
  <2>1. /\ job'[t].doc \in DOMAIN mem[job'[t].who].man
        /\ mem[job'[t].who].man[job'[t].doc].sum = job'[t].text
    BY <1>1, <1>2, <1>3, <1>6 DEF EmbedFits
  <2>2. QED
    BY <1>3, <1>5, <1>6, <1>7, <1>10, <2>1 DEF EmbedFits
<1>12. TodoFits(job[t])'
  BY <1>1, <1>2, <1>3, <1>6 DEF TodoFits
<1>13. ServerWork(job'[t])
  BY <1>1, <1>3, <1>6 DEF ServerWork
<1>14. JobFits(job[t])'
  BY <1>6, <1>11, <1>12, <1>13 DEF JobFits, ServerWork, MarkFits, WriteFits, PublishFits
<1>15. QED
  BY <1>10, <1>14, FitsOfOne

\* The status of the document that was taken up is set.
LEMMA StatusStepFits ==
    ASSUME BookInv, IndexFits, OneThread, NEW t \in Threads, NEW s \in {"failed", "indexed"},
           job[t].pc \in {"embed", "settle"}, s = "indexed" => job[t].pc = "settle",
           SaveManifest(t, SetStatus(Man(t), job[t].doc, s)), Go(t, job[t].back),
           UNCHANGED <<file, vec>>
    PROVE  IndexFits'
<1>1. /\ JobsType /\ JobWay(job[t]) /\ ServerWork(job[t]) /\ EmbedFits(job[t]) /\ TodoFits(job[t])
      /\ Man(t) = mem[job[t].who].man /\ Sound(Man(t))
  BY AtWork
<1>2. PICK d, old : d = job[t].doc /\ old = Man(t)
  OBVIOUS
<1>3. PICK m : m = SetStatus(old, d, s)
  OBVIOUS
<1>4. d \in DOMAIN old /\ old[d].sum = job[t].text
  BY <1>1, <1>2 DEF EmbedFits
<1>5. s = "indexed" => d \in DOMAIN vec /\ (old[d].sum = file[d] => vec[d] = file[d])
  BY <1>1, <1>2, <1>4 DEF EmbedFits
<1>6. Sound(m) /\ DOMAIN m = DOMAIN old /\ \A c \in DOMAIN old : c # d => m[c] = old[c]
  <2>1. Sound(old) /\ s \in {"failed", "deleted", "indexed"} /\ s # "deleted"
    BY <1>1, <1>2
  <2>2. QED
    BY <1>3, <1>4, <1>5, <2>1, StatusIsSound
<1>7. SaveManifest(t, m) /\ DOMAIN Man(t) \subseteq DOMAIN m
  BY <1>2, <1>3, <1>6
<1>8. /\ job'[t].pc = job[t].back /\ job'[t].who = job[t].who /\ job'[t].back = job[t].back
      /\ job'[t].todo = job[t].todo
  BY <1>1, JobGoes
<1>9. /\ MemType' /\ CopiesMeet' /\ ManifestsSound' /\ mem'[job[t].who].man = m
  BY <1>6, <1>7, <1>8, ManifestStep
<1>10. job[t].back \in {"end", "verify", "refresh"}
  BY <1>1 DEF JobWay
<1>11. ServerWork(job'[t])
  BY <1>1, <1>8, <1>10 DEF ServerWork
<1>12. TodoFits(job[t])'
  <2>1. SUFFICES ASSUME job'[t].pc = "refresh"
                 PROVE \A c \in job[t].todo : c \in DOMAIN m /\ m[c].status # "indexed"
    BY <1>8, <1>9, <1>10 DEF TodoFits
  <2>2. /\ \A c \in job[t].todo : c \in DOMAIN old /\ old[c].status # "indexed"
        /\ d \notin job[t].todo
    BY <1>1, <1>2, <1>8, <2>1 DEF TodoFits
  <2>3. QED
    BY <1>6, <2>2
<1>13. JobFits(job[t])'
  BY <1>8, <1>10, <1>11, <1>12 DEF JobFits, ServerWork, MarkFits, EmbedFits, WriteFits, PublishFits
<1>14. QED
  BY <1>9, <1>13, FitsOfOne

\* An embedding failed, or is noted.
LEMMA SettleFits ==
    ASSUME BookInv, IndexFits, OneThread, NEW t \in Threads, EmbedFails(t) \/ Settle(t)
    PROVE  IndexFits'
<1>1. CASE EmbedFails(t)
  BY <1>1, StatusStepFits DEF EmbedFails, At
<1>2. CASE Settle(t)
  BY <1>2, StatusStepFits DEF Settle, At
<1>3. QED
  BY <1>1, <1>2

\* A refresh looks for its work.
LEMMA PickFits ==
    ASSUME BookInv, IndexFits, OneThread, NEW t \in Threads, RefreshPick(t)
    PROVE  IndexFits'
<1>1. /\ JobsType /\ MemType /\ ServerWork(job[t]) /\ Man(t) = mem[job[t].who].man
  BY AtWork
<1>2. PICK Q \in Queues(Man(t), job[t].limit) :
          job' = [job EXCEPT ![t].pc = "refresh", ![t].back = "refresh", ![t].todo = Q]
  BY DEF RefreshPick
<1>3. /\ job'[t].pc = "refresh" /\ job'[t].back = "refresh" /\ job'[t].todo = Q
      /\ job'[t].who = job[t].who
  BY <1>1, <1>2, JobPicks
<1>4. job[t].pc = "pick" /\ UNCHANGED <<file, vec, mem, disk>>
  BY DEF RefreshPick, At
<1>5. MemType' /\ CopiesMeet' /\ ManifestsSound'
  <2>1. ManifestsSame
    BY <1>1, <1>4 DEF ManifestsSame, MemType
  <2>2. QED
    BY <1>3, <1>4, <2>1, QuietStep
<1>6. \A d \in Q : d \in DOMAIN mem[job[t].who].man /\ mem[job[t].who].man[d].status # "indexed"
  <2>1. PICK m, limit : m = Man(t) /\ limit = job[t].limit
    OBVIOUS
  <2>2. \A d \in Q : d \in DOMAIN m /\ m[d].status # "indexed"
    BY <1>2, <2>1, QueueIsDirty
  <2>3. QED
    BY <1>1, <2>1, <2>2
<1>7. TodoFits(job[t])'
  BY <1>3, <1>4, <1>6 DEF TodoFits
<1>8. ServerWork(job'[t])
  BY <1>1, <1>3, <1>4 DEF ServerWork
<1>9. JobFits(job[t])'
  BY <1>3, <1>7, <1>8 DEF JobFits, ServerWork, MarkFits, EmbedFits, WriteFits, PublishFits
<1>10. QED
  BY <1>5, <1>9, FitsOfOne

\* A refresh takes up a document, drops a vector or ends.
LEMMA RefreshFits ==
    ASSUME BookInv, IndexFits, OneThread, NEW t \in Threads, RefreshStep(t)
    PROVE  IndexFits'
<1>1. /\ JobsType /\ FilesType /\ MemType /\ JobWay(job[t]) /\ ServerWork(job[t])
      /\ TodoFits(job[t]) /\ Man(t) = mem[job[t].who].man /\ Sound(Man(t))
  BY AtWork
<1>2. job[t].pc = "refresh" /\ job[t].last \in Lasts /\ job[t].back = "refresh" /\ UNCHANGED file
  BY <1>1 DEF RefreshStep, At, JobWay
<1>3. PICK old : old = Man(t)
  OBVIOUS
<1>4. \A d \in job[t].todo : d \in DOMAIN old /\ old[d].status # "indexed"
  BY <1>1, <1>2, <1>3 DEF TodoFits
<1>5. CASE Go(t, job[t].last) /\ UNCHANGED <<vec, mem, disk>>
  <2>1. job'[t].pc = job[t].last /\ job'[t].who = job[t].who
    BY <1>1, <1>5, JobGoes
  <2>2. ManifestsSame
    BY <1>1, <1>5 DEF ManifestsSame, MemType
  <2>3. MemType' /\ CopiesMeet' /\ ManifestsSound'
    BY <1>2, <1>5, <2>1, <2>2, QuietStep
  <2>4. ServerWork(job'[t])
    BY <1>1, <1>2, <2>1 DEF ServerWork, Lasts
  <2>5. JobFits(job[t])'
    BY <1>2, <2>1, <2>4, FitsFreely DEF Lasts
  <2>6. QED
    BY <2>3, <2>5, FitsOfOne
<1>6. ASSUME NEW d \in job[t].todo, Man(t)[d].status = "deleted" \/ d \notin DOMAIN file,
             DropVector(t, d), job' = [job EXCEPT ![t].todo = @ \ {d}]
      PROVE  IndexFits'
  <2>1. /\ job'[t].todo = job[t].todo \ {d} /\ job'[t].pc = "refresh"
        /\ job'[t].who = job[t].who
    BY <1>1, <1>2, <1>6, JobDrops
  <2>2. d \in DOMAIN Man(t) /\ d \notin DOMAIN file
    BY <1>1, <1>3, <1>4, <1>6 DEF Sound, SoundEntry
  <2>3. PICK m : m = SetStatus(Man(t), d, "deleted")
    OBVIOUS
  <2>4. /\ MemType' /\ CopiesMeet' /\ ManifestsSound' /\ mem'[job[t].who].man = m
        /\ DOMAIN m = DOMAIN old /\ \A c \in DOMAIN old : c # d => m[c] = old[c]
    BY <1>2, <1>3, <1>6, <2>1, <2>2, <2>3, DropFits
  <2>5. TodoFits(job[t])'
    BY <1>4, <2>1, <2>4 DEF TodoFits
  <2>6. ServerWork(job'[t])
    BY <1>1, <1>2, <2>1 DEF ServerWork
  <2>7. JobFits(job[t])'
    BY <2>1, <2>5, <2>6 DEF JobFits, ServerWork, MarkFits, EmbedFits, WriteFits, PublishFits
  <2>8. QED
    BY <2>4, <2>7, FitsOfOne
<1>7. ASSUME NEW d \in job[t].todo, Man(t)[d].status # "deleted", d \in DOMAIN file,
             SaveManifest(t, [Man(t) EXCEPT ![d].sum = file[d]]), UNCHANGED vec,
             job' = [job EXCEPT ![t].todo = @ \ {d}, ![t].doc = d, ![t].pc = "embed",
                                ![t].text = file[d]]
      PROVE  IndexFits'
  <2>1. PICK x, y : x = file[d] /\ y = old[d]
    OBVIOUS
  <2>2. d \in DOMAIN old /\ y.status \notin {"deleted", "indexed"} /\ IsText(x) /\ SoundEntry(d, y)
    BY <1>1, <1>3, <1>4, <1>7, <2>1 DEF Sound, FilesType
  <2>3. PICK e : e = [sum |-> x, status |-> y.status]
    OBVIOUS
  <2>4. e = [y EXCEPT !.sum = x] /\ e.sum = x /\ e.status = y.status
    BY <2>2, <2>3 DEF SoundEntry
  <2>5. PICK m : m = [old EXCEPT ![d] = e]
    OBVIOUS
  <2>6. SaveManifest(t, m)
    BY <1>3, <1>7, <2>1, <2>4, <2>5
  <2>7. DOMAIN m = DOMAIN old /\ m[d] = e /\ \A c \in DOMAIN old : c # d => m[c] = old[c]
    BY <2>2, <2>5
  <2>8. SoundEntry(d, e)
    BY <1>7, <2>1, <2>2, <2>3, <2>4 DEF SoundEntry, Older
  <2>9. Sound(m)
    BY <1>1, <1>3, <2>2, <2>7, <2>8, SoundButOne
  <2>10. /\ job'[t].todo = job[t].todo \ {d} /\ job'[t].doc = d /\ job'[t].pc = "embed"
         /\ job'[t].text = x /\ job'[t].who = job[t].who /\ job'[t].back = "refresh"
    <3>1. PICK z : z = [job[t] EXCEPT !.todo = @ \ {d}, !.doc = d, !.pc = "embed", !.text = x]
      OBVIOUS
    <3>2. job' = [job EXCEPT ![t] = z]
      BY <1>7, <2>1, <3>1
    <3>3. job'[t] = z
      BY <1>1, <3>2, JobIsPut
    <3>4. JobShape(job[t])
      BY <1>1 DEF JobsType
    <3>5. /\ z.todo = job[t].todo \ {d} /\ z.doc = d /\ z.pc = "embed" /\ z.text = x
          /\ z.who = job[t].who /\ z.back = job[t].back
      BY <3>1, <3>4 DEF JobShape
    <3>6. QED
      BY <1>2, <3>3, <3>5
  <2>11. /\ MemType' /\ CopiesMeet' /\ ManifestsSound' /\ EmbedFits(job[t])'
         /\ mem'[job[t].who].man = m
    <3>1. UNCHANGED <<file, vec>> /\ m[d].sum = file[d] /\ job'[t].text = file[d]
      BY <1>2, <1>7, <2>1, <2>4, <2>7, <2>10
    <3>2. DOMAIN m = DOMAIN Man(t) \cup {d}
      BY <1>3, <2>2, <2>7
    <3>3. QED
      BY <1>7, <2>6, <2>9, <2>10, <3>1, <3>2, TakenUp
  <2>12. TodoFits(job[t])'
    BY <1>4, <2>7, <2>10, <2>11 DEF TodoFits
  <2>13. ServerWork(job'[t])
    BY <1>1, <1>2, <2>10 DEF ServerWork
  <2>14. JobFits(job[t])'
    BY <2>10, <2>11, <2>12, <2>13 DEF JobFits, ServerWork, MarkFits, WriteFits, PublishFits
  <2>15. QED
    BY <2>11, <2>14, FitsOfOne
<1>8. QED
  BY <1>5, <1>6, <1>7 DEF RefreshStep

\* Every document is marked, and vectors of unknown ones are dropped.
LEMMA ReconcileFits ==
    ASSUME BookInv, IndexFits, OneThread, NEW t \in Threads, Reconcile(t)
    PROVE  IndexFits'
<1>1. /\ JobsType /\ FilesType /\ ServerWork(job[t]) /\ Sound(Man(t))
  BY AtWork
<1>2. PICK old : old = Man(t)
  OBVIOUS
<1>3. PICK m : m = [d \in DOMAIN old \cup DOMAIN file |->
                       IF d \in DOMAIN file THEN Mark(old, d, file[d])[d]
                       ELSE SetStatus(old, d, "deleted")[d]]
  OBVIOUS
<1>4. /\ SaveManifest(t, m) /\ vec' = Restrict(vec, DOMAIN vec \cap DOMAIN m) /\ UNCHANGED file
      /\ job[t].pc = "reconcile"
  BY <1>2, <1>3 DEF Reconcile, At
<1>5. job'[t].pc = "pick" /\ job'[t].who = job[t].who
  BY <1>1, JobMarks DEF Reconcile
<1>6. DOMAIN m = DOMAIN old \cup DOMAIN file
  BY <1>3
<1>7. ASSUME NEW d \in DOMAIN m PROVE SoundEntry(d, m[d])
  <2>1. CASE d \in DOMAIN file
    <3>1. PICK x : x = file[d]
      OBVIOUS
    <3>2. IsText(x) /\ Older(d, x, file[d])
      BY <1>1, <2>1, <3>1 DEF FilesType, Older
    <3>3. m[d] = Mark(old, d, x)[d]
      BY <1>3, <1>6, <2>1, <3>1
    <3>4. Sound(old)
      BY <1>1, <1>2
    <3>5. SoundEntry(d, Mark(old, d, x)[d])
      BY <2>1, <3>2, <3>4, MarkIsSound
    <3>6. QED
      BY <3>3, <3>5
  <2>2. CASE d \notin DOMAIN file
    <3>1. d \in DOMAIN old /\ m[d] = SetStatus(old, d, "deleted")[d]
      BY <1>3, <1>6, <2>2
    <3>2. Sound(old)
      BY <1>1, <1>2
    <3>3. SoundEntry(d, SetStatus(old, d, "deleted")[d])
      BY <2>2, <3>1, <3>2, StatusIsSound
    <3>4. QED
      BY <3>1, <3>3
  <2>3. QED
    BY <2>1, <2>2
<1>8. Sound(m)
  BY <1>7 DEF Sound
<1>9. \A d \in DOMAIN file \cap DOMAIN vec : d \in DOMAIN m => d \in DOMAIN vec' /\ vec'[d] = vec[d]
  BY <1>4 DEF Restrict
<1>10. DOMAIN Man(t) \subseteq DOMAIN m /\ DOMAIN file \cap DOMAIN disk.man \subseteq DOMAIN m
  BY <1>2, <1>6
<1>11. MemType' /\ CopiesMeet' /\ ManifestsSound'
  BY <1>4, <1>5, <1>8, <1>9, <1>10, VectorStep
<1>12. ServerWork(job'[t])
  BY <1>1, <1>4, <1>5 DEF ServerWork
<1>13. JobFits(job[t])'
  BY <1>5, <1>12, FitsFreely
<1>14. QED
  BY <1>11, <1>13, FitsOfOne

-----------------------------------------------------------------------------
\* A file is written, which each manifest knows less of or nothing.
LEMMA PutStep ==
    ASSUME BookInv, IndexFits, OneThread, NEW t \in Threads, job'[t].who = job[t].who,
           NEW d, NEW x, IsText(x), file' = Put(file, d, x), UNCHANGED <<vec, mem, disk>>,
           \A m \in Manifests : d \in DOMAIN m =>
               /\ Below(d, m[d].sum, x) /\ m[d].status # "deleted"
               /\ m[d].status = "indexed" => d \in DOMAIN vec
    PROVE  /\ MemType' /\ CopiesMeet' /\ ManifestsSound'
           /\ d \in DOMAIN file' /\ file'[d] = x
<1>1. FilesType /\ ManifestsSound
  BY AtWork
<1>2. \A m \in Manifests : Sound(m)'
  BY <1>1, SoundWhenPut DEF ManifestsSound
<1>3. \A s \in Threads : job'[s].who = job[s].who
  BY DEF OneThread
<1>4. MemType' /\ CopiesMeet' /\ ManifestsSound'
  BY <1>2, <1>3, FileStep
<1>5. d \in DOMAIN file' /\ file'[d] = x
  BY <1>1, FilePut
<1>6. QED
  BY <1>4, <1>5

\* A record is created: no manifest knows of its file.
LEMMA CreateFits ==
    ASSUME BookInv, IndexFits, OneThread, NEW t \in Threads, Create(t)
    PROVE  IndexFits'
<1>1. JobsType /\ ServerWork(job[t]) /\ ManifestsSound
  BY AtWork
<1>2. job'[t] = Idle /\ job[t].who = "server"
  BY <1>1, JobEnds DEF Create, At, ServerWork
<1>3. job'[t].who = "server" /\ job'[t].pc = "idle"
  BY <1>2 DEF Idle
<1>4. PICK r, status, place, task, own :
         /\ FilesOf(r) = {}
         /\ file' = Put(file, Doc("collab", r, status, place), Text(task, own, 1, {}))
  BY DEF Create
<1>5. PICK d, x : d = Doc("collab", r, status, place) /\ x = Text(task, own, 1, {})
  OBVIOUS
<1>6. d.kind = "collab" /\ d.id = r /\ IsText(x)
  BY <1>5 DEF Doc, Text, IsText
<1>7. \A m \in Manifests : d \notin DOMAIN m
  BY <1>1, <1>4, <1>6 DEF ManifestsSound, Sound, SoundEntry
<1>8. file' = Put(file, d, x) /\ UNCHANGED <<vec, mem, disk>>
  BY <1>4, <1>5 DEF Create
<1>9. MemType' /\ CopiesMeet' /\ ManifestsSound'
  BY <1>2, <1>3, <1>6, <1>7, <1>8, PutStep
<1>10. ServerWork(job'[t])
  BY <1>3 DEF ServerWork
<1>11. JobFits(job[t])'
  BY <1>3, <1>10, FitsFreely
<1>12. QED
  BY <1>9, <1>11, FitsOfOne

\* The file a record has now is marked, and checked.
LEMMA GateFits ==
    ASSUME BookInv, IndexFits, OneThread, NEW t \in Threads, Gate(t)
    PROVE  IndexFits'
<1>1. /\ JobsType /\ FilesType /\ MemType /\ FilesInv /\ ServerWork(job[t]) /\ Sound(Man(t))
  BY AtWork
<1>2. job[t].who = "server" /\ UNCHANGED <<file, vec>>
  BY <1>1 DEF Gate, At, ServerWork
<1>3. ASSUME job'[t].who = "server", job'[t].pc \in {"idle", "verify"},
             MemType', CopiesMeet', ManifestsSound'
      PROVE  IndexFits'
  <2>1. ServerWork(job'[t])
    BY <1>3 DEF ServerWork
  <2>2. JobFits(job[t])'
    BY <1>3, <2>1, FitsFreely
  <2>3. QED
    BY <1>3, <2>2, FitsOfOne
<1>4. ASSUME job'[t].who = "server", job'[t].pc \in {"idle", "verify"}, UNCHANGED <<mem, disk>>
      PROVE  IndexFits'
  <2>1. ManifestsSame
    BY <1>1, <1>4 DEF ManifestsSame, MemType
  <2>2. MemType' /\ CopiesMeet' /\ ManifestsSound'
    BY <1>2, <1>4, <2>1, QuietStep
  <2>3. QED
    BY <1>3, <1>4, <2>2
<1>5. PICK r, d, old : r = job[t].doc.id /\ d = Latest(r) /\ old = Man(t)
  OBVIOUS
<1>6. CASE FilesOf(r) = {}
  <2>1. Done(t) /\ UNCHANGED <<mem, disk>>
    BY <1>5, <1>6 DEF Gate
  <2>2. job'[t].who = "server" /\ job'[t].pc = "idle"
    BY <1>1, <2>1, JobEnds DEF Idle
  <2>3. QED
    BY <1>4, <2>1, <2>2
<1>7. CASE FilesOf(r) # {}
  <2>1. job' = [job EXCEPT ![t].pc = "verify", ![t].doc = d, ![t].back = "verify"]
    BY <1>5, <1>7 DEF Gate
  <2>2. job'[t].pc = "verify" /\ job'[t].who = job[t].who
    BY <1>1, <2>1, JobGates
  <2>3. UNCHANGED <<mem, disk>> \/ SaveManifest(t, Mark(old, d, file[d]))
    BY <1>5, <1>7 DEF Gate
  <2>4. ASSUME SaveManifest(t, Mark(old, d, file[d])) PROVE IndexFits'
    <3>1. d \in DOMAIN file
      BY <1>1, <1>5, <1>7, LatestIsNewest DEF FilesInv, FilesOf
    <3>2. PICK x : x = file[d]
      OBVIOUS
    <3>3. IsText(x) /\ Older(d, x, file[d]) /\ Sound(old)
      BY <1>1, <1>5, <3>1, <3>2 DEF FilesType, Older
    <3>4. Sound(Mark(old, d, x)) /\ DOMAIN Mark(old, d, x) = DOMAIN old \cup {d}
      BY <3>1, <3>3, MarkIsSound
    <3>5. PICK m : m = Mark(old, d, x)
      OBVIOUS
    <3>6. SaveManifest(t, m) /\ Sound(m) /\ DOMAIN Man(t) \subseteq DOMAIN m
      BY <1>5, <2>4, <3>2, <3>4, <3>5
    <3>7. MemType' /\ CopiesMeet' /\ ManifestsSound'
      BY <1>2, <2>2, <3>6, ManifestStep
    <3>8. QED
      BY <1>2, <1>3, <2>2, <3>7
  <2>5. QED
    BY <1>2, <1>4, <2>2, <2>3, <2>4
<1>8. QED
  BY <1>6, <1>7

\* A move is granted or not, or the index is repaired once more.
LEMMA VerifyFits ==
    ASSUME BookInv, IndexFits, OneThread, NEW t \in Threads, Verify(t)
    PROVE  IndexFits'
<1>1. JobsType /\ MemType /\ ServerWork(job[t]) /\ JobWay(job[t])
  BY AtWork
<1>2. job[t].who = "server" /\ UNCHANGED <<file, vec, mem, disk>>
  BY <1>1 DEF Verify, At, ServerWork
<1>3. job'[t].who = "server" /\ job'[t].pc \in {"idle", "save", "repair"}
  <2>1. CASE Go(t, "save")
    BY <1>1, <1>2, <2>1, JobGoes
  <2>2. CASE Done(t)
    BY <1>1, <2>2, JobEnds DEF Idle
  <2>3. CASE job' = [job EXCEPT ![t].pc = "repair", ![t].tries = @ + 1]
    <3>1. PICK n : n = job[t].tries + 1
      OBVIOUS
    <3>2. job' = [job EXCEPT ![t].pc = "repair", ![t].tries = n]
      BY <2>3, <3>1
    <3>3. QED
      BY <1>1, <1>2, <3>2, JobTries
  <2>4. QED
    BY <2>1, <2>2, <2>3 DEF Verify
<1>4. ManifestsSame
  BY <1>1, <1>2 DEF ManifestsSame, MemType
<1>5. MemType' /\ CopiesMeet' /\ ManifestsSound'
  BY <1>2, <1>3, <1>4, QuietStep
<1>6. ServerWork(job'[t])
  BY <1>3 DEF ServerWork
<1>7. JobFits(job[t])'
  BY <1>3, <1>6, FitsFreely
<1>8. QED
  BY <1>5, <1>7, FitsOfOne

\* A move writes a file whose status no copy of the record had.
LEMMA SaveFits ==
    ASSUME BookInv, RanksFollow, IndexFits, OneThread, NEW t \in Threads, Save(t)
    PROVE  IndexFits'
<1>1. JobsType /\ ServerWork(job[t]) /\ ManifestsSound
  BY AtWork
<1>2. PICK r, old, new, x : MovesOn(t, r, old, new, x)
  BY SaveAdds
<1>3. /\ new.kind = "collab" /\ new.id = r /\ IsText(x) /\ file' = Put(file, new, x)
      /\ \A e \in FilesOf(r) : Rank(e.status) < Rank(new.status)
  BY <1>2, RankRises
<1>4. ASSUME NEW m \in Manifests PROVE new \notin DOMAIN m
  <2>1. SUFFICES ASSUME new \in DOMAIN m PROVE FALSE
    OBVIOUS
  <2>2. PICK f \in FilesOf(r) : Rank(new.status) <= Rank(f.status)
    BY <1>1, <1>3, <2>1 DEF ManifestsSound, Sound, SoundEntry
  <2>3. Rank(f.status) < Rank(new.status)
    BY <1>3
  <2>4. QED
    BY <2>2, <2>3 DEF Rank
<1>5. job[t].who = "server" /\ UNCHANGED <<vec, mem, disk>>
  BY <1>1 DEF Save, At, ServerWork
<1>6. job'[t].who = "server" /\ job'[t].pc \in {"idle", "unlink"}
  <2>1. CASE Done(t)
    BY <1>1, <2>1, JobEnds DEF Idle
  <2>2. ASSUME NEW d, job' = [job EXCEPT ![t].pc = "unlink", ![t].doc = d]
        PROVE  job'[t].who = "server" /\ job'[t].pc = "unlink"
    BY <1>1, <1>5, <2>2, JobUnlinks
  <2>3. QED
    BY <2>1, <2>2 DEF Save
<1>7. MemType' /\ CopiesMeet' /\ ManifestsSound'
  BY <1>3, <1>4, <1>5, <1>6, PutStep
<1>8. ServerWork(job'[t])
  BY <1>6 DEF ServerWork
<1>9. JobFits(job[t])'
  BY <1>6, <1>8, FitsFreely
<1>10. QED
  BY <1>7, <1>9, FitsOfOne

\* A move removes a copy that is not the newest.
LEMMA UnlinkFits ==
    ASSUME BookInv, RanksFollow, IndexFits, OneThread, NEW t \in Threads, Unlink(t)
    PROVE  IndexFits'
<1>1. JobsType /\ FilesType /\ FilesInv /\ ServerWork(job[t]) /\ ManifestsSound
  BY AtWork
<1>2. PICK d : d = job[t].doc
  OBVIOUS
<1>3. job[t].who = "server" /\ UNCHANGED <<vec, mem, disk>> /\ file' = Without(file, {d})
  BY <1>1, <1>2 DEF Unlink, At, ServerWork
<1>4. d \in FilesOf(d.id) /\ \E e \in FilesOf(d.id) : file[d].version < file[e].version
  BY <1>2 DEF BookInv, OldGoes, Unlink, At
<1>5. PICK f : f = Latest(d.id)
  OBVIOUS
<1>6. f \in FilesOf(d.id) /\ \A e \in FilesOf(d.id) : file[e].version <= file[f].version
  BY <1>1, <1>4, <1>5, LatestIsNewest DEF FilesInv
<1>7. f # d
  <2>1. PICK e \in FilesOf(d.id) : file[d].version < file[e].version
    BY <1>4
  <2>2. file[e].version <= file[f].version /\ file[e].version \in Nat /\ file[d].version \in Nat
    BY <1>1, <1>4, <1>6, CopiesHaveVersions
  <2>3. QED
    BY <2>1, <2>2
<1>8. \A e \in FilesOf(d.id) : Rank(e.status) <= Rank(f.status)
  BY <1>6 DEF RanksFollow
<1>9. d.kind = "collab"
  BY <1>4 DEF FilesOf
<1>10. \A m \in Manifests : Sound(m)'
  <2>1. \E g \in FilesOf(d.id) : g # d /\ \A e \in FilesOf(d.id) : Rank(e.status) <= Rank(g.status)
    BY <1>6, <1>7, <1>8
  <2>2. QED
    BY <1>1, <1>3, <1>9, <2>1, SoundWhenGone DEF ManifestsSound
<1>11. job'[t].who = "server" /\ job'[t].pc = "idle"
  BY <1>1, JobEnds DEF Unlink, Idle
<1>12. \A s \in Threads : job'[s].who = job[s].who
  BY <1>3, <1>11 DEF OneThread
<1>13. MemType' /\ CopiesMeet' /\ ManifestsSound'
  BY <1>3, <1>10, <1>12, FileStep
<1>14. ServerWork(job'[t])
  BY <1>11 DEF ServerWork
<1>15. JobFits(job[t])'
  BY <1>11, <1>14, FitsFreely
<1>16. QED
  BY <1>13, <1>15, FitsOfOne

-----------------------------------------------------------------------------
\* The queue is no matter of the index.
LEMMA QueueStep ==
    ASSUME BookInv, IndexFits, OneThread, NEW t \in Threads,
           \/ UNCHANGED <<mem, disk>>
           \/ \E q : SaveQueue(t, q),
           UNCHANGED <<file, vec>>, job'[t].who = job[t].who
    PROVE  MemType' /\ CopiesMeet' /\ ManifestsSound'
<1>1. MemType /\ job[t].who \in Processes
  BY AtWork
<1>2. PICK w : w = job[t].who
  OBVIOUS
<1>3. CASE UNCHANGED <<mem, disk>>
  <2>1. ManifestsSame
    BY <1>1, <1>3 DEF ManifestsSame, MemType
  <2>2. QED
    BY <2>1, QuietStep
<1>4. CASE \E q : SaveQueue(t, q)
  <2>1. PICK q : mem' = [mem EXCEPT ![w].queue = q] /\ disk' = [disk EXCEPT !.queue = q]
    BY <1>2, <1>4 DEF SaveQueue
  <2>2. ManifestsSame
    BY <1>1, <1>2, <2>1, ManifestsAreLeft
  <2>3. QED
    BY <2>2, QuietStep
<1>5. QED
  BY <1>3, <1>4

\* An item is taken, or passed over.
LEMMA PromoteFits ==
    ASSUME BookInv, IndexFits, OneThread, NEW t \in Threads, Promote(t)
    PROVE  IndexFits'
<1>1. JobsType /\ FilesType /\ FilesInv /\ ServerWork(job[t]) /\ job[t].pc = "promote"
  BY AtWork DEF Promote, At
<1>2. \/ UNCHANGED <<mem, disk>>
      \/ \E q : SaveQueue(t, q)
  BY DEF Promote, SetItem, Take
<1>3. UNCHANGED <<file, vec>>
  BY DEF Promote
<1>4. ASSUME Skip(t) PROVE IndexFits'
  <2>1. job'[t].pc = "promote" /\ job'[t].who = job[t].who
    BY <1>1, <1>4, JobSkips DEF Skip
  <2>2. MemType' /\ CopiesMeet' /\ ManifestsSound'
    BY <1>2, <1>3, <2>1, QueueStep
  <2>3. ServerWork(job'[t])
    BY <1>1, <2>1 DEF ServerWork
  <2>4. JobFits(job[t])'
    BY <2>1, <2>3, FitsFreely
  <2>5. QED
    BY <2>2, <2>4, FitsOfOne
<1>5. ASSUME NEW r, FilesOf(r) # {}, PromotedDoc(Head(job[t].items).item) \notin DOMAIN file,
             job' = [job EXCEPT ![t].pc = "publish", ![t].text = file[Latest(r)]]
      PROVE  IndexFits'
  <2>1. PICK x : x = file[Latest(r)]
    OBVIOUS
  <2>2. IsText(x)
    BY <1>1, <1>5, <2>1, LatestIsNewest, CopiesHaveVersions DEF FilesInv
  <2>3. PICK z : z = [job[t] EXCEPT !.pc = "publish", !.text = x]
    OBVIOUS
  <2>4. job'[t].pc = "publish" /\ job'[t].who = job[t].who /\ job'[t].items = job[t].items
    <3>1. job' = [job EXCEPT ![t] = z]
      BY <1>5, <2>1, <2>3
    <3>2. job'[t] = z
      BY <1>1, <3>1, JobIsPut
    <3>3. JobShape(job[t])
      BY <1>1 DEF JobsType
    <3>4. z.pc = "publish" /\ z.who = job[t].who /\ z.items = job[t].items
      BY <2>3, <3>3 DEF JobShape
    <3>5. QED
      BY <3>2, <3>4
  <2>5. MemType' /\ CopiesMeet' /\ ManifestsSound'
    BY <1>2, <1>3, <2>4, QueueStep
  <2>6. ServerWork(job'[t])
    BY <1>1, <2>4 DEF ServerWork
  <2>7. PublishFits(job[t])'
    BY <1>3, <1>5, <2>4 DEF PublishFits
  <2>8. JobFits(job[t])'
    BY <2>4, <2>6, <2>7 DEF JobFits, ServerWork, MarkFits, EmbedFits, TodoFits, WriteFits
  <2>9. QED
    BY <2>5, <2>8, FitsOfOne
<1>6. QED
  BY <1>4, <1>5 DEF Promote

\* An item is promoted.
LEMMA PromotedFits ==
    ASSUME BookInv, IndexFits, OneThread, NEW t \in Threads, Promoted(t)
    PROVE  IndexFits'
<1>1. JobsType /\ ServerWork(job[t]) /\ job[t].pc = "promoted"
  BY AtWork DEF Promoted, At
<1>2. \/ UNCHANGED <<mem, disk>>
      \/ \E q : SaveQueue(t, q)
  BY DEF Promoted, SetItem
<1>3. UNCHANGED <<file, vec>> /\ Skip(t)
  BY DEF Promoted
<1>4. job'[t].pc = "promote" /\ job'[t].who = job[t].who
  BY <1>1, <1>3, JobSkips DEF Skip
<1>5. MemType' /\ CopiesMeet' /\ ManifestsSound'
  BY <1>2, <1>3, <1>4, QueueStep
<1>6. ServerWork(job'[t])
  BY <1>1, <1>4 DEF ServerWork
<1>7. JobFits(job[t])'
  BY <1>4, <1>6, FitsFreely
<1>8. QED
  BY <1>5, <1>7, FitsOfOne

\* A promoted entry is written: its file was not there, so no manifest knows of it.
LEMMA PublishStepFits ==
    ASSUME BookInv, IndexFits, OneThread, NEW t \in Threads, Publish(t)
    PROVE  IndexFits'
<1>1. /\ JobsType /\ JobShape(job[t]) /\ ServerWork(job[t]) /\ PublishFits(job[t])
      /\ ManifestsSound /\ job[t].pc = "publish"
  BY AtWork DEF Publish, At
<1>2. PICK d, y : d = PromotedDoc(Head(job[t].items).item) /\ y = job[t].text
  OBVIOUS
<1>3. PICK x : x = [y EXCEPT !.owner = "-"]
  OBVIOUS
<1>4. IsText(x)
  BY <1>1, <1>2, <1>3 DEF JobShape, IsText
<1>5. d.kind = "promoted" /\ d \notin DOMAIN file
  BY <1>1, <1>2 DEF PublishFits, PromotedDoc, Doc
<1>6. \A m \in Manifests : d \notin DOMAIN m
  BY <1>1, <1>5 DEF ManifestsSound, Sound, SoundEntry
<1>7. /\ file' = Put(file, d, x) /\ UNCHANGED <<vec, mem, disk>>
      /\ job' = [job EXCEPT ![t].pc = "mark", ![t].doc = d, ![t].then = "pick", ![t].limit = 1,
                            ![t].last = "promoted", ![t].text = x]
  BY <1>2, <1>3 DEF Publish
<1>8. job'[t].pc = "mark" /\ job'[t].doc = d /\ job'[t].text = x /\ job'[t].who = job[t].who
  <2>1. PICK z : z = [job[t] EXCEPT !.pc = "mark", !.doc = d, !.then = "pick", !.limit = 1,
                                    !.last = "promoted", !.text = x]
    OBVIOUS
  <2>2. job' = [job EXCEPT ![t] = z]
    BY <1>7, <2>1
  <2>3. job'[t] = z
    BY <1>1, <2>2, JobIsPut
  <2>4. z.pc = "mark" /\ z.doc = d /\ z.text = x /\ z.who = job[t].who
    BY <1>1, <2>1 DEF JobShape
  <2>5. QED
    BY <2>3, <2>4
<1>9. MemType' /\ CopiesMeet' /\ ManifestsSound' /\ d \in DOMAIN file' /\ file'[d] = x
  BY <1>4, <1>6, <1>7, <1>8, PutStep
<1>10. MarkFits(job[t])'
  BY <1>5, <1>8, <1>9 DEF MarkFits
<1>11. ServerWork(job'[t])
  BY <1>1, <1>8 DEF ServerWork
<1>12. JobFits(job[t])'
  BY <1>8, <1>10, <1>11 DEF JobFits, ServerWork, EmbedFits, TodoFits, WriteFits, PublishFits
<1>13. QED
  BY <1>9, <1>12, FitsOfOne

\* A note is written: the entry tells of more than any manifest knows.
LEMMA WriteStepFits ==
    ASSUME BookInv, IndexFits, OneThread, NEW t \in Threads, Write(t)
    PROVE  IndexFits'
<1>1. /\ JobsType /\ FilesType /\ JobShape(job[t]) /\ JobWay(job[t]) /\ ServerWork(job[t])
      /\ WriteFits(job[t]) /\ job[t].pc = "write"
  BY AtWork DEF Write, At
<1>2. PICK d, y : d = job[t].doc /\ y = job[t].text
  OBVIOUS
<1>3. PICK v : v = IF d \in DOMAIN file THEN file[d].version + 1 ELSE 1
  OBVIOUS
<1>4. PICK x : x = [y EXCEPT !.version = v]
  OBVIOUS
<1>5. IsText(y) /\ d.kind = "entry"
  BY <1>1, <1>2 DEF JobShape, JobWay
<1>6. v \in Nat
  BY <1>1, <1>3 DEF FilesType, IsText
<1>7. IsText(x) /\ x.body = y.body
  BY <1>4, <1>5, <1>6 DEF IsText
<1>8. /\ file' = Put(file, d, x) /\ UNCHANGED <<vec, mem, disk>>
      /\ job' = [job EXCEPT ![t].pc = "mark", ![t].then = "repair", ![t].back = "end", ![t].text = x]
  BY <1>2, <1>3, <1>4 DEF Write
<1>9. /\ job'[t].pc = "mark" /\ job'[t].doc = d /\ job'[t].text = x /\ job'[t].who = job[t].who
      /\ job'[t].back = "end"
  <2>1. PICK z : z = [job[t] EXCEPT !.pc = "mark", !.then = "repair", !.back = "end", !.text = x]
    OBVIOUS
  <2>2. job' = [job EXCEPT ![t] = z]
    BY <1>8, <2>1
  <2>3. job'[t] = z
    BY <1>1, <2>2, JobIsPut
  <2>4. /\ z.pc = "mark" /\ z.doc = d /\ z.text = x /\ z.who = job[t].who /\ z.back = "end"
    BY <1>1, <1>2, <2>1 DEF JobShape
  <2>5. QED
    BY <2>3, <2>4
<1>10. \A m \in Manifests : d \in DOMAIN m =>
            /\ Below(d, m[d].sum, x) /\ m[d].status # "deleted"
            /\ m[d].status = "indexed" => d \in DOMAIN vec
  BY <1>1, <1>2, <1>5, <1>7 DEF WriteFits, Below
<1>11. MemType' /\ CopiesMeet' /\ ManifestsSound' /\ d \in DOMAIN file' /\ file'[d] = x
  <2>1. file' = Put(file, d, x) /\ UNCHANGED <<vec, mem, disk>> /\ IsText(x) /\ job'[t].who = job[t].who
    BY <1>7, <1>8, <1>9
  <2>2. QED
    BY <1>10, <2>1, PutStep
<1>12. MarkFits(job[t])'
  BY <1>5, <1>9, <1>11 DEF MarkFits
<1>13. ServerWork(job'[t])
  BY <1>1, <1>9 DEF ServerWork
<1>14. JobFits(job[t])'
  BY <1>9, <1>12, <1>13 DEF JobFits, ServerWork, EmbedFits, TodoFits, WriteFits, PublishFits
<1>15. QED
  BY <1>11, <1>14, FitsOfOne

-----------------------------------------------------------------------------
\* A process starts, or the server takes up a request.
LEMMA BeginStep ==
    ASSUME BookInv, IndexFits, OneThread, NEW t \in Threads, NEW z, Begin(t, z), job'[t] = z,
           UNCHANGED <<file, vec, disk>>
    PROVE  /\ MemType' /\ CopiesMeet' /\ ManifestsSound' /\ Manifests' \subseteq Manifests
           /\ z.who \in {"server", "cli"}
<1>1. MemType /\ ServerWork(job[t]) /\ job[t].pc = "idle"
  BY AtWork DEF Begin, At
<1>2. job[t].who = "server"
  BY <1>1 DEF ServerWork
<1>3. CASE z.who = "server" /\ UNCHANGED mem
  <2>1. ManifestsSame
    BY <1>1, <1>3 DEF ManifestsSame, MemType
  <2>2. MemType' /\ CopiesMeet' /\ ManifestsSound' /\ Manifests' = Manifests
    BY <1>2, <1>3, <2>1, QuietStep
  <2>3. QED
    BY <1>3, <2>2
<1>4. CASE z.who = "cli" /\ mem' = [mem EXCEPT !["cli"] = disk]
  <2>1. "cli" \in Processes
    BY <1>4 DEF Begin
  <2>2. MemType' /\ CopiesMeet' /\ ManifestsSound'
    <3>1. CopyGoes(t, "cli", disk)
      BY <1>2, <1>4, <2>1 DEF CopyGoes
    <3>2. QED
      BY <3>1, CopyStep
  <2>3. disk = [man |-> disk.man, queue |-> disk.queue]
    BY <1>1 DEF MemType
  <2>4. \A k \in Manifests' : k = disk.man \/ k \in Manifests
    BY <1>1, <1>4, <2>1, <2>3, CopyPut
  <2>5. QED
    BY <1>4, <2>2, <2>4 DEF Manifests
<1>5. QED
  BY <1>3, <1>4 DEF Begin

\* What a note is to be written over, and that it adds to it.
LEMMA NoteBegins ==
    ASSUME JobsType, NEW t \in Threads, NEW p \in Processes, NoteRequest(t, p)
    PROVE  \/ job'[t].doc \notin DOMAIN file \cup DOMAIN disk.man
           \/ /\ job'[t].doc \in DOMAIN file \cap DOMAIN vec /\ job'[t].doc.kind = "entry"
              /\ \E n : /\ n \notin file[job'[t].doc].body
                        /\ job'[t].text.body = file[job'[t].doc].body \cup {n}
<1>1. PICK n : /\ NoteDoc(n) \notin DOMAIN file \cup DOMAIN disk.man /\ ~Known(n)
               /\ \/ Begin(t, [[Idle EXCEPT !.who = p, !.doc = NoteDoc(n),
                                             !.text = Text("-", "-", 1, {n})]
                                 EXCEPT !.pc = "write"])
                  \/ \E d \in DOMAIN vec :
                       /\ d.kind = "entry" /\ d \in DOMAIN file
                       /\ Begin(t, [[Idle EXCEPT !.who = p, !.doc = NoteDoc(n),
                                                  !.text = Text("-", "-", 1, {n})]
                                 EXCEPT !.pc = "write", !.doc = d, !.text.body = file[d].body \cup {n}])
  BY DEF NoteRequest
<1>2. PICK y : y = [Idle EXCEPT !.who = p, !.doc = NoteDoc(n), !.text = Text("-", "-", 1, {n})]
  OBVIOUS
<1>3. /\ JobShape(y) /\ y.doc = NoteDoc(n)
      /\ y.text = [task |-> "-", owner |-> "-", version |-> 1, body |-> {n}]
  BY <1>2, IdleIsJob DEF JobShape, IsText, Text
<1>4. ASSUME NEW z, Begin(t, z) PROVE job'[t] = z
  BY <1>4, JobIsPut DEF Begin
<1>5. CASE Begin(t, [y EXCEPT !.pc = "write"])
  <2>1. PICK z : z = [y EXCEPT !.pc = "write"]
    OBVIOUS
  <2>2. z.doc = NoteDoc(n)
    BY <1>3, <2>1 DEF JobShape
  <2>3. job'[t] = z
    BY <1>4, <1>5, <2>1
  <2>4. QED
    BY <1>1, <2>2, <2>3
<1>6. ASSUME NEW d \in DOMAIN vec, d.kind = "entry", d \in DOMAIN file,
             Begin(t, [y EXCEPT !.pc = "write", !.doc = d, !.text.body = file[d].body \cup {n}])
      PROVE  /\ job'[t].doc = d /\ n \notin file[d].body
             /\ job'[t].text.body = file[d].body \cup {n}
  <2>1. PICK x : x = [y.text EXCEPT !.body = file[d].body \cup {n}]
    OBVIOUS
  <2>2. x.body = file[d].body \cup {n}
    BY <1>3, <2>1
  <2>3. PICK z : z = [y EXCEPT !.pc = "write", !.doc = d, !.text = x]
    OBVIOUS
  <2>4. z.doc = d /\ z.text = x
    BY <1>3, <2>3 DEF JobShape
  <2>5. Begin(t, z)
    BY <1>6, <2>1, <2>3
  <2>6. job'[t] = z
    BY <1>4, <2>5
  <2>7. n \notin file[d].body
    BY <1>1, <1>6 DEF Known
  <2>8. QED
    BY <2>2, <2>4, <2>6, <2>7
<1>7. QED
  <2>1. CASE \E d \in DOMAIN vec :
                /\ d.kind = "entry" /\ d \in DOMAIN file
                /\ Begin(t, [y EXCEPT !.pc = "write", !.doc = d, !.text.body = file[d].body \cup {n}])
    <3>1. PICK d \in DOMAIN vec :
             /\ d.kind = "entry" /\ d \in DOMAIN file
             /\ Begin(t, [y EXCEPT !.pc = "write", !.doc = d, !.text.body = file[d].body \cup {n}])
      BY <2>1
    <3>2. /\ job'[t].doc = d /\ n \notin file[d].body
          /\ job'[t].text.body = file[d].body \cup {n}
      BY <1>6, <3>1
    <3>3. d \in DOMAIN file \cap DOMAIN vec /\ d.kind = "entry"
      BY <3>1
    <3>4. QED
      BY <3>2, <3>3
  <2>2. QED
    BY <1>1, <1>2, <1>5, <2>1

\* A note adds to what any manifest knows of the entry.
LEMMA NoteFits ==
    ASSUME BookInv, IndexFits, OneThread, NEW t \in Threads, NEW p \in Processes,
           NoteRequest(t, p), Begun(t, "write", p)
    PROVE  IndexFits'
<1>1. JobsType /\ FilesType /\ CopiesMeet /\ ManifestsSound /\ MemType
  BY AtWork
<1>2. PICK z : z = job'[t]
  OBVIOUS
<1>3. Begin(t, z) /\ z.pc = "write" /\ z.who = p /\ UNCHANGED <<file, vec, disk>>
  BY <1>2 DEF Begun, NoteRequest
<1>4. /\ MemType' /\ CopiesMeet' /\ ManifestsSound' /\ Manifests' \subseteq Manifests
      /\ z.who \in {"server", "cli"}
  BY <1>2, <1>3, BeginStep
<1>5. ServerWork(job'[t])
  BY <1>2, <1>3, <1>4 DEF ServerWork
<1>6. PICK d, x : d = z.doc /\ x = z.text
  OBVIOUS
<1>7. ASSUME NEW m \in Manifests, d \in DOMAIN m
      PROVE  /\ Below(d, m[d].sum, x) /\ m[d].status # "deleted"
             /\ m[d].status = "indexed" => d \in DOMAIN vec
  <2>1. d \in DOMAIN disk.man
    BY <1>1, <1>7 DEF Manifests, CopiesMeet
  <2>2. PICK n : /\ d \in DOMAIN file \cap DOMAIN vec /\ d.kind = "entry" /\ n \notin file[d].body
                 /\ x.body = file[d].body \cup {n}
    BY <1>1, <1>2, <1>6, <2>1, NoteBegins
  <2>3. SoundEntry(d, m[d])
    BY <1>1, <1>7 DEF ManifestsSound, Sound
  <2>4. Older(d, m[d].sum, file[d]) /\ m[d].status # "deleted"
    BY <2>2, <2>3 DEF SoundEntry
  <2>5. m[d].sum.body \subseteq file[d].body
    BY <2>2, <2>4 DEF Older, Below
  <2>6. Below(d, m[d].sum, x)
    BY <2>2, <2>5 DEF Below
  <2>7. QED
    BY <2>2, <2>4, <2>6
<1>8. WriteFits(job[t])'
  BY <1>2, <1>3, <1>4, <1>6, <1>7 DEF WriteFits
<1>9. JobFits(job[t])'
  BY <1>2, <1>3, <1>5, <1>8 DEF JobFits, ServerWork, MarkFits, EmbedFits, TodoFits, PublishFits
<1>10. QED
  BY <1>4, <1>9, FitsOfOne

\* A request is taken up.
LEMMA RequestFits ==
    ASSUME BookInv, IndexFits, OneThread, NEW t \in Threads, Request(t)
    PROVE  IndexFits'
<1>1. JobsType /\ MemType /\ ServerWork(job[t])
  BY AtWork
<1>2. CASE UNCHANGED job /\ (Propose(t) \/ Approve(t))
  <2>1. job'[t] = job[t] /\ job[t].pc = "idle" /\ UNCHANGED <<file, vec>>
    BY <1>2 DEF Propose, Approve, At
  <2>2. PICK q : mem' = [mem EXCEPT !["server"].queue = q] /\ disk' = [disk EXCEPT !.queue = q]
    BY <1>2 DEF Propose, Approve
  <2>3. ManifestsSame
    BY <1>1, <2>2, ManifestsAreLeft, RecordsAssumption
  <2>4. MemType' /\ CopiesMeet' /\ ManifestsSound'
    BY <2>1, <2>3, QuietStep
  <2>5. JobFits(job[t])'
    BY <1>1, <2>1, FitsFreely
  <2>6. QED
    BY <2>4, <2>5, FitsOfOne
<1>3. ASSUME NEW pc \in {"create", "gate", "reconcile", "pick", "repair", "promote"}, NEW who,
             Begun(t, pc, who), UNCHANGED <<file, vec, disk>>,
             pc \in {"create", "gate"} => who = "server",
             pc = "repair" => job'[t].back = "end"
      PROVE  IndexFits'
  <2>1. PICK z : z = job'[t]
    OBVIOUS
  <2>2. Begin(t, z) /\ z.pc = pc /\ z.who = who
    BY <1>3, <2>1 DEF Begun
  <2>3. MemType' /\ CopiesMeet' /\ ManifestsSound' /\ z.who \in {"server", "cli"}
    BY <1>3, <2>1, <2>2, BeginStep
  <2>4. ServerWork(job'[t])
    BY <1>3, <2>1, <2>2, <2>3 DEF ServerWork
  <2>5. JobFits(job[t])'
    BY <1>3, <2>1, <2>2, <2>4, FitsFreely
  <2>6. QED
    BY <2>3, <2>5, FitsOfOne
<1>4. CASE CreateRequest(t) /\ Begun(t, "create", "server")
  BY <1>3, <1>4 DEF CreateRequest
<1>5. CASE MoveRequest(t) /\ Begun(t, "gate", "server")
  BY <1>3, <1>5 DEF MoveRequest
<1>6. ASSUME NEW p \in Processes, IndexerRequest(t, p),
             \/ Begun(t, "reconcile", p)
             \/ Begun(t, "pick", p)
             \/ Begun(t, "repair", p) /\ job'[t].back = "end"
      PROVE  IndexFits'
  BY <1>3, <1>6 DEF IndexerRequest
<1>7. ASSUME NEW p \in Processes, NEW limit, BatchRequest(t, p, limit), Begun(t, "promote", p)
      PROVE  IndexFits'
  BY <1>3, <1>7 DEF BatchRequest
<1>8. ASSUME NEW p \in Processes, NoteRequest(t, p), Begun(t, "write", p)
      PROVE  IndexFits'
  BY <1>8, NoteFits
<1>9. QED
  BY <1>1, <1>2, <1>4, <1>5, <1>6, <1>7, <1>8, RequestKinds

-----------------------------------------------------------------------------
\* A file is changed beside the jobs.
LEMMA MissedFits ==
    ASSUME BookInv, IndexFits, NEW d, Miss(d), UNCHANGED <<vec, mem, disk>>,
           d.kind \in {"entry", "workflow"},
           DOMAIN file' \cup {d} = DOMAIN file \cup {d},
           \A e \in DOMAIN file : e # d => file'[e] = file[e],
           d \in DOMAIN file' =>
               /\ d.kind = "workflow" /\ IsText(file'[d])
               /\ \A m \in Manifests : d \in DOMAIN m =>
                     d \in DOMAIN file /\ Below(d, file[d], file'[d]),
           \A m \in Manifests : Sound(m)'
    PROVE  IndexFits'
<1>1. JobsType /\ MemType /\ FilesType
  BY DEF BookInv, FilesInv, IndexFits
<1>2. ASSUME NEW t \in Threads
      PROVE  /\ job'[t].pc = job[t].pc /\ job'[t].who = job[t].who /\ job'[t].doc = job[t].doc
             /\ job'[t].back = job[t].back /\ job'[t].todo = job[t].todo
             /\ job'[t].text = job[t].text /\ job'[t].items = job[t].items
  BY <1>1, JobMisses
<1>3. MemType' /\ CopiesMeet' /\ ManifestsSound' /\ Manifests' = Manifests
  BY <1>2, FileStep
<1>4. \A e : e # d => (e \in DOMAIN file' <=> e \in DOMAIN file)
  OBVIOUS
<1>5. ASSUME NEW t \in Threads PROVE JobFits(job[t])'
  <2>1. /\ JobShape(job[t]) /\ ServerWork(job[t]) /\ MarkFits(job[t]) /\ EmbedFits(job[t])
        /\ TodoFits(job[t]) /\ WriteFits(job[t]) /\ PublishFits(job[t]) /\ job[t].who \in Processes
    BY AtWork
  <2>2. /\ job'[t].pc = job[t].pc /\ job'[t].who = job[t].who /\ job'[t].doc = job[t].doc
        /\ job'[t].back = job[t].back /\ job'[t].todo = job[t].todo
        /\ job'[t].text = job[t].text /\ job'[t].items = job[t].items
    BY <1>2
  <2>3. ServerWork(job[t])'
    BY <2>1, <2>2 DEF ServerWork
  <2>4. MarkFits(job[t])'
    <3>1. SUFFICES ASSUME job[t].pc = "mark" PROVE MarkFits(job[t])'
      BY <2>2 DEF MarkFits
    <3>2. /\ job[t].doc.kind \in {"entry", "promoted"}
          /\ job[t].doc \in DOMAIN file => file[job[t].doc] = job[t].text
          /\ job[t].doc.kind = "promoted" => job[t].doc \in DOMAIN file
      BY <2>1, <3>1 DEF MarkFits
    <3>3. job[t].doc \in DOMAIN file' => job[t].doc # d
      BY <3>2
    <3>4. job[t].doc \in DOMAIN file' => file'[job[t].doc] = job[t].text
      BY <1>4, <3>2, <3>3
    <3>5. job[t].doc.kind = "promoted" => job[t].doc \in DOMAIN file'
      BY <1>4, <3>2
    <3>6. QED
      BY <2>2, <3>2, <3>4, <3>5 DEF MarkFits
  <2>5. EmbedFits(job[t])'
    <3>1. SUFFICES ASSUME job[t].pc \in {"embed", "settle"} PROVE EmbedFits(job[t])'
      BY <2>2 DEF EmbedFits
    <3>2. PICK c, x, m : c = job[t].doc /\ x = job[t].text /\ m = mem[job[t].who].man
      OBVIOUS
    <3>3. /\ c \in DOMAIN m /\ m[c].sum = x /\ (c \in DOMAIN file => Older(c, x, file[c]))
          /\ \A k \in Manifests : c \in DOMAIN k => Older(c, k[c].sum, x)
          /\ job[t].pc = "settle" => c \in DOMAIN vec /\ vec[c] = x
      BY <2>1, <3>1, <3>2 DEF EmbedFits
    <3>4. c \in DOMAIN file' => Older(c, x, file'[c])
      <4>1. CASE c # d
        BY <1>4, <3>3, <4>1
      <4>2. CASE c = d /\ c \in DOMAIN file'
        <5>1. m \in Manifests
          BY <2>1, <3>2 DEF Manifests
        <5>2. c \in DOMAIN file /\ Below(c, file[c], file'[c]) /\ IsText(file'[c])
          BY <3>3, <4>2, <5>1
        <5>3. Older(c, x, file[c]) /\ IsText(file[c]) /\ IsText(x)
          BY <1>1, <2>1, <3>2, <3>3, <5>2 DEF FilesType, JobShape
        <5>4. Below(c, x, file'[c])
          BY <5>2, <5>3, OlderIsOrder
        <5>5. QED
          BY <5>4 DEF Older
      <4>3. QED
        BY <4>1, <4>2
    <3>5. QED
      BY <1>3, <2>2, <3>2, <3>3, <3>4 DEF EmbedFits
  <2>6. TodoFits(job[t])'
    BY <2>1, <2>2 DEF TodoFits
  <2>7. WriteFits(job[t])'
    BY <1>3, <2>1, <2>2 DEF WriteFits
  <2>8. PublishFits(job[t])'
    <3>1. PromotedDoc(Head(job[t].items).item) # d
      BY DEF PromotedDoc, Doc
    <3>2. QED
      BY <1>4, <2>1, <2>2, <3>1 DEF PublishFits
  <2>9. QED
    BY <2>3, <2>4, <2>5, <2>6, <2>7, <2>8 DEF JobFits
<1>6. QED
  BY <1>3, <1>5 DEF IndexFits

\* The workflow engine writes a document.
LEMMA OutsideFits ==
    ASSUME BookInv, IndexFits, OutsideWrite
    PROVE  IndexFits'
<1>1. FilesType /\ CopiesMeet /\ ManifestsSound
  BY DEF BookInv, FilesInv, IndexFits
<1>2. PICK w \in Outside :
         /\ OutsideDoc(w) \in DOMAIN file \/ OutsideDoc(w) \notin DOMAIN disk.man
         /\ file' = Put(file, OutsideDoc(w),
                        Text("-", "-", IF OutsideDoc(w) \in DOMAIN file
                                       THEN file[OutsideDoc(w)].version + 1 ELSE 1, {}))
         /\ Miss(OutsideDoc(w))
  BY DEF OutsideWrite
<1>3. PICK d : d = OutsideDoc(w)
  OBVIOUS
<1>4. PICK v : v = IF d \in DOMAIN file THEN file[d].version + 1 ELSE 1
  OBVIOUS
<1>5. PICK x : x = Text("-", "-", v, {})
  OBVIOUS
<1>6. d.kind = "workflow"
  BY <1>3 DEF OutsideDoc, Doc
<1>7. d \in DOMAIN file => IsText(file[d]) /\ v = file[d].version + 1 /\ file[d].version \in Nat
  BY <1>1, <1>4 DEF FilesType, IsText
<1>8. IsText(x) /\ x.version = v
  BY <1>4, <1>5, <1>7 DEF Text, IsText
<1>9. /\ file' = Put(file, d, x) /\ Miss(d) /\ UNCHANGED <<vec, mem, disk>>
      /\ d \in DOMAIN file \/ d \notin DOMAIN disk.man
  BY <1>2, <1>3, <1>4, <1>5 DEF OutsideWrite
<1>10. /\ DOMAIN file' = DOMAIN file \cup {d} /\ file'[d] = x
       /\ \A e \in DOMAIN file : e # d => file'[e] = file[e]
  BY <1>1, <1>8, <1>9, FilePut
<1>11. d \in DOMAIN file => Below(d, file[d], x)
  BY <1>6, <1>7, <1>8 DEF Below
<1>12. ASSUME NEW m \in Manifests, d \in DOMAIN m
       PROVE  /\ d \in DOMAIN file /\ Below(d, m[d].sum, x) /\ m[d].status # "deleted"
              /\ m[d].status = "indexed" => d \in DOMAIN vec
  <2>1. d \in DOMAIN file
    BY <1>1, <1>9, <1>12 DEF Manifests, CopiesMeet
  <2>2. SoundEntry(d, m[d])
    BY <1>1, <1>12 DEF ManifestsSound, Sound
  <2>3. /\ Older(d, m[d].sum, file[d]) /\ IsText(m[d].sum) /\ m[d].status # "deleted"
        /\ m[d].status = "indexed" => d \in DOMAIN vec
    BY <2>1, <2>2 DEF SoundEntry
  <2>4. Below(d, m[d].sum, x)
    BY <1>7, <1>8, <1>11, <2>1, <2>3, OlderIsOrder
  <2>5. QED
    BY <2>1, <2>3, <2>4
<1>13. ASSUME NEW m \in Manifests PROVE Sound(m)'
  <2>1. Sound(m)
    BY <1>1 DEF ManifestsSound
  <2>2. QED
    BY <1>1, <1>8, <1>9, <1>12, <2>1, SoundWhenPut
<1>14. QED
  BY <1>6, <1>8, <1>9, <1>10, <1>11, <1>12, <1>13, MissedFits

\* A file is removed by hand.
LEMMA RemoveFits ==
    ASSUME BookInv, IndexFits, RemoveByHand
    PROVE  IndexFits'
<1>1. FilesType /\ ManifestsSound
  BY DEF BookInv, FilesInv, IndexFits
<1>2. PICK d \in DOMAIN file :
         d.kind \in {"entry", "workflow"} /\ file' = Without(file, {d}) /\ Miss(d)
  BY DEF RemoveByHand
<1>3. UNCHANGED <<vec, mem, disk>>
  BY DEF RemoveByHand
<1>4. DOMAIN file' = DOMAIN file \ {d} /\ \A e \in DOMAIN file' : file'[e] = file[e]
  BY <1>1, <1>2, FileGone
<1>5. \A m \in Manifests : Sound(m)'
  BY <1>1, <1>2, <1>3, SoundWhenGone DEF ManifestsSound
<1>6. QED
  BY <1>2, <1>3, <1>4, <1>5, MissedFits

\* A process is killed, and the server started again.
LEMMA KillFits ==
    ASSUME BookInv, IndexFits, OneThread, NEW p \in Processes, Kill(p)
    PROVE  IndexFits'
<1>1. PICK s \in Threads :
         /\ job[s].who = p
         /\ \/ /\ p = "server" /\ mem' = [mem EXCEPT !["server"] = disk]
               /\ job' = [[t \in Threads |-> IF job[t].who = p THEN Idle ELSE job[t]]
                             EXCEPT ![s] = [Idle EXCEPT !.pc = "reconcile"]]
            \/ /\ p # "server" /\ mem' = [mem EXCEPT ![p] = Blank]
               /\ job' = [t \in Threads |-> IF job[t].who = p THEN Idle ELSE job[t]]
  BY DEF Kill
<1>2. UNCHANGED <<file, vec, disk>>
  BY DEF Kill
<1>3. job'[s].who = "server" /\ job'[s].pc \in {"idle", "reconcile"}
  <2>1. CASE p = "server"
    <3>1. job'[s] = [Idle EXCEPT !.pc = "reconcile"]
      BY <1>1, <2>1
    <3>2. QED
      BY <3>1 DEF Idle
  <2>2. CASE p # "server"
    <3>1. job'[s] = Idle
      BY <1>1, <2>2
    <3>2. QED
      BY <3>1 DEF Idle
  <2>3. QED
    BY <2>1, <2>2
<1>4. MemType' /\ CopiesMeet' /\ ManifestsSound'
  <2>1. CASE p = "server"
    <3>1. mem' = [mem EXCEPT ![p] = disk]
      BY <1>1, <2>1
    <3>2. \A q \in Processes : q # "server" => job[s].who # q /\ q # p
      BY <1>1, <2>1
    <3>3. CopyGoes(s, p, disk)
      BY <1>3, <3>1, <3>2 DEF CopyGoes
    <3>4. QED
      BY <1>2, <3>3, CopyStep
  <2>2. CASE p # "server"
    <3>1. mem' = [mem EXCEPT ![p] = Blank]
      BY <1>1, <2>2
    <3>2. CopyGoes(s, p, Blank)
      BY <1>1, <1>3, <3>1 DEF CopyGoes
    <3>3. QED
      BY <1>2, <3>2, CopyStep
  <2>3. QED
    BY <2>1, <2>2
<1>5. ServerWork(job'[s])
  BY <1>3 DEF ServerWork
<1>6. JobFits(job[s])'
  BY <1>3, <1>5, FitsFreely
<1>7. QED
  BY <1>4, <1>6, FitsOfOne

\* Each step of a job leaves the index fitting.
LEMMA JobStepFits ==
    ASSUME BookInv, RanksFollow, IndexFits, OneThread, NEW t \in Threads, JobStep(t)
    PROVE  IndexFits'
BY FinishFits, MarkStepFits, RepairStepFits, EmbedStepFits, SettleFits, PickFits, RefreshFits,
   ReconcileFits, CreateFits, GateFits, VerifyFits, SaveFits, UnlinkFits, PromoteFits,
   PublishStepFits, PromotedFits, WriteStepFits DEF JobStep

\* The index goes on to fit.
LEMMA IndexKept ==
    ASSUME IndexInv, OneThread, [RecNext]_recVars
    PROVE  IndexInv'
<1>1. BookInv /\ RanksFollow /\ IndexFits
  BY DEF IndexInv
<1>2. BookInv' /\ RanksFollow'
  BY <1>1, BookKept, RanksKept
<1>3. CASE UNCHANGED recVars
  <2>1. UNCHANGED <<file, vec, mem, disk, job>>
    BY <1>3 DEF recVars
  <2>2. MemType' /\ CopiesMeet'
    BY <1>1, <2>1 DEF IndexFits, MemType, CopiesMeet
  <2>3. ManifestsSound'
    BY <1>1, <2>1, SoundOtherwise DEF IndexFits, ManifestsSound, Manifests
  <2>4. ASSUME NEW t \in Threads PROVE JobFits(job[t])'
    <3>1. JobFits(job[t]) /\ job'[t] = job[t] /\ Manifests' = Manifests
      BY <1>1, <2>1 DEF IndexFits, Manifests
    <3>2. (ServerWork(job[t]) /\ MarkFits(job[t]) /\ PublishFits(job[t]))'
      BY <2>1, <3>1 DEF JobFits, ServerWork, MarkFits, PublishFits
    <3>3. (EmbedFits(job[t]) /\ TodoFits(job[t]))'
      BY <2>1, <3>1 DEF JobFits, EmbedFits, TodoFits
    <3>4. WriteFits(job[t])'
      BY <2>1, <3>1 DEF JobFits, WriteFits
    <3>5. QED
      BY <3>2, <3>3, <3>4 DEF JobFits
  <2>5. QED
    BY <1>2, <2>2, <2>3, <2>4 DEF IndexInv, IndexFits
<1>4. ASSUME NEW t \in Threads, JobStep(t) \/ Request(t) PROVE IndexFits'
  BY <1>1, <1>4, JobStepFits, RequestFits
<1>5. CASE OutsideWrite \/ RemoveByHand
  BY <1>1, <1>2, <1>5, OutsideFits, RemoveFits DEF IndexInv
<1>6. ASSUME NEW p \in Processes, Kill(p) PROVE IndexFits'
  BY <1>1, <1>6, KillFits
<1>7. QED
  BY <1>2, <1>3, <1>4, <1>5, <1>6 DEF RecNext, IndexInv

\* At first there is nothing to index.
LEMMA IndexStarts == RecInit => IndexInv
<1>1. SUFFICES ASSUME RecInit PROVE IndexInv
  OBVIOUS
<1>2. /\ file = NoFiles /\ disk = Blank /\ DOMAIN file = {}
      /\ mem = [p \in Processes |-> Blank] /\ job = [t \in Threads |-> Idle]
  BY <1>1 DEF RecInit, NoFiles
<1>3. BookInv
  BY <1>1, BookStarts
<1>4. RanksFollow
  BY <1>2 DEF RanksFollow, FilesOf
<1>5. Blank = [man |-> Blank.man, queue |-> Blank.queue] /\ DOMAIN Blank.man = {}
  BY DEF Blank
<1>6. MemType /\ CopiesMeet
  BY <1>2, <1>5 DEF MemType, CopiesMeet, Idle
<1>7. ManifestsSound
  BY <1>2, <1>5 DEF ManifestsSound, Manifests, Sound
<1>8. ASSUME NEW t \in Threads PROVE JobFits(job[t])
  <2>1. job[t].pc = "idle" /\ job[t].who = "server"
    BY <1>2 DEF Idle
  <2>2. QED
    BY <2>1 DEF JobFits, ServerWork, MarkFits, EmbedFits, TodoFits, WriteFits, PublishFits
<1>9. QED
  BY <1>3, <1>4, <1>6, <1>7, <1>8 DEF IndexInv, IndexFits

(***************************************************************************)
(* What the integrity check calls healthy is: whatever a command, a kill,  *)
(* a failed embedding or a write outside did to files, manifest and        *)
(* vectors, a document that is listed as indexed with the checksum of its  *)
(* file has that file's text in the vector store.                          *)
(***************************************************************************)
THEOREM HealthyIsTrue == ASSUME OneThread PROVE RecSpec => []IntegrityIsTrue
<1>1. RecInit => IndexInv
  BY IndexStarts
<1>2. ASSUME IndexInv, [RecNext]_recVars PROVE IndexInv'
  BY <1>2, IndexKept
<1>3. ASSUME IndexInv PROVE IntegrityIsTrue
  <2>1. SUFFICES ASSUME NEW p \in Processes, NEW d \in DOMAIN mem[p].man, Healthy(mem[p].man, d)
                 PROVE  vec[d] = file[d]
    BY DEF IntegrityIsTrue
  <2>2. Sound(mem[p].man)
    BY <1>3 DEF IndexInv, IndexFits, ManifestsSound, Manifests
  <2>3. SoundEntry(d, mem[p].man[d])
    BY <2>2 DEF Sound
  <2>4. QED
    BY <2>1, <2>3 DEF SoundEntry, Healthy
<1>4. QED
  BY <1>1, <1>2, <1>3, PTL DEF RecSpec

-----------------------------------------------------------------------------
(***************************************************************************)
(* A reconcile.  What it still has to take up, what it has in hand, and    *)
(* that everything else is as it should be.                                *)
(***************************************************************************)
HealWay(z) ==
    /\ z.pc = "reconciled" => z.last = "reconciled"
    /\ z.last = "reconciled" =>
           /\ z.pc \in {"pick", "refresh", "embed", "settle", "reconciled"}
           /\ z.pc \in {"embed", "settle"} => z.back = "refresh"
           /\ z.pc = "pick" => z.limit = NoLimit
           /\ z.pc = "reconciled" => z.todo = {}

Due(z, m) == IF z.pc = "pick" THEN {d \in DOMAIN m : m[d].status # "indexed"} ELSE z.todo

Busy(z) == IF z.pc \in {"embed", "settle"} THEN {z.doc} ELSE {}

HealFits(z, m) ==
    z.last = "reconciled" =>
        /\ \A d \in DOMAIN file \ z.missed :
              /\ d \in DOMAIN m /\ m[d].sum = file[d]
              /\ m[d].status \in {"indexed", "failed"} \/ d \in Due(z, m) \cup Busy(z)
        /\ DOMAIN vec \subseteq DOMAIN file \cup z.missed \cup Due(z, m)
        /\ Busy(z) \subseteq DOMAIN file \cup z.missed

Heals == \A t \in Threads : HealWay(job[t]) /\ HealFits(job[t], Man(t))

HealInv == IndexInv /\ Heals

\* A step that is no reconcile begins none.
LEMMA LastGoesOn ==
    ASSUME FilesInv, NEW t \in Threads, JobStep(t), ~Reconcile(t), job[t].last # "reconciled"
    PROVE  job'[t].last # "reconciled" /\ job'[t].pc # "reconciled"
<1>1. JobsType /\ FilesType /\ JobShape(job[t]) /\ JobWay(job[t])
  BY DEF FilesInv, JobsType
<1>2. ASSUME Done(t) PROVE job'[t].last # "reconciled" /\ job'[t].pc # "reconciled"
  BY <1>1, <1>2, JobEnds DEF Idle
<1>3. ASSUME NEW pc, Go(t, pc), pc # "reconciled"
      PROVE  job'[t].last # "reconciled" /\ job'[t].pc # "reconciled"
  BY <1>1, <1>3, JobGoes
<1>4. ASSUME NEW z, job' = [job EXCEPT ![t] = z], z.last \in {job[t].last, "promoted"},
             z.pc # "reconciled"
      PROVE  job'[t].last # "reconciled" /\ job'[t].pc # "reconciled"
  <2>1. job'[t] = z
    BY <1>1, <1>4, JobIsPut
  <2>2. QED
    BY <1>4, <2>1
<1>5. ASSUME NEW x, NEW pc \in {"embed", "publish"}, job' = [job EXCEPT ![t].pc = pc, ![t].text = x]
      PROVE  job'[t].last # "reconciled" /\ job'[t].pc # "reconciled"
  <2>1. PICK z : z = [job[t] EXCEPT !.pc = pc, !.text = x]
    OBVIOUS
  <2>2. z.last = job[t].last /\ z.pc = pc
    BY <1>1, <2>1 DEF JobShape
  <2>3. job' = [job EXCEPT ![t] = z]
    BY <1>5, <2>1
  <2>4. pc # "reconciled"
    OBVIOUS
  <2>5. QED
    BY <1>4, <2>2, <2>3, <2>4
<1>6. CASE Finish(t) \/ Create(t) \/ Unlink(t)
  BY <1>2, <1>6 DEF Finish, Create, Unlink
<1>7. CASE MarkStep(t)
  <2>1. Go(t, job[t].then) /\ job[t].then # "reconciled"
    BY <1>1, <1>7 DEF MarkStep, At, JobWay
  <2>2. QED
    BY <1>3, <2>1
<1>8. CASE RepairStep(t)
  <2>1. job[t].back # "reconciled"
    BY <1>1, <1>8 DEF RepairStep, At, JobWay
  <2>2. \/ Go(t, job[t].back)
        \/ job' = [job EXCEPT ![t].pc = "embed", ![t].text = file[job[t].doc]]
    BY <1>8 DEF RepairStep
  <2>3. QED
    BY <1>3, <1>5, <2>1, <2>2
<1>9. CASE Embed(t) \/ EmbedFails(t) \/ Settle(t)
  <2>1. job[t].back # "reconciled"
    BY <1>1, <1>9 DEF Embed, EmbedFails, Settle, At, JobWay
  <2>2. Go(t, job[t].back) \/ Go(t, "settle")
    BY <1>9 DEF Embed, EmbedFails, Settle
  <2>3. QED
    BY <1>3, <2>1, <2>2
<1>10. CASE RefreshPick(t)
  <2>1. PICK Q : job' = [job EXCEPT ![t].pc = "refresh", ![t].back = "refresh", ![t].todo = Q]
    BY <1>10 DEF RefreshPick
  <2>2. QED
    BY <1>1, <2>1, JobPicks
<1>11. CASE RefreshStep(t)
  <2>1. CASE Go(t, job[t].last)
    BY <1>3, <2>1
  <2>2. ASSUME NEW d, job' = [job EXCEPT ![t].todo = @ \ {d}], job[t].pc = "refresh"
        PROVE  job'[t].last # "reconciled" /\ job'[t].pc # "reconciled"
    BY <1>1, <2>2, JobDrops
  <2>3. ASSUME NEW d, NEW x, job' = [job EXCEPT ![t].todo = @ \ {d}, ![t].doc = d, ![t].pc = "embed",
                                                ![t].text = x]
        PROVE  job'[t].last # "reconciled" /\ job'[t].pc # "reconciled"
    <3>1. PICK z : z = [job[t] EXCEPT !.todo = @ \ {d}, !.doc = d, !.pc = "embed", !.text = x]
      OBVIOUS
    <3>2. z.last = job[t].last /\ z.pc = "embed"
      BY <1>1, <3>1 DEF JobShape
    <3>3. job' = [job EXCEPT ![t] = z]
      BY <2>3, <3>1
    <3>4. QED
      BY <1>4, <3>2, <3>3
  <2>4. job[t].pc = "refresh"
    BY <1>11 DEF RefreshStep, At
  <2>5. \/ Go(t, job[t].last)
        \/ \E d : job' = [job EXCEPT ![t].todo = @ \ {d}]
        \/ \E d, x : job' = [job EXCEPT ![t].todo = @ \ {d}, ![t].doc = d, ![t].pc = "embed",
                                       ![t].text = x]
    BY <1>11 DEF RefreshStep
  <2>6. CASE \E d : job' = [job EXCEPT ![t].todo = @ \ {d}]
    <3>1. PICK d : job' = [job EXCEPT ![t].todo = @ \ {d}]
      BY <2>6
    <3>2. QED
      BY <2>2, <2>4, <3>1
  <2>7. CASE \E d, x : job' = [job EXCEPT ![t].todo = @ \ {d}, ![t].doc = d, ![t].pc = "embed",
                                         ![t].text = x]
    <3>1. PICK d, x : job' = [job EXCEPT ![t].todo = @ \ {d}, ![t].doc = d, ![t].pc = "embed",
                                         ![t].text = x]
      BY <2>7
    <3>2. QED
      BY <2>3, <3>1
  <2>8. QED
    BY <2>1, <2>5, <2>6, <2>7
<1>12. CASE Gate(t)
  <2>1. ASSUME NEW d, job' = [job EXCEPT ![t].pc = "verify", ![t].doc = d, ![t].back = "verify"]
        PROVE  job'[t].last # "reconciled" /\ job'[t].pc # "reconciled"
    BY <1>1, <2>1, JobGates
  <2>2. QED
    BY <1>2, <1>12, <2>1 DEF Gate
<1>13. CASE Verify(t)
  <2>1. CASE job' = [job EXCEPT ![t].pc = "repair", ![t].tries = @ + 1]
    <3>1. PICK z : z = [job[t] EXCEPT !.pc = "repair", !.tries = @ + 1]
      OBVIOUS
    <3>2. z.last = job[t].last /\ z.pc = "repair"
      BY <1>1, <3>1 DEF JobShape
    <3>3. job' = [job EXCEPT ![t] = z]
      BY <2>1, <3>1
    <3>4. QED
      BY <1>4, <3>2, <3>3
  <2>2. QED
    BY <1>2, <1>3, <1>13, <2>1 DEF Verify
<1>14. CASE Save(t)
  <2>1. ASSUME NEW d, job' = [job EXCEPT ![t].pc = "unlink", ![t].doc = d]
        PROVE  job'[t].last # "reconciled" /\ job'[t].pc # "reconciled"
    BY <1>1, <2>1, JobUnlinks
  <2>2. QED
    BY <1>2, <1>14, <2>1 DEF Save
<1>15. CASE Promote(t) \/ Promoted(t)
  <2>1. ASSUME Skip(t) PROVE job'[t].last # "reconciled" /\ job'[t].pc # "reconciled"
    BY <1>1, <2>1, JobSkips DEF Skip
  <2>2. QED
    BY <1>5, <1>15, <2>1 DEF Promote, Promoted
<1>16. CASE Publish(t)
  <2>1. PICK d, x : job' = [job EXCEPT ![t].pc = "mark", ![t].doc = d, ![t].then = "pick",
                                      ![t].limit = 1, ![t].last = "promoted", ![t].text = x]
    BY <1>16 DEF Publish
  <2>2. PICK z : z = [job[t] EXCEPT !.pc = "mark", !.doc = d, !.then = "pick", !.limit = 1,
                                    !.last = "promoted", !.text = x]
    OBVIOUS
  <2>3. z.last = "promoted" /\ z.pc = "mark"
    BY <1>1, <2>2 DEF JobShape
  <2>4. job' = [job EXCEPT ![t] = z]
    BY <2>1, <2>2
  <2>5. QED
    BY <1>4, <2>3, <2>4
<1>17. CASE Write(t)
  <2>1. PICK x : job' = [job EXCEPT ![t].pc = "mark", ![t].then = "repair", ![t].back = "end",
                                   ![t].text = x]
    BY <1>17 DEF Write
  <2>2. PICK z : z = [job[t] EXCEPT !.pc = "mark", !.then = "repair", !.back = "end", !.text = x]
    OBVIOUS
  <2>3. z.last = job[t].last /\ z.pc = "mark"
    BY <1>1, <2>2 DEF JobShape
  <2>4. job' = [job EXCEPT ![t] = z]
    BY <2>1, <2>2
  <2>5. QED
    BY <1>4, <2>3, <2>4
<1>18. QED
  BY <1>6, <1>7, <1>8, <1>9, <1>10, <1>11, <1>12, <1>13, <1>14, <1>15, <1>16, <1>17 DEF JobStep

-----------------------------------------------------------------------------
\* One thread: what holds of its job holds of all.
LEMMA HealsOfOne ==
    ASSUME OneThread, NEW t \in Threads, NEW z, job'[t] = z, NEW m, m = mem'[z.who].man,
           HealWay(z), HealFits(z, m)'
    PROVE  Heals'
<1>1. \A s \in Threads : s = t
  BY DEF OneThread
<1>2. Man(t)' = m
  BY DEF Man
<1>3. HealFits(job[t], Man(t))'
  BY <1>2 DEF HealFits, Due, Busy
<1>4. HealWay(job[t])'
  BY DEF HealWay
<1>5. QED
  BY <1>1, <1>3, <1>4 DEF Heals

\* A job that is no reconcile.
LEMMA HealsFreely ==
    ASSUME OneThread, NEW t \in Threads, job'[t].last # "reconciled", job'[t].pc # "reconciled"
    PROVE  Heals'
<1>1. \A s \in Threads : s = t
  BY DEF OneThread
<1>2. QED
  BY <1>1 DEF Heals, HealWay, HealFits

\* The job that a step of a reconcile starts from.
LEMMA HealsFrom ==
    ASSUME HealInv, NEW t \in Threads
    PROVE  /\ BookInv /\ RanksFollow /\ IndexFits /\ JobsType /\ FilesType /\ JobShape(job[t])
           /\ JobWay(job[t]) /\ EmbedFits(job[t]) /\ TodoFits(job[t]) /\ Sound(Man(t))
           /\ Man(t) = mem[job[t].who].man /\ HealWay(job[t]) /\ HealFits(job[t], Man(t))
<1>1. BookInv /\ RanksFollow /\ IndexFits /\ Heals
  BY DEF HealInv, IndexInv
<1>2. /\ JobsType /\ FilesType /\ JobShape(job[t]) /\ JobWay(job[t]) /\ EmbedFits(job[t])
      /\ TodoFits(job[t]) /\ Sound(Man(t)) /\ Man(t) = mem[job[t].who].man
  BY <1>1, AtWork
<1>3. HealWay(job[t]) /\ HealFits(job[t], Man(t))
  BY <1>1 DEF Heals
<1>4. QED
  BY <1>1, <1>2, <1>3

\* Files, manifest and vectors are compared: the rest of it is due.
LEMMA ReconcileHealing ==
    ASSUME HealInv, OneThread, NEW t \in Threads, Reconcile(t)
    PROVE  Heals'
<1>1. /\ BookInv /\ IndexFits /\ JobsType /\ FilesType /\ JobShape(job[t]) /\ Sound(Man(t))
      /\ job[t].who \in Processes /\ MemType
  BY HealsFrom, AtWork
<1>2. PICK old : old = Man(t)
  OBVIOUS
<1>3. PICK m : m = [d \in DOMAIN old \cup DOMAIN file |->
                       IF d \in DOMAIN file THEN Mark(old, d, file[d])[d]
                       ELSE SetStatus(old, d, "deleted")[d]]
  OBVIOUS
<1>4. /\ SaveManifest(t, m) /\ vec' = Restrict(vec, DOMAIN vec \cap DOMAIN m) /\ UNCHANGED file
  BY <1>2, <1>3 DEF Reconcile
<1>5. PICK z : z = [job[t] EXCEPT !.pc = "pick", !.limit = NoLimit, !.last = "reconciled"]
  OBVIOUS
<1>6. job' = [job EXCEPT ![t] = z]
  BY <1>5 DEF Reconcile
<1>7. job'[t] = z
  BY <1>1, <1>6, JobIsPut
<1>8. z.pc = "pick" /\ z.limit = NoLimit /\ z.last = "reconciled" /\ z.who = job[t].who
  BY <1>1, <1>5 DEF JobShape
<1>9. mem'[z.who].man = m
  BY <1>1, <1>4, <1>8 DEF SaveManifest, MemType
<1>10. DOMAIN m = DOMAIN old \cup DOMAIN file
  BY <1>3
<1>11. ASSUME NEW d \in DOMAIN file PROVE d \in DOMAIN m /\ m[d].sum = file[d]
  <2>1. PICK x : x = file[d]
    OBVIOUS
  <2>2. Mark(old, d, x)[d].sum = x
    BY DEF Mark, Put, Entry
  <2>3. m[d] = Mark(old, d, x)[d]
    BY <1>3, <1>10, <2>1
  <2>4. QED
    BY <1>10, <2>1, <2>2, <2>3
<1>12. ASSUME NEW d \in DOMAIN m, d \notin DOMAIN file PROVE m[d].status = "deleted"
  <2>1. d \in DOMAIN old /\ m[d] = SetStatus(old, d, "deleted")[d] /\ Sound(old)
    BY <1>1, <1>2, <1>3, <1>10, <1>12
  <2>2. SetStatus(old, d, "deleted")[d].status = "deleted"
    BY <1>12, <2>1, StatusIsSound
  <2>3. QED
    BY <2>1, <2>2
<1>13. DOMAIN vec' \subseteq DOMAIN m
  BY <1>4 DEF Restrict
<1>14. HealFits(z, m)'
  <2>1. \A d \in DOMAIN file : m[d].status = "indexed" \/ d \in Due(z, m)
    BY <1>8, <1>11 DEF Due
  <2>2. \A d \in DOMAIN vec' : d \in DOMAIN file \/ d \in Due(z, m)
    BY <1>8, <1>12, <1>13 DEF Due
  <2>3. Busy(z) = {} /\ Due(z, m)' = Due(z, m) /\ Busy(z)' = Busy(z)
    BY <1>8 DEF Due, Busy
  <2>4. QED
    BY <1>4, <1>11, <2>1, <2>2, <2>3 DEF HealFits
<1>15. HealWay(z)
  BY <1>8 DEF HealWay
<1>16. QED
  BY <1>7, <1>9, <1>14, <1>15, HealsOfOne

\* All that is not indexed is taken up.
LEMMA PickHealing ==
    ASSUME HealInv, OneThread, NEW t \in Threads, RefreshPick(t), job[t].last = "reconciled"
    PROVE  Heals'
<1>1. /\ JobsType /\ JobShape(job[t]) /\ Sound(Man(t)) /\ Man(t) = mem[job[t].who].man
      /\ HealWay(job[t]) /\ HealFits(job[t], Man(t))
  BY HealsFrom
<1>2. job[t].pc = "pick" /\ UNCHANGED <<file, vec, mem>> /\ job[t].limit = NoLimit
  BY <1>1 DEF RefreshPick, At, HealWay
<1>3. PICK m : m = Man(t)
  OBVIOUS
<1>4. PICK Q \in Queues(m, NoLimit) :
         job' = [job EXCEPT ![t].pc = "refresh", ![t].back = "refresh", ![t].todo = Q]
  BY <1>2, <1>3 DEF RefreshPick
<1>5. PICK z : z = job'[t]
  OBVIOUS
<1>6. /\ z.pc = "refresh" /\ z.todo = Q /\ z.last = "reconciled" /\ z.who = job[t].who
      /\ z.missed = job[t].missed
  BY <1>1, <1>4, <1>5, JobPicks
<1>7. Due(job[t], m) \subseteq Q
  <2>1. ASSUME NEW d \in DOMAIN m, m[d].status # "indexed" PROVE d \in Q
    <3>1. m[d].status \in {"pending", "stale", "failed", "deleted"}
      BY <1>1, <1>3, <2>1 DEF Sound, SoundEntry
    <3>2. PICK s \in {"pending", "stale", "failed", "deleted"} : d \in Dirty(m, s)
      BY <3>1 DEF Dirty
    <3>3. Q = UNION {Dirty(m, k) : k \in {"pending", "stale", "failed", "deleted"}}
      BY <1>4 DEF Queues
    <3>4. QED
      BY <3>2, <3>3
  <2>2. QED
    BY <1>2, <2>1 DEF Due
<1>8. m = mem'[z.who].man
  BY <1>1, <1>2, <1>3, <1>6
<1>9. HealFits(z, m)'
  <2>1. Busy(job[t]) = {} /\ Busy(z)' = {} /\ Due(z, m)' = Q
    BY <1>2, <1>6 DEF Busy, Due
  <2>2. /\ \A d \in DOMAIN file \ job[t].missed :
              /\ d \in DOMAIN m /\ m[d].sum = file[d]
              /\ m[d].status \in {"indexed", "failed"} \/ d \in Q
        /\ DOMAIN vec \subseteq DOMAIN file \cup job[t].missed \cup Q
    BY <1>1, <1>3, <1>7, <2>1 DEF HealFits
  <2>3. QED
    BY <1>2, <1>6, <2>1, <2>2 DEF HealFits
<1>10. HealWay(z)
  BY <1>6 DEF HealWay
<1>11. QED
  BY <1>5, <1>8, <1>9, <1>10, HealsOfOne

\* A text is embedded, of a document that is there or was missed.
LEMMA EmbedHealing ==
    ASSUME HealInv, OneThread, NEW t \in Threads, Embed(t), job[t].last = "reconciled"
    PROVE  Heals'
<1>1. /\ JobsType /\ Man(t) = mem[job[t].who].man /\ HealWay(job[t]) /\ HealFits(job[t], Man(t))
  BY HealsFrom
<1>2. /\ job[t].pc = "embed" /\ Go(t, "settle") /\ UNCHANGED <<file, mem>>
      /\ vec' = Put(vec, job[t].doc, job[t].text)
  BY DEF Embed, At
<1>3. PICK z, m : z = job'[t] /\ m = Man(t)
  OBVIOUS
<1>4. /\ z.pc = "settle" /\ z.last = "reconciled" /\ z.who = job[t].who /\ z.doc = job[t].doc
      /\ z.back = job[t].back /\ z.todo = job[t].todo /\ z.missed = job[t].missed
  BY <1>1, <1>2, <1>3, JobGoes
<1>5. DOMAIN vec' = DOMAIN vec \cup {job[t].doc}
  BY <1>2 DEF Put
<1>6. /\ Busy(job[t]) = {job[t].doc} /\ Busy(z)' = {job[t].doc}
      /\ Due(job[t], m) = job[t].todo /\ Due(z, m)' = job[t].todo
  BY <1>2, <1>4 DEF Busy, Due
<1>7. m = mem'[z.who].man
  BY <1>1, <1>2, <1>3, <1>4
<1>8. HealFits(z, m)'
  BY <1>1, <1>2, <1>3, <1>4, <1>5, <1>6 DEF HealFits
<1>9. HealWay(z)
  BY <1>1, <1>2, <1>4 DEF HealWay
<1>10. QED
  BY <1>3, <1>7, <1>8, <1>9, HealsOfOne

\* A document is indexed or has failed, as its file says.
LEMMA SettleHealing ==
    ASSUME HealInv, OneThread, NEW t \in Threads, EmbedFails(t) \/ Settle(t),
           job[t].last = "reconciled"
    PROVE  Heals'
<1>1. /\ JobsType /\ Man(t) = mem[job[t].who].man /\ HealWay(job[t]) /\ HealFits(job[t], Man(t))
      /\ Sound(Man(t)) /\ EmbedFits(job[t]) /\ BookInv /\ IndexFits
  BY HealsFrom
<1>2. PICK s \in {"failed", "indexed"} : SaveManifest(t, SetStatus(Man(t), job[t].doc, s))
  BY DEF EmbedFails, Settle
<1>3. job[t].pc \in {"embed", "settle"} /\ Go(t, job[t].back) /\ UNCHANGED <<file, vec>>
  BY DEF EmbedFails, Settle, At
<1>4. job[t].back = "refresh"
  BY <1>1, <1>3 DEF HealWay
<1>5. PICK z, d, old : z = job'[t] /\ d = job[t].doc /\ old = Man(t)
  OBVIOUS
<1>6. PICK m : m = [old EXCEPT ![d].status = s]
  OBVIOUS
<1>7. /\ z.pc = "refresh" /\ z.last = "reconciled" /\ z.who = job[t].who /\ z.back = "refresh"
      /\ z.todo = job[t].todo /\ z.missed = job[t].missed
  BY <1>1, <1>3, <1>4, <1>5, JobGoes
<1>8. d \in DOMAIN old
  BY <1>1, <1>3, <1>5 DEF EmbedFits
<1>9. /\ DOMAIN m = DOMAIN old /\ \A c \in DOMAIN old : c # d => m[c] = old[c]
      /\ m[d].sum = old[d].sum /\ m[d].status = s
  <2>1. old[d] = [sum |-> old[d].sum, status |-> old[d].status]
    BY <1>1, <1>5, <1>8 DEF Sound, SoundEntry
  <2>2. PICK y : y = old[d]
    OBVIOUS
  <2>3. m = [old EXCEPT ![d] = [y EXCEPT !.status = s]]
    BY <1>6, <2>2
  <2>4. [y EXCEPT !.status = s].sum = y.sum /\ [y EXCEPT !.status = s].status = s
    BY <2>1, <2>2
  <2>5. QED
    BY <1>8, <2>2, <2>3, <2>4
<1>10. SaveManifest(t, m)
  BY <1>2, <1>5, <1>6 DEF SetStatus
<1>11. m = mem'[z.who].man
  <2>1. MemType /\ job[t].who \in Processes
    BY <1>1, AtWork
  <2>2. QED
    BY <1>7, <1>10, <2>1 DEF SaveManifest, MemType
<1>12. /\ Busy(job[t]) = {d} /\ Busy(z)' = {}
       /\ Due(job[t], old) = job[t].todo /\ Due(z, m)' = job[t].todo
  BY <1>3, <1>5, <1>7 DEF Busy, Due
<1>13. HealFits(z, m)'
  <2>1. /\ \A c \in DOMAIN file \ job[t].missed :
              /\ c \in DOMAIN old /\ old[c].sum = file[c]
              /\ old[c].status \in {"indexed", "failed"} \/ c \in job[t].todo \cup {d}
        /\ DOMAIN vec \subseteq DOMAIN file \cup job[t].missed \cup job[t].todo
    BY <1>1, <1>5, <1>12 DEF HealFits
  <2>2. \A c \in DOMAIN file \ job[t].missed :
              /\ c \in DOMAIN m /\ m[c].sum = file[c]
              /\ m[c].status \in {"indexed", "failed"} \/ c \in job[t].todo
    BY <1>9, <2>1
  <2>3. QED
    BY <1>3, <1>7, <1>12, <2>1, <2>2 DEF HealFits
<1>14. HealWay(z)
  BY <1>7 DEF HealWay
<1>15. QED
  BY <1>5, <1>11, <1>13, <1>14, HealsOfOne

\* A refresh ends with nothing left to take up, drops a vector or takes up a document.
LEMMA RefreshHealing ==
    ASSUME HealInv, OneThread, NEW t \in Threads, RefreshStep(t), job[t].last = "reconciled"
    PROVE  Heals'
<1>1. /\ JobsType /\ FilesType /\ JobShape(job[t]) /\ JobWay(job[t]) /\ TodoFits(job[t])
      /\ Man(t) = mem[job[t].who].man /\ HealFits(job[t], Man(t)) /\ Sound(Man(t))
      /\ BookInv /\ IndexFits
  BY HealsFrom
<1>2. MemType /\ job[t].who \in Processes
  BY <1>1, AtWork
<1>3. job[t].pc = "refresh" /\ job[t].back = "refresh" /\ UNCHANGED file
  BY <1>1 DEF RefreshStep, At, JobWay
<1>4. PICK old : old = Man(t)
  OBVIOUS
<1>5. \A d \in job[t].todo : d \in DOMAIN old /\ old[d].status # "indexed"
  BY <1>1, <1>3, <1>4 DEF TodoFits
<1>6. /\ \A c \in DOMAIN file \ job[t].missed :
            /\ c \in DOMAIN old /\ old[c].sum = file[c]
            /\ old[c].status \in {"indexed", "failed"} \/ c \in job[t].todo
      /\ DOMAIN vec \subseteq DOMAIN file \cup job[t].missed \cup job[t].todo
  <2>1. Due(job[t], old) = job[t].todo /\ Busy(job[t]) = {}
    BY <1>3 DEF Due, Busy
  <2>2. QED
    BY <1>1, <1>4, <2>1 DEF HealFits
<1>7. CASE job[t].todo = {} /\ Go(t, job[t].last) /\ UNCHANGED <<vec, mem, disk>>
  <2>1. PICK z : z = job'[t]
    OBVIOUS
  <2>2. /\ z.pc = "reconciled" /\ z.last = "reconciled" /\ z.who = job[t].who /\ z.todo = {}
        /\ z.missed = job[t].missed
    BY <1>1, <1>7, <2>1, JobGoes
  <2>3. old = mem'[z.who].man
    BY <1>1, <1>4, <1>7, <2>2
  <2>4. HealFits(z, old)'
    <3>1. Due(z, old)' = {} /\ Busy(z)' = {} /\ job[t].todo = {}
      BY <1>7, <2>2 DEF Due, Busy
    <3>2. QED
      BY <1>3, <1>6, <1>7, <2>2, <3>1 DEF HealFits
  <2>5. HealWay(z)
    BY <2>2 DEF HealWay
  <2>6. QED
    BY <2>1, <2>3, <2>4, <2>5, HealsOfOne
<1>8. ASSUME NEW d \in job[t].todo, Man(t)[d].status = "deleted" \/ d \notin DOMAIN file,
             DropVector(t, d), job' = [job EXCEPT ![t].todo = @ \ {d}]
      PROVE  Heals'
  <2>1. PICK z, m : z = job'[t] /\ m = SetStatus(old, d, "deleted")
    OBVIOUS
  <2>2. /\ z.pc = "refresh" /\ z.last = "reconciled" /\ z.who = job[t].who
        /\ z.todo = job[t].todo \ {d} /\ z.missed = job[t].missed
    BY <1>1, <1>3, <1>8, <2>1, JobDrops
  <2>3. d \in DOMAIN old /\ d \notin DOMAIN file
    BY <1>1, <1>4, <1>5, <1>8 DEF Sound, SoundEntry
  <2>4. DOMAIN m = DOMAIN old /\ \A c \in DOMAIN old : c # d => m[c] = old[c]
    BY <2>1 DEF SetStatus
  <2>5. DOMAIN vec' = DOMAIN vec \ {d} /\ SaveManifest(t, m)
    BY <1>4, <1>8, <2>1 DEF DropVector, Without, Restrict
  <2>6. m = mem'[z.who].man
    BY <1>2, <2>2, <2>5 DEF SaveManifest, MemType
  <2>7. HealFits(z, m)'
    <3>1. Due(z, m)' = job[t].todo \ {d} /\ Busy(z)' = {}
      BY <2>2 DEF Due, Busy
    <3>2. \A c \in DOMAIN file \ job[t].missed :
              /\ c \in DOMAIN m /\ m[c].sum = file[c]
              /\ m[c].status \in {"indexed", "failed"} \/ c \in job[t].todo \ {d}
      BY <1>6, <2>3, <2>4
    <3>3. QED
      BY <1>3, <1>6, <2>2, <2>5, <3>1, <3>2 DEF HealFits
  <2>8. HealWay(z)
    BY <2>2 DEF HealWay
  <2>9. QED
    BY <2>1, <2>6, <2>7, <2>8, HealsOfOne
<1>9. ASSUME NEW d \in job[t].todo, d \in DOMAIN file,
             SaveManifest(t, [Man(t) EXCEPT ![d].sum = file[d]]), UNCHANGED vec,
             job' = [job EXCEPT ![t].todo = @ \ {d}, ![t].doc = d, ![t].pc = "embed",
                                ![t].text = file[d]]
      PROVE  Heals'
  <2>1. PICK x, y : x = file[d] /\ y = old[d]
    OBVIOUS
  <2>2. d \in DOMAIN old /\ SoundEntry(d, y) /\ d \in DOMAIN file
    BY <1>1, <1>4, <1>5, <1>9, <2>1 DEF Sound
  <2>3. PICK e : e = [y EXCEPT !.sum = x]
    OBVIOUS
  <2>4. e.sum = x
    BY <2>2, <2>3 DEF SoundEntry
  <2>5. PICK m : m = [old EXCEPT ![d] = e]
    OBVIOUS
  <2>6. SaveManifest(t, m)
    BY <1>4, <1>9, <2>1, <2>3, <2>5
  <2>7. DOMAIN m = DOMAIN old /\ m[d] = e /\ \A c \in DOMAIN old : c # d => m[c] = old[c]
    BY <2>2, <2>5
  <2>8. PICK z : z = [job[t] EXCEPT !.todo = @ \ {d}, !.doc = d, !.pc = "embed", !.text = x]
    OBVIOUS
  <2>9. job'[t] = z
    <3>1. job' = [job EXCEPT ![t] = z]
      BY <1>9, <2>1, <2>8
    <3>2. QED
      BY <1>1, <3>1, JobIsPut
  <2>10. /\ z.todo = job[t].todo \ {d} /\ z.doc = d /\ z.pc = "embed" /\ z.who = job[t].who
         /\ z.back = "refresh" /\ z.last = "reconciled" /\ z.missed = job[t].missed
    <3>1. /\ z.todo = job[t].todo \ {d} /\ z.doc = d /\ z.pc = "embed" /\ z.who = job[t].who
          /\ z.back = job[t].back /\ z.last = job[t].last /\ z.missed = job[t].missed
      BY <1>1, <2>8 DEF JobShape
    <3>2. QED
      BY <1>3, <3>1
  <2>11. m = mem'[z.who].man
    BY <1>2, <2>6, <2>10 DEF SaveManifest, MemType
  <2>12. HealFits(z, m)'
    <3>1. Due(z, m)' = job[t].todo \ {d} /\ Busy(z)' = {d}
      BY <2>10 DEF Due, Busy
    <3>2. \A c \in DOMAIN file \ job[t].missed :
              /\ c \in DOMAIN m /\ m[c].sum = file[c]
              /\ m[c].status \in {"indexed", "failed"} \/ c \in (job[t].todo \ {d}) \cup {d}
      BY <1>6, <2>1, <2>4, <2>7
    <3>3. DOMAIN vec \subseteq DOMAIN file \cup job[t].missed \cup (job[t].todo \ {d})
      BY <1>6, <2>2
    <3>4. UNCHANGED <<file, vec>>
      BY <1>3, <1>9
    <3>5. QED
      BY <2>2, <2>10, <3>1, <3>2, <3>3, <3>4 DEF HealFits
  <2>13. HealWay(z)
    BY <2>10 DEF HealWay
  <2>14. QED
    BY <2>9, <2>11, <2>12, <2>13, HealsOfOne
<1>10. QED
  BY <1>7, <1>8, <1>9 DEF RefreshStep

\* A step of a job leaves reconciles healing.
LEMMA JobStepHeals ==
    ASSUME HealInv, OneThread, NEW t \in Threads, JobStep(t)
    PROVE  Heals'
<1>1. FilesInv /\ HealWay(job[t]) /\ JobsType
  BY HealsFrom DEF BookInv
<1>2. CASE Reconcile(t)
  BY <1>2, ReconcileHealing
<1>3. CASE job[t].last # "reconciled" /\ ~Reconcile(t)
  BY <1>1, <1>3, LastGoesOn, HealsFreely
<1>4. CASE job[t].last = "reconciled"
  <2>1. job[t].pc \in {"pick", "refresh", "embed", "settle", "reconciled"}
    BY <1>1, <1>4 DEF HealWay
  <2>2. CASE Finish(t)
    <3>1. job'[t].last # "reconciled" /\ job'[t].pc # "reconciled"
      BY <1>1, <2>2, JobEnds DEF Finish, Idle
    <3>2. QED
      BY <3>1, HealsFreely
  <2>3. ~(MarkStep(t) \/ RepairStep(t) \/ Create(t) \/ Gate(t) \/ Verify(t) \/ Save(t) \/ Unlink(t))
    BY <2>1 DEF MarkStep, RepairStep, Create, Gate, Verify, Save, Unlink, At
  <2>4. ~(Promote(t) \/ Publish(t) \/ Promoted(t) \/ Write(t))
    BY <2>1 DEF Promote, Publish, Promoted, Write, At
  <2>5. QED
    BY <1>2, <1>4, <2>2, <2>3, <2>4, PickHealing, RefreshHealing, EmbedHealing, SettleHealing
    DEF JobStep
<1>5. QED
  BY <1>2, <1>3, <1>4

\* What is changed beside a reconcile it has missed.
LEMMA MissedHeals ==
    ASSUME HealInv, NEW d, Miss(d), UNCHANGED <<vec, mem>>,
           DOMAIN file' \cup {d} = DOMAIN file \cup {d},
           \A e \in DOMAIN file : e # d => file'[e] = file[e]
    PROVE  Heals'
<1>1. JobsType
  BY DEF HealInv, IndexInv, BookInv, FilesInv
<1>2. ASSUME NEW t \in Threads PROVE (HealWay(job[t]) /\ HealFits(job[t], Man(t)))'
  <2>1. JobShape(job[t]) /\ HealWay(job[t]) /\ HealFits(job[t], Man(t))
    BY HealsFrom
  <2>2. /\ job'[t].pc = job[t].pc /\ job'[t].who = job[t].who /\ job'[t].doc = job[t].doc
        /\ job'[t].back = job[t].back /\ job'[t].last = job[t].last /\ job'[t].todo = job[t].todo
        /\ job'[t].missed = IF job[t].last = "reconciled" THEN job[t].missed \cup {d}
                            ELSE job[t].missed
    BY <1>1, JobMisses
  <2>3. job'[t].limit = job[t].limit
    <3>1. job'[t] \in {[job[t] EXCEPT !.missed = @ \cup {d}], job[t]}
      BY DEF Miss
    <3>2. QED
      BY <2>1, <3>1 DEF JobShape
  <2>4. HealWay(job[t])'
    BY <2>1, <2>2, <2>3 DEF HealWay
  <2>5. PICK m : m = Man(t)
    OBVIOUS
  <2>6. Man(t)' = m
    BY <2>2, <2>5 DEF Man
  <2>7. HealFits(job[t], m)'
    <3>1. SUFFICES ASSUME job[t].last = "reconciled" PROVE HealFits(job[t], m)'
      BY <2>2 DEF HealFits
    <3>2. /\ \A c \in DOMAIN file \ job[t].missed :
                /\ c \in DOMAIN m /\ m[c].sum = file[c]
                /\ m[c].status \in {"indexed", "failed"} \/ c \in Due(job[t], m) \cup Busy(job[t])
          /\ DOMAIN vec \subseteq DOMAIN file \cup job[t].missed \cup Due(job[t], m)
          /\ Busy(job[t]) \subseteq DOMAIN file \cup job[t].missed
      BY <2>1, <2>5, <3>1 DEF HealFits
    <3>3. Due(job[t], m)' = Due(job[t], m) /\ Busy(job[t])' = Busy(job[t])
      BY <2>2 DEF Due, Busy
    <3>4. job'[t].missed = job[t].missed \cup {d}
      BY <2>2, <3>1
    <3>5. \A c \in DOMAIN file' : c # d => c \in DOMAIN file /\ file'[c] = file[c]
      OBVIOUS
    <3>6. DOMAIN file \subseteq DOMAIN file' \cup {d}
      OBVIOUS
    <3>7. QED
      BY <3>2, <3>3, <3>4, <3>5, <3>6 DEF HealFits
  <2>8. QED
    BY <2>4, <2>6, <2>7 DEF HealFits, Due, Busy
<1>3. QED
  BY <1>2 DEF Heals

\* Whatever happens beside the jobs leaves reconciles healing.
LEMMA OutsideHeals ==
    ASSUME HealInv, OutsideWrite \/ RemoveByHand
    PROVE  Heals'
<1>1. FilesType
  BY DEF HealInv, IndexInv, BookInv, FilesInv
<1>2. CASE OutsideWrite
  <2>1. PICK w, x : file' = Put(file, OutsideDoc(w), x) /\ Miss(OutsideDoc(w))
    BY <1>2 DEF OutsideWrite
  <2>2. PICK d : d = OutsideDoc(w)
    OBVIOUS
  <2>3. /\ DOMAIN file' = DOMAIN file \cup {d}
        /\ \A e \in DOMAIN file : e # d => file'[e] = file[e]
    BY <2>1, <2>2 DEF Put
  <2>4. Miss(d) /\ UNCHANGED <<vec, mem>>
    BY <1>2, <2>1, <2>2 DEF OutsideWrite
  <2>5. QED
    BY <2>3, <2>4, MissedHeals
<1>3. CASE RemoveByHand
  <2>1. PICK d \in DOMAIN file : file' = Without(file, {d}) /\ Miss(d)
    BY <1>3 DEF RemoveByHand
  <2>2. DOMAIN file' = DOMAIN file \ {d} /\ \A e \in DOMAIN file' : file'[e] = file[e]
    BY <1>1, <2>1, FileGone
  <2>3. UNCHANGED <<vec, mem>>
    BY <1>3 DEF RemoveByHand
  <2>4. QED
    BY <2>1, <2>2, <2>3, MissedHeals
<1>4. QED
  BY <1>2, <1>3

\* Reconciles go on to heal.
LEMMA HealingKept ==
    ASSUME HealInv, OneThread, [RecNext]_recVars
    PROVE  HealInv'
<1>1. IndexInv /\ JobsType /\ Heals
  BY DEF HealInv, IndexInv, BookInv, FilesInv
<1>2. IndexInv'
  BY <1>1, IndexKept
<1>3. CASE UNCHANGED recVars
  <2>1. file' = file /\ vec' = vec /\ mem' = mem /\ job' = job
    BY <1>3 DEF recVars
  <2>2. ASSUME NEW t \in Threads PROVE (HealWay(job[t]) /\ HealFits(job[t], Man(t)))'
    <3>1. HealWay(job[t]) /\ HealFits(job[t], Man(t))
      BY <1>1 DEF Heals
    <3>2. job'[t] = job[t] /\ Man(t)' = Man(t)
      BY <2>1 DEF Man
    <3>3. HealWay(job[t])'
      BY <3>1, <3>2 DEF HealWay
    <3>4. HealFits(job[t], Man(t))'
      BY <2>1, <3>1, <3>2 DEF HealFits, Due, Busy
    <3>5. QED
      BY <3>3, <3>4
  <2>3. QED
    BY <1>2, <2>2 DEF Heals, HealInv
<1>4. ASSUME NEW t \in Threads, JobStep(t) PROVE Heals'
  BY <1>4, JobStepHeals
<1>5. ASSUME NEW t \in Threads, Request(t) PROVE Heals'
  <2>1. CASE UNCHANGED job /\ (Propose(t) \/ Approve(t))
    <3>1. job[t].pc = "idle" /\ job'[t] = job[t]
      BY <2>1 DEF Propose, Approve, At
    <3>2. job[t].last # "reconciled"
      BY <1>1, <3>1 DEF Heals, HealWay
    <3>3. QED
      BY <3>1, <3>2, HealsFreely
  <2>2. ASSUME NEW pc, NEW who, Begun(t, pc, who), pc # "reconciled" PROVE Heals'
    BY <2>2, HealsFreely DEF Begun
  <2>3. \/ UNCHANGED job /\ (Propose(t) \/ Approve(t))
        \/ \E pc \in {"create", "gate", "reconcile", "pick", "repair", "write", "promote"} :
              \E who : Begun(t, pc, who)
    BY <1>1, <1>5, RequestKinds
  <2>4. QED
    BY <2>1, <2>2, <2>3
<1>6. CASE OutsideWrite \/ RemoveByHand
  BY <1>2, <1>6, OutsideHeals DEF HealInv
<1>7. ASSUME NEW p \in Processes, Kill(p) PROVE Heals'
  <2>1. PICK s \in Threads :
           job'[s] \in {Idle, [Idle EXCEPT !.pc = "reconcile"]}
    BY <1>7 DEF Kill
  <2>2. job'[s].last # "reconciled" /\ job'[s].pc # "reconciled"
    BY <2>1 DEF Idle
  <2>3. QED
    BY <2>2, HealsFreely
<1>8. QED
  BY <1>2, <1>3, <1>4, <1>5, <1>6, <1>7 DEF RecNext, HealInv

(***************************************************************************)
(* A reconcile that has ended has brought files, manifest and vectors      *)
(* together, from any state that kills, failed embeddings, commands and    *)
(* unindexed writes may leave: each document is healthy or listed as       *)
(* failed and no vector is of a document that is gone, but for those that  *)
(* were changed beside it.                                                 *)
(***************************************************************************)
THEOREM ReconcileIsEnough == ASSUME OneThread PROVE RecSpec => []ReconcileHeals
<1>1. RecInit => HealInv
  <2>1. SUFFICES ASSUME RecInit PROVE HealInv
    OBVIOUS
  <2>2. \A t \in Threads : job[t].last # "reconciled" /\ job[t].pc # "reconciled"
    BY <2>1 DEF RecInit, Idle
  <2>3. QED
    BY <2>1, <2>2, IndexStarts DEF HealInv, Heals, HealWay, HealFits
<1>2. ASSUME HealInv, [RecNext]_recVars PROVE HealInv'
  BY <1>2, HealingKept
<1>3. ASSUME HealInv PROVE ReconcileHeals
  <2>1. SUFFICES ASSUME NEW t \in Threads, job[t].pc = "reconciled"
                 PROVE  /\ \A d \in DOMAIN file \ job[t].missed :
                              /\ d \in DOMAIN Man(t)
                              /\ Man(t)[d].status = "failed" \/ Healthy(Man(t), d)
                        /\ DOMAIN vec \subseteq DOMAIN file \cup job[t].missed
    BY DEF ReconcileHeals, At
  <2>2. HealWay(job[t]) /\ HealFits(job[t], Man(t)) /\ Sound(Man(t))
    BY <1>3, HealsFrom
  <2>3. PICK m : m = Man(t)
    OBVIOUS
  <2>4. Due(job[t], m) = {} /\ Busy(job[t]) = {} /\ job[t].last = "reconciled"
    BY <2>1, <2>2 DEF HealWay, Due, Busy
  <2>5. /\ \A d \in DOMAIN file \ job[t].missed :
              d \in DOMAIN m /\ m[d].sum = file[d] /\ m[d].status \in {"indexed", "failed"}
        /\ DOMAIN vec \subseteq DOMAIN file \cup job[t].missed
    BY <2>2, <2>3, <2>4 DEF HealFits
  <2>6. ASSUME NEW d \in DOMAIN file \ job[t].missed, m[d].status = "indexed" PROVE Healthy(m, d)
    <3>1. d \in DOMAIN m /\ m[d].sum = file[d] /\ d \in DOMAIN file
      BY <2>5
    <3>2. d \in DOMAIN vec
      BY <2>2, <2>3, <2>6, <3>1 DEF Sound, SoundEntry
    <3>3. QED
      BY <2>6, <3>1, <3>2 DEF Healthy
  <2>7. QED
    BY <2>3, <2>5, <2>6
<1>4. QED
  BY <1>1, <1>2, <1>3, PTL DEF RecSpec

-----------------------------------------------------------------------------
(***************************************************************************)
(* Promotions, with any number of requests and commands side by side.      *)
(* What a copy of the queue calls promoted has its file, and so has what a *)
(* batch is about to call so; no step removes such a file.                 *)
(***************************************************************************)
Bounded == \E n \in Nat : \A d \in DOMAIN file : file[d].version <= n

Numbered(z) == Moving(z) => z.version \in Nat

Publishing(z) ==
    \/ z.pc = "mark" /\ z.then = "pick"
    \/ z.pc \in {"pick", "refresh"} /\ z.last = "promoted"
    \/ z.pc \in {"embed", "settle"} /\ z.back = "refresh" /\ z.last = "promoted"
    \/ z.pc = "promoted"

EntryThere(z) == Publishing(z) => PromotedDoc(Head(z.items).item) \in DOMAIN file

OldIsCopy(z) == z.pc = "unlink" => z.doc.kind = "collab"

QueueFits(q) ==
    /\ IsList(q)
    /\ \A i \in 1..Len(q) :
          /\ q[i] = [source |-> q[i].source, status |-> q[i].status]
          /\ q[i].status = "promoted" => PromotedDoc(i) \in DOMAIN file

ItemQueues == {disk.queue} \cup {mem[p].queue : p \in Processes}

PromotionInv ==
    /\ FilesType /\ JobsType /\ MemType /\ Bounded
    /\ \A t \in Threads : Numbered(job[t]) /\ EntryThere(job[t]) /\ OldIsCopy(job[t])
    /\ \A q \in ItemQueues : QueueFits(q)

PromotedStay == \A d \in DOMAIN file : d.kind = "promoted" => d \in DOMAIN file'

\* Of numbers below a bound, one is the highest.
LEMMA HighestOfSome ==
    ASSUME NEW S, S # {}, NEW f, NEW n \in Nat, \A d \in S : f[d] \in Nat /\ f[d] <= n
    PROVE  \E d \in S : \A e \in S : f[e] <= f[d]
<1>1. PICK B : B = {n - f[d] : d \in S}
  OBVIOUS
<1>2. B \subseteq Nat /\ B # {}
  <2>1. \A d \in S : n - f[d] \in Nat
    OBVIOUS
  <2>2. QED
    BY <1>1, <2>1
<1>3. PICK m \in B : \A k \in B : <<k, m>> \notin OpToRel(<, Nat)
  BY <1>2, NatLessThanWellFounded, WFMin
<1>4. \A k \in B : ~(k < m)
  BY <1>2, <1>3 DEF OpToRel
<1>5. PICK d \in S : m = n - f[d]
  BY <1>1
<1>6. ASSUME NEW e \in S PROVE f[e] <= f[d]
  <2>1. n - f[e] \in B
    BY <1>1
  <2>2. ~(n - f[e] < n - f[d])
    BY <1>4, <1>5, <2>1
  <2>3. QED
    BY <2>2
<1>7. QED
  BY <1>6

\* So every record has a newest copy.
LEMMA LatestOfBounded == ASSUME FilesType, Bounded PROVE LatestThere
<1>1. SUFFICES ASSUME NEW r, FilesOf(r) # {} PROVE Latest(r) \in FilesOf(r)
  BY DEF LatestThere
<1>2. PICK n \in Nat : \A d \in DOMAIN file : file[d].version <= n
  BY DEF Bounded
<1>3. PICK S, f : S = FilesOf(r) /\ f = [d \in S |-> file[d].version]
  OBVIOUS
<1>4. \A d \in S : f[d] = file[d].version /\ f[d] \in Nat /\ f[d] <= n
  BY <1>2, <1>3, CopiesHaveVersions
<1>5. \E d \in S : \A e \in S : f[e] <= f[d]
  BY <1>1, <1>3, <1>4, HighestOfSome
<1>6. \E d \in S : \A e \in S : file[e].version <= file[d].version
  BY <1>4, <1>5
<1>7. QED
  BY <1>3, <1>6 DEF Latest

\* A file is written, or one is removed that was not promoted.
FileEdit ==
    \/ UNCHANGED file
    \/ \E d, x : IsText(x) /\ file' = Put(file, d, x)
    \/ \E d : d.kind # "promoted" /\ file' = Without(file, {d})

\* Every step is such an edit.
LEMMA FilesEdited ==
    ASSUME PromotionInv, [RecNext]_recVars
    PROVE  FileEdit
<1>1. FilesType /\ JobsType /\ LatestThere
  BY LatestOfBounded DEF PromotionInv
<1>2. CASE UNCHANGED file
  BY <1>2 DEF FileEdit
<1>3. ASSUME NEW t \in Threads, Create(t) PROVE FileEdit
  <2>1. PICK d, x : file' = Put(file, d, Text(x.task, x.author, 1, {}))
    BY <1>3 DEF Create
  <2>2. IsText(Text(x.task, x.author, 1, {}))
    BY DEF IsText, Text
  <2>3. QED
    BY <2>1, <2>2 DEF FileEdit
<1>4. ASSUME NEW t \in Threads, Save(t), FilesOf(job[t].doc.id) # {} PROVE FileEdit
  <2>1. PICK old : old = Latest(job[t].doc.id)
    OBVIOUS
  <2>2. IsText(file[old])
    BY <1>1, <1>4, <2>1, CopiesHaveVersions DEF LatestThere
  <2>3. PICK x : x = [file[old] EXCEPT !.version = job[t].version,
                                       !.owner = IF job[t].owner = "-" THEN @ ELSE job[t].owner]
    OBVIOUS
  <2>4. job[t].version \in Nat
    BY <1>4 DEF PromotionInv, Numbered, Moving, Save, At
  <2>5. IsText(x)
    BY <2>2, <2>3, <2>4 DEF IsText
  <2>6. \E new : file' = Put(file, new, x)
    BY <1>4, <2>1, <2>3 DEF Save
  <2>7. QED
    BY <2>5, <2>6 DEF FileEdit
<1>5. ASSUME NEW t \in Threads, Unlink(t) PROVE FileEdit
  <2>1. job[t].doc.kind = "collab" /\ file' = Without(file, {job[t].doc})
    BY <1>5 DEF PromotionInv, OldIsCopy, Unlink, At
  <2>2. QED
    BY <2>1 DEF FileEdit
<1>6. ASSUME NEW t \in Threads, Publish(t) PROVE FileEdit
  <2>1. PICK x : x = [job[t].text EXCEPT !.owner = "-"]
    OBVIOUS
  <2>2. IsText(job[t].text)
    BY <1>1 DEF JobsType, JobShape
  <2>3. IsText(x)
    BY <2>1, <2>2 DEF IsText
  <2>4. \E d : file' = Put(file, d, x)
    BY <1>6, <2>1 DEF Publish
  <2>5. QED
    BY <2>3, <2>4 DEF FileEdit
<1>7. ASSUME NEW t \in Threads, Write(t) PROVE FileEdit
  <2>1. PICK v : v = IF job[t].doc \in DOMAIN file THEN file[job[t].doc].version + 1 ELSE 1
    OBVIOUS
  <2>2. PICK x : x = [job[t].text EXCEPT !.version = v]
    OBVIOUS
  <2>3. v \in Nat
    BY <1>1, <2>1 DEF FilesType, IsText
  <2>4. IsText(x)
    BY <1>1, <2>2, <2>3 DEF JobsType, JobShape, IsText
  <2>5. file' = Put(file, job[t].doc, x)
    BY <1>7, <2>1, <2>2 DEF Write
  <2>6. QED
    BY <2>4, <2>5 DEF FileEdit
<1>8. CASE OutsideWrite
  <2>1. PICK w, v : /\ v = IF OutsideDoc(w) \in DOMAIN file
                           THEN file[OutsideDoc(w)].version + 1 ELSE 1
                    /\ file' = Put(file, OutsideDoc(w), Text("-", "-", v, {}))
    BY <1>8 DEF OutsideWrite
  <2>2. v \in Nat
    BY <1>1, <2>1 DEF FilesType, IsText
  <2>3. IsText(Text("-", "-", v, {}))
    BY <2>2 DEF IsText, Text
  <2>4. QED
    BY <2>1, <2>3 DEF FileEdit
<1>9. CASE RemoveByHand
  <2>1. PICK d \in DOMAIN file : d.kind \in {"entry", "workflow"} /\ file' = Without(file, {d})
    BY <1>9, Zenon DEF RemoveByHand
  <2>2. QED
    BY <2>1 DEF FileEdit
<1>10. ASSUME NEW t \in Threads, Save(t) PROVE FileEdit
  BY <1>2, <1>4, <1>10 DEF Save
<1>11. QED
  BY <1>2, <1>3, <1>5, <1>6, <1>7, <1>8, <1>9, <1>10, FileSteps DEF RecordWrites

\* Then files are files, and the promoted ones stay.
LEMMA EditsAreSafe ==
    ASSUME FilesType, Bounded, FileEdit
    PROVE  FilesType' /\ Bounded' /\ PromotedStay
<1>1. CASE UNCHANGED file
  BY <1>1 DEF FilesType, Bounded, PromotedStay
<1>2. ASSUME NEW d, NEW x, IsText(x), file' = Put(file, d, x)
      PROVE  FilesType' /\ Bounded' /\ PromotedStay
  <2>1. /\ FilesType' /\ DOMAIN file' = DOMAIN file \cup {d} /\ file'[d] = x
        /\ \A e \in DOMAIN file : e # d => file'[e] = file[e]
    BY <1>2, FilePut
  <2>2. PICK n \in Nat : \A e \in DOMAIN file : file[e].version <= n
    BY DEF Bounded
  <2>3. PICK m \in Nat : n <= m /\ x.version <= m
    <3>1. x.version \in Nat
      BY <1>2 DEF IsText
    <3>2. n <= n + x.version /\ x.version <= n + x.version /\ n + x.version \in Nat
      BY <3>1
    <3>3. QED
      BY <3>2
  <2>4. ASSUME NEW e \in DOMAIN file' PROVE file'[e].version <= m
    <3>1. CASE e = d
      BY <2>1, <2>3, <3>1
    <3>2. CASE e # d
      <4>1. e \in DOMAIN file /\ file'[e] = file[e]
        BY <2>1, <3>2
      <4>2. file[e].version \in Nat /\ file[e].version <= n
        BY <2>2, <4>1 DEF FilesType, IsText
      <4>3. QED
        BY <2>3, <4>1, <4>2
    <3>3. QED
      BY <3>1, <3>2
  <2>5. QED
    BY <2>1, <2>4 DEF Bounded, PromotedStay
<1>3. ASSUME NEW d, d.kind # "promoted", file' = Without(file, {d})
      PROVE  FilesType' /\ Bounded' /\ PromotedStay
  <2>1. /\ FilesType' /\ DOMAIN file' = DOMAIN file \ {d}
        /\ \A e \in DOMAIN file' : file'[e] = file[e]
    BY <1>3, FileGone
  <2>2. QED
    BY <1>3, <2>1 DEF Bounded, PromotedStay
<1>4. QED
  BY <1>1, <1>2, <1>3 DEF FileEdit


-----------------------------------------------------------------------------
\* A queue keeps its promise, and a new one that gives it is no harm.
QueuesFit == \A q \in ItemQueues : QueueFits(q)

\* A file that is there stays, for a queue of before.
LEMMA FitsStill == ASSUME PromotedStay, NEW q, QueueFits(q) PROVE QueueFits(q)'
<1>1. \A i : PromotedDoc(i).kind = "promoted"
  BY DEF PromotedDoc, Doc
<1>2. QED
  BY <1>1 DEF QueueFits, PromotedStay

\* No items.
LEMMA NoItemsFit == QueueFits(<<>>)'
BY DEF QueueFits, IsList

\* The status of one item is set.
LEMMA ItemFits ==
    ASSUME PromotedStay, NEW q, QueueFits(q), NEW i, NEW s,
           s = "promoted" => PromotedDoc(i) \in DOMAIN file
    PROVE  QueueFits([q EXCEPT ![i].status = s])'
<1>1. PICK n \in Nat : n = Len(q) /\ q = [k \in 1..n |-> q[k]]
  BY DEF QueueFits, IsList
<1>2. PICK x : x = [q[i] EXCEPT !.status = s]
  OBVIOUS
<1>3. PICK c : c = [q EXCEPT ![i] = x]
  OBVIOUS
<1>4. c = [k \in 1..n |-> c[k]] /\ \A k \in 1..n : c[k] = IF k = i THEN x ELSE q[k]
  BY <1>1, <1>3
<1>5. Len(c) = n /\ IsList(c)
  <2>1. PICK S : S = {c[k] : k \in 1..n}
    OBVIOUS
  <2>2. c \in [1..n -> S]
    BY <1>4, <2>1
  <2>3. c \in Seq(S) /\ Len(c) = n
    BY <2>2
  <2>4. QED
    BY <2>3, SeqIsList
<1>6. QueueFits(q)'
  BY FitsStill
<1>7. s = "promoted" => PromotedDoc(i) \in DOMAIN file'
  BY DEF PromotedStay, PromotedDoc, Doc
<1>8. ASSUME NEW k \in 1..n
      PROVE  /\ c[k] = [source |-> c[k].source, status |-> c[k].status]
             /\ c[k].status = "promoted" => PromotedDoc(k) \in DOMAIN file'
  <2>1. /\ q[k] = [source |-> q[k].source, status |-> q[k].status]
        /\ q[k].status = "promoted" => PromotedDoc(k) \in DOMAIN file'
    BY <1>1, <1>6 DEF QueueFits
  <2>2. CASE k # i
    BY <1>4, <2>1, <2>2
  <2>3. CASE k = i
    <3>1. c[k] = [source |-> q[k].source, status |-> s]
      BY <1>2, <1>4, <2>1, <2>3
    <3>2. QED
      BY <1>7, <2>3, <3>1
  <2>4. QED
    BY <2>2, <2>3
<1>9. QueueFits(c)'
  BY <1>5, <1>8 DEF QueueFits
<1>10. c = [q EXCEPT ![i].status = s]
  BY <1>2, <1>3
<1>11. QED
  BY <1>9, <1>10

\* An item is proposed.
LEMMA ProposedFits ==
    ASSUME PromotedStay, NEW q, QueueFits(q), NEW r
    PROVE  QueueFits(Append(q, [source |-> r, status |-> "proposed"]))'
<1>1. PICK n \in Nat : n = Len(q)
  BY DEF QueueFits, IsList
<1>2. PICK x : x = [source |-> r, status |-> "proposed"]
  OBVIOUS
<1>3. PICK c : c = Append(q, x)
  OBVIOUS
<1>4. /\ IsList(c) /\ Len(c) = n + 1 /\ c[n + 1] = x
      /\ \A k \in 1..n : c[k] = q[k]
  BY <1>1, <1>3, ListAppend DEF QueueFits
<1>5. QueueFits(q)'
  BY FitsStill
<1>6. ASSUME NEW k \in 1..(n + 1)
      PROVE  /\ c[k] = [source |-> c[k].source, status |-> c[k].status]
             /\ c[k].status = "promoted" => PromotedDoc(k) \in DOMAIN file'
  <2>1. CASE k \in 1..n
    <3>1. c[k] = q[k]
      BY <1>4, <2>1
    <3>2. QED
      BY <1>1, <1>5, <2>1, <3>1 DEF QueueFits
  <2>2. CASE k = n + 1
    BY <1>2, <1>4, <2>2
  <2>3. QED
    BY <1>1, <2>1, <2>2
<1>7. QueueFits(c)'
  BY <1>4, <1>6 DEF QueueFits
<1>8. QED
  BY <1>2, <1>3, <1>7

\* Copies are as they were, but for one queue that fits too.
QueuesGoOn == MemType' /\ \A k \in ItemQueues' : k \in ItemQueues \/ QueueFits(k)'

\* Then the queues fit still.
LEMMA QueuesFitOn == ASSUME QueuesFit, PromotedStay, QueuesGoOn PROVE QueuesFit'
<1>1. ASSUME NEW k \in ItemQueues' PROVE QueueFits(k)'
  <2>1. CASE k \in ItemQueues
    <3>1. QueueFits(k)
      BY <2>1 DEF QueuesFit
    <3>2. QED
      BY <3>1, FitsStill
  <2>2. QED
    BY <1>1, <2>1 DEF QueuesGoOn
<1>2. QED
  BY <1>1 DEF QueuesFit

\* A manifest is saved, or nothing.
LEMMA ManifestLeavesQueues ==
    ASSUME JobsType, MemType, NEW t \in Threads,
           UNCHANGED <<mem, disk>> \/ \E m : SaveManifest(t, m)
    PROVE  QueuesGoOn
<1>1. CASE UNCHANGED <<mem, disk>>
  BY <1>1 DEF QueuesGoOn, MemType, ItemQueues
<1>2. ASSUME NEW m, SaveManifest(t, m) PROVE QueuesGoOn
  <2>1. PICK w : w = job[t].who
    OBVIOUS
  <2>2. w \in Processes
    BY <2>1, WhoIsThere
  <2>3. mem' = [mem EXCEPT ![w].man = m] /\ disk' = [disk EXCEPT !.man = m]
    BY <1>2, <2>1 DEF SaveManifest
  <2>4. DOMAIN mem' = Processes
    BY <2>3 DEF MemType
  <2>5. mem'[w] = [man |-> m, queue |-> mem[w].queue]
    BY <2>2, <2>3 DEF MemType
  <2>6. \A p \in Processes : p # w => mem'[p] = mem[p]
    BY <2>3 DEF MemType
  <2>7. disk' = [man |-> m, queue |-> disk.queue]
    BY <2>3 DEF MemType
  <2>8. MemType'
    BY <2>4, <2>5, <2>6, <2>7 DEF MemType
  <2>9. disk'.queue = disk.queue /\ \A p \in Processes : mem'[p].queue = mem[p].queue
    BY <2>5, <2>6, <2>7
  <2>10. QED
    BY <2>8, <2>9 DEF QueuesGoOn, ItemQueues
<1>3. QED
  BY <1>1, <1>2

\* A queue that fits is saved.
LEMMA QueueIsSaved ==
    ASSUME MemType, NEW w \in Processes, NEW q, QueueFits(q)',
           mem' = [mem EXCEPT ![w].queue = q], disk' = [disk EXCEPT !.queue = q]
    PROVE  QueuesGoOn
<1>1. DOMAIN mem' = Processes
  BY DEF MemType
<1>2. mem'[w] = [man |-> mem[w].man, queue |-> q]
  BY DEF MemType
<1>3. \A p \in Processes : p # w => mem'[p] = mem[p]
  BY DEF MemType
<1>4. disk' = [man |-> disk.man, queue |-> q]
  BY DEF MemType
<1>5. MemType'
  BY <1>1, <1>2, <1>3, <1>4 DEF MemType
<1>6. disk'.queue = q /\ \A p \in Processes : mem'[p].queue = q \/ mem'[p].queue = mem[p].queue
  BY <1>2, <1>3, <1>4
<1>7. \A k \in ItemQueues' : k = q \/ k \in ItemQueues
  BY <1>6 DEF ItemQueues
<1>8. QED
  BY <1>5, <1>7 DEF QueuesGoOn

\* A process starts with what is on disk, or its copy goes.
LEMMA CopyTaken ==
    ASSUME MemType, NEW p \in Processes, NEW c \in {disk, Blank},
           mem' = [mem EXCEPT ![p] = c], UNCHANGED disk
    PROVE  QueuesGoOn
<1>1. Blank.queue = <<>> /\ Blank = [man |-> Blank.man, queue |-> Blank.queue]
  BY DEF Blank
<1>2. c = [man |-> c.man, queue |-> c.queue]
  BY <1>1 DEF MemType
<1>3. MemType' /\ mem'[p] = c /\ \A q \in Processes : q # p => mem'[q] = mem[q]
  BY <1>2, CopyPut
<1>4. \A k \in ItemQueues' : k = c.queue \/ k \in ItemQueues
  BY <1>3 DEF ItemQueues
<1>5. c.queue = disk.queue \/ c.queue = <<>>
  BY <1>1
<1>6. QED
  BY <1>3, <1>4, <1>5, NoItemsFit DEF QueuesGoOn, ItemQueues

\* A batch sets the status of an item.
LEMMA ItemIsSet ==
    ASSUME JobsType, MemType, QueuesFit, PromotedStay, NEW t \in Threads, NEW i, NEW s,
           SetItem(t, i, s), s = "promoted" => PromotedDoc(i) \in DOMAIN file
    PROVE  QueuesGoOn
<1>1. PICK w : w = job[t].who
  OBVIOUS
<1>2. w \in Processes
  BY <1>1, WhoIsThere
<1>3. QueueFits(mem[w].queue)
  BY <1>2 DEF QueuesFit, ItemQueues
<1>4. PICK q : q = [mem[w].queue EXCEPT ![i].status = s]
  OBVIOUS
<1>5. QueueFits(q)'
  BY <1>3, <1>4, ItemFits
<1>6. CASE UNCHANGED <<mem, disk>>
  BY <1>6, ManifestLeavesQueues
<1>7. CASE mem' = [mem EXCEPT ![w].queue = q] /\ disk' = [disk EXCEPT !.queue = q]
  BY <1>2, <1>5, <1>7, QueueIsSaved
<1>8. QED
  BY <1>1, <1>4, <1>6, <1>7 DEF SetItem, SaveQueue, Queue

\* The copies of the queue after any step.
LEMMA QueuesStep ==
    ASSUME PromotionInv, PromotedStay, [RecNext]_recVars
    PROVE  QueuesGoOn
<1>1. JobsType /\ MemType /\ QueuesFit
  BY DEF PromotionInv, QueuesFit
<1>2. ASSUME NEW t \in Threads, JobStep(t) PROVE QueuesGoOn
  <2>1. CASE Finish(t)
    <3>1. CASE UNCHANGED <<mem, disk>>
      BY <1>1, <3>1, ManifestLeavesQueues
    <3>2. CASE "cli" \in Processes /\ mem' = [mem EXCEPT !["cli"] = Blank] /\ UNCHANGED disk
      BY <1>1, <3>2, CopyTaken
    <3>3. job[t].who \in Processes
      BY <1>1, WhoIsThere
    <3>4. QED
      BY <2>1, <3>1, <3>2, <3>3 DEF Finish
  <2>2. CASE \/ MarkStep(t) \/ RepairStep(t) \/ Embed(t) \/ EmbedFails(t) \/ Settle(t)
             \/ RefreshPick(t) \/ RefreshStep(t) \/ Reconcile(t)
             \/ Create(t) \/ Gate(t) \/ Verify(t) \/ Save(t) \/ Unlink(t)
             \/ Publish(t) \/ Write(t)
    <3>1. UNCHANGED <<mem, disk>> \/ \E m : SaveManifest(t, m)
      BY <2>2 DEF MarkStep, RepairStep, DropVector, Embed, EmbedFails, Settle, RefreshPick,
                  RefreshStep, Reconcile, Create, Gate, Verify, Save, Unlink, Publish, Write
    <3>2. QED
      BY <1>1, <1>2, <3>1, ManifestLeavesQueues
  <2>3. CASE Promote(t)
    <3>1. \/ UNCHANGED <<mem, disk>>
          \/ \E i : SetItem(t, i, "promoted") /\ PromotedDoc(i) \in DOMAIN file
          \/ \E i : SetItem(t, i, "queued")
      BY <2>3 DEF Promote, Take
    <3>2. QED
      BY <1>1, <1>2, <3>1, ManifestLeavesQueues, ItemIsSet
  <2>4. CASE Promoted(t)
    <3>1. SetItem(t, Head(job[t].items).item, "promoted") /\ job[t].pc = "promoted"
      BY <2>4 DEF Promoted, At
    <3>2. PromotedDoc(Head(job[t].items).item) \in DOMAIN file
      BY <1>2, <3>1 DEF PromotionInv, EntryThere, Publishing
    <3>3. QED
      BY <1>1, <1>2, <3>1, <3>2, ItemIsSet
  <2>5. QED
    BY <1>2, <2>1, <2>2, <2>3, <2>4 DEF JobStep
<1>3. ASSUME NEW t \in Threads, NEW z, Begin(t, z), UNCHANGED disk PROVE QueuesGoOn
  <2>1. CASE UNCHANGED mem
    BY <1>1, <1>3, <2>1, ManifestLeavesQueues
  <2>2. CASE "cli" \in Processes /\ mem' = [mem EXCEPT !["cli"] = disk]
    BY <1>1, <1>3, <2>2, CopyTaken
  <2>3. QED
    BY <1>3, <2>1, <2>2 DEF Begin
<1>4. ASSUME NEW t \in Threads, Request(t) PROVE QueuesGoOn
  <2>1. PICK q : q = mem["server"].queue
    OBVIOUS
  <2>2. "server" \in Processes /\ QueueFits(q)
    BY <1>1, <2>1, RecordsAssumption DEF QueuesFit, ItemQueues
  <2>3. ASSUME NEW k, QueueFits(k)', mem' = [mem EXCEPT !["server"].queue = k],
               disk' = [disk EXCEPT !.queue = k]
        PROVE  QueuesGoOn
    BY <1>1, <2>2, <2>3, QueueIsSaved
  <2>4. CASE Propose(t)
    <3>1. PICK r : /\ mem' = [mem EXCEPT !["server"].queue
                                  = Append(q, [source |-> r, status |-> "proposed"])]
                   /\ disk' = [disk EXCEPT !.queue
                                  = Append(q, [source |-> r, status |-> "proposed"])]
      BY <2>1, <2>4 DEF Propose
    <3>2. QueueFits(Append(q, [source |-> r, status |-> "proposed"]))'
      BY <2>2, ProposedFits
    <3>3. QED
      BY <2>3, <3>1, <3>2
  <2>5. CASE Approve(t)
    <3>1. PICK i : /\ mem' = [mem EXCEPT !["server"].queue = [q EXCEPT ![i].status = "approved"]]
                   /\ disk' = [disk EXCEPT !.queue = [q EXCEPT ![i].status = "approved"]]
      BY <2>1, <2>5 DEF Approve
    <3>2. QueueFits([q EXCEPT ![i].status = "approved"])'
      BY <2>2, ItemFits
    <3>3. QED
      BY <2>3, <3>1, <3>2
  <2>6. QED
    <3>1. \/ CreateRequest(t) \/ MoveRequest(t)
          \/ \E p \in Processes : IndexerRequest(t, p) \/ NoteRequest(t, p)
          \/ \E p \in Processes, limit \in {1, NoLimit} : BatchRequest(t, p, limit)
          => UNCHANGED disk /\ \E z : Begin(t, z)
      BY DEF CreateRequest, MoveRequest, IndexerRequest, NoteRequest, BatchRequest
    <3>2. QED
      BY <1>3, <1>4, <2>4, <2>5, <3>1 DEF Request
<1>5. CASE OutsideWrite \/ RemoveByHand
  <2>1. UNCHANGED <<mem, disk>>
    BY <1>5 DEF OutsideWrite, RemoveByHand
  <2>2. QED
    BY <1>1, <2>1 DEF QueuesGoOn, MemType, ItemQueues
<1>6. ASSUME NEW p \in Processes, Kill(p) PROVE QueuesGoOn
  <2>1. \E c \in {disk, Blank} : mem' = [mem EXCEPT ![p] = c] /\ UNCHANGED disk
    BY <1>6 DEF Kill
  <2>2. QED
    BY <1>1, <2>1, CopyTaken
<1>7. CASE UNCHANGED recVars
  BY <1>1, <1>7 DEF QueuesGoOn, MemType, ItemQueues, recVars
<1>8. QED
  BY <1>2, <1>4, <1>5, <1>6, <1>7 DEF RecNext

-----------------------------------------------------------------------------
Fine(z) == Numbered(z) /\ EntryThere(z) /\ OldIsCopy(z)

\* A job that goes on with what it is about.
Follows(z, y) ==
    /\ y.pc # "unlink"
    /\ Moving(y) => Moving(z) /\ y.version = z.version
    /\ Publishing(y) => Publishing(z) /\ y.items = z.items

\* What it is about stays right.
LEMMA FollowsIsFine ==
    ASSUME PromotedStay, NEW z, NEW y, Fine(z), Follows(z, y)
    PROVE  Fine(y)'
<1>1. Numbered(y)
  BY DEF Fine, Numbered, Follows
<1>2. EntryThere(y)'
  <2>1. PromotedDoc(Head(z.items).item).kind = "promoted"
    BY DEF PromotedDoc, Doc
  <2>2. QED
    BY <2>1 DEF Fine, EntryThere, Follows, PromotedStay
<1>3. OldIsCopy(y)
  BY DEF OldIsCopy, Follows
<1>4. QED
  BY <1>1, <1>2, <1>3 DEF Fine, Numbered, OldIsCopy

\* A job that is about nothing of the kind.
LEMMA FreeIsFine ==
    ASSUME NEW y, ~Moving(y), ~Publishing(y), y.pc # "unlink"
    PROVE  Fine(y)'
BY DEF Fine, Numbered, EntryThere, OldIsCopy

\* Indexing goes on with what a job is about.
LEMMA IndexingIsFine ==
    ASSUME PromotionInv, PromotedStay, NEW t \in Threads,
           \/ MarkStep(t) \/ RepairStep(t) \/ Embed(t) \/ EmbedFails(t) \/ Settle(t)
           \/ RefreshPick(t) \/ RefreshStep(t) \/ Reconcile(t) \/ Gate(t) \/ Verify(t)
    PROVE  Fine(job[t])'
<1>1. JobsType /\ FilesType /\ JobWay(job[t]) /\ Fine(job[t])
  BY DEF PromotionInv, JobsType, Fine
<1>2. SUFFICES \/ Follows(job[t], job'[t])
               \/ ~Moving(job'[t]) /\ ~Publishing(job'[t]) /\ job'[t].pc # "unlink"
  BY <1>1, FollowsIsFine, FreeIsFine
<1>3. CASE MarkStep(t)
  <2>1. Go(t, job[t].then) /\ job[t].pc = "mark"
    BY <1>3 DEF MarkStep, At
  <2>2. /\ job'[t].pc = job[t].then /\ job'[t].back = job[t].back /\ job'[t].last = job[t].last
        /\ job'[t].items = job[t].items /\ job'[t].version = job[t].version
    BY <1>1, <2>1, JobGoes
  <2>3. QED
    BY <1>1, <2>1, <2>2 DEF JobWay, Follows, Moving, Publishing
<1>4. ASSUME job[t].pc \in {"repair", "embed", "settle"}, Go(t, job[t].back)
      PROVE  Follows(job[t], job'[t])
  <2>1. /\ job'[t].pc = job[t].back /\ job'[t].back = job[t].back /\ job'[t].last = job[t].last
        /\ job'[t].items = job[t].items /\ job'[t].version = job[t].version
    BY <1>1, <1>4, JobGoes
  <2>2. QED
    BY <1>1, <1>4, <2>1 DEF JobWay, Follows, Moving, Publishing
<1>5. CASE RepairStep(t)
  <2>1. job[t].pc = "repair" /\ job[t].back \in {"end", "verify"}
    BY <1>1, <1>5 DEF RepairStep, At, JobWay
  <2>2. CASE /\ job[t].doc \in DOMAIN file
             /\ job' = [job EXCEPT ![t].pc = "embed", ![t].text = file[job[t].doc]]
    <3>1. IsText(file[job[t].doc])
      BY <1>1, <2>2 DEF FilesType
    <3>2. /\ job'[t].pc = "embed" /\ job'[t].back = job[t].back /\ job'[t].last = job[t].last
          /\ job'[t].items = job[t].items /\ job'[t].version = job[t].version
      BY <1>1, <2>2, <3>1, JobReads
    <3>3. QED
      BY <2>1, <3>2 DEF Follows, Moving, Publishing
  <2>3. QED
    BY <1>4, <1>5, <2>1, <2>2 DEF RepairStep
<1>6. CASE Embed(t)
  <2>1. Go(t, "settle") /\ job[t].pc = "embed"
    BY <1>6 DEF Embed, At
  <2>2. /\ job'[t].pc = "settle" /\ job'[t].back = job[t].back /\ job'[t].last = job[t].last
        /\ job'[t].items = job[t].items /\ job'[t].version = job[t].version
    BY <1>1, <2>1, JobGoes
  <2>3. QED
    BY <2>1, <2>2 DEF Follows, Moving, Publishing
<1>7. CASE EmbedFails(t) \/ Settle(t)
  BY <1>4, <1>7 DEF EmbedFails, Settle, At
<1>8. CASE RefreshPick(t)
  <2>1. job[t].pc = "pick"
    BY <1>8 DEF RefreshPick, At
  <2>2. PICK Q : job' = [job EXCEPT ![t].pc = "refresh", ![t].back = "refresh", ![t].todo = Q]
    BY <1>8 DEF RefreshPick
  <2>3. /\ job'[t].pc = "refresh" /\ job'[t].back = "refresh" /\ job'[t].last = job[t].last
        /\ job'[t].items = job[t].items /\ job'[t].version = job[t].version
    BY <1>1, <2>2, JobPicks
  <2>4. QED
    BY <2>1, <2>3 DEF Follows, Moving, Publishing
<1>9. CASE RefreshStep(t)
  <2>1. job[t].pc = "refresh" /\ job[t].back = "refresh" /\ job[t].last \in Lasts
    BY <1>1, <1>9 DEF RefreshStep, At, JobWay
  <2>2. CASE Go(t, job[t].last)
    <3>1. /\ job'[t].pc = job[t].last /\ job'[t].back = job[t].back
          /\ job'[t].last = job[t].last /\ job'[t].items = job[t].items
      BY <1>1, <2>2, JobGoes
    <3>2. QED
      BY <2>1, <3>1 DEF Lasts, Follows, Moving, Publishing
  <2>3. ASSUME NEW d, job' = [job EXCEPT ![t].todo = @ \ {d}] PROVE Follows(job[t], job'[t])
    <3>1. /\ job'[t].pc = job[t].pc /\ job'[t].back = job[t].back
          /\ job'[t].last = job[t].last /\ job'[t].items = job[t].items
      BY <1>1, <2>3, JobDrops
    <3>2. QED
      BY <2>1, <3>1 DEF Follows, Moving, Publishing
  <2>4. ASSUME NEW d \in DOMAIN file,
               job' = [job EXCEPT ![t].todo = @ \ {d}, ![t].doc = d, ![t].pc = "embed",
                                  ![t].text = file[d]]
        PROVE  Follows(job[t], job'[t])
    <3>1. IsText(file[d])
      BY <1>1 DEF FilesType
    <3>2. /\ job'[t].pc = "embed" /\ job'[t].back = job[t].back
          /\ job'[t].last = job[t].last /\ job'[t].items = job[t].items
      BY <1>1, <2>4, <3>1, JobTakes
    <3>3. QED
      BY <2>1, <3>2 DEF Follows, Moving, Publishing
  <2>5. QED
    BY <1>9, <2>2, <2>3, <2>4 DEF RefreshStep
<1>10. CASE Reconcile(t)
  <2>1. job' = [job EXCEPT ![t].pc = "pick", ![t].limit = NoLimit, ![t].last = "reconciled"]
    BY <1>10 DEF Reconcile
  <2>2. job'[t].pc = "pick" /\ job'[t].last = "reconciled"
    BY <1>1, <2>1, JobMarks
  <2>3. QED
    BY <2>2 DEF Moving, Publishing
<1>11. ASSUME Done(t) PROVE ~Moving(job'[t]) /\ ~Publishing(job'[t]) /\ job'[t].pc # "unlink"
  <2>1. job'[t] = Idle
    BY <1>1, <1>11, JobEnds
  <2>2. QED
    BY <2>1 DEF Idle, Moving, Publishing
<1>12. CASE Gate(t)
  <2>1. job[t].pc = "gate"
    BY <1>12 DEF Gate, At
  <2>2. ASSUME NEW d, job' = [job EXCEPT ![t].pc = "verify", ![t].doc = d, ![t].back = "verify"]
        PROVE  Follows(job[t], job'[t])
    <3>1. job'[t].pc = "verify" /\ job'[t].version = job[t].version
      BY <1>1, <2>2, JobGates
    <3>2. QED
      BY <2>1, <3>1 DEF Follows, Moving, Publishing
  <2>3. Done(t) \/ \E d : job' = [job EXCEPT ![t].pc = "verify", ![t].doc = d, ![t].back = "verify"]
    BY <1>12 DEF Gate
  <2>4. QED
    BY <1>11, <2>2, <2>3
<1>13. CASE Verify(t)
  <2>1. job[t].pc = "verify" /\ job[t].back = "verify"
    BY <1>1, <1>13 DEF Verify, At, JobWay
  <2>2. CASE Go(t, "save")
    <3>1. job'[t].pc = "save" /\ job'[t].version = job[t].version
      BY <1>1, <2>2, JobGoes
    <3>2. QED
      BY <2>1, <3>1 DEF Follows, Moving, Publishing
  <2>3. CASE job' = [job EXCEPT ![t].pc = "repair", ![t].tries = @ + 1]
    <3>1. PICK n : n = job[t].tries + 1
      OBVIOUS
    <3>2. job' = [job EXCEPT ![t].pc = "repair", ![t].tries = n]
      BY <2>3, <3>1
    <3>3. job'[t].pc = "repair" /\ job'[t].version = job[t].version /\ job'[t].back = job[t].back
      BY <1>1, <3>2, JobTries
    <3>4. QED
      BY <2>1, <3>3 DEF Follows, Moving, Publishing
  <2>4. QED
    BY <1>11, <1>13, <2>2, <2>3 DEF Verify
<1>14. QED
  BY <1>3, <1>5, <1>6, <1>7, <1>8, <1>9, <1>10, <1>12, <1>13

\* So do the writes of records, promotions and notes.
LEMMA WritingIsFine ==
    ASSUME PromotionInv, PromotedStay, NEW t \in Threads,
           \/ Finish(t) \/ Create(t) \/ Save(t) \/ Unlink(t)
           \/ Promote(t) \/ Publish(t) \/ Promoted(t) \/ Write(t)
    PROVE  Fine(job[t])'
<1>1. JobsType /\ FilesType /\ JobWay(job[t]) /\ Fine(job[t]) /\ LatestThere
  BY LatestOfBounded DEF PromotionInv, JobsType, Fine
<1>2. ASSUME Done(t) PROVE Fine(job[t])'
  <2>1. job'[t] = Idle
    BY <1>1, <1>2, JobEnds
  <2>2. ~Moving(job'[t]) /\ ~Publishing(job'[t]) /\ job'[t].pc # "unlink"
    BY <2>1 DEF Idle, Moving, Publishing
  <2>3. QED
    BY <2>2, FreeIsFine
<1>3. CASE Finish(t) \/ Create(t) \/ Unlink(t)
  BY <1>2, <1>3 DEF Finish, Create, Unlink
<1>4. CASE Save(t)
  <2>1. CASE Done(t)
    BY <1>2, <2>1
  <2>2. PICK old : old = Latest(job[t].doc.id)
    OBVIOUS
  <2>3. CASE /\ FilesOf(job[t].doc.id) # {}
             /\ job' = [job EXCEPT ![t].pc = "unlink", ![t].doc = old]
    <3>1. old.kind = "collab"
      BY <1>1, <2>2, <2>3, CopiesHaveVersions DEF LatestThere
    <3>2. job'[t].pc = "unlink" /\ job'[t].doc = old
      BY <1>1, <2>3, JobUnlinks
    <3>3. QED
      BY <3>1, <3>2 DEF Fine, Numbered, EntryThere, OldIsCopy, Moving, Publishing
  <2>4. QED
    BY <1>4, <2>1, <2>2, <2>3 DEF Save
<1>5. ASSUME Skip(t) PROVE Fine(job[t])'
  <2>1. job'[t].pc = "promote"
    BY <1>1, <1>5, JobSkips DEF Skip
  <2>2. ~Moving(job'[t]) /\ ~Publishing(job'[t]) /\ job'[t].pc # "unlink"
    BY <2>1 DEF Moving, Publishing
  <2>3. QED
    BY <2>2, FreeIsFine
<1>6. CASE Promote(t)
  <2>1. ASSUME NEW r, FilesOf(r) # {},
               job' = [job EXCEPT ![t].pc = "publish", ![t].text = file[Latest(r)]]
        PROVE  Fine(job[t])'
    <3>1. IsText(file[Latest(r)])
      BY <1>1, <2>1, CopiesHaveVersions DEF LatestThere
    <3>2. job'[t].pc = "publish"
      BY <1>1, <2>1, <3>1, JobReads
    <3>3. ~Moving(job'[t]) /\ ~Publishing(job'[t]) /\ job'[t].pc # "unlink"
      BY <3>2 DEF Moving, Publishing
    <3>4. QED
      BY <3>3, FreeIsFine
  <2>2. QED
    BY <1>5, <1>6, <2>1 DEF Promote
<1>7. CASE Promoted(t)
  BY <1>5, <1>7 DEF Promoted
<1>8. CASE Publish(t)
  <2>1. PICK d, x : d = PromotedDoc(Head(job[t].items).item) /\ x = [job[t].text EXCEPT !.owner = "-"]
    OBVIOUS
  <2>7. IsText(job[t].text)
    BY <1>1 DEF JobsType, JobShape
  <2>2. IsText(x)
    BY <2>1, <2>7 DEF IsText
  <2>3. /\ file' = Put(file, d, x)
        /\ job' = [job EXCEPT ![t].pc = "mark", ![t].doc = d, ![t].then = "pick", ![t].limit = 1,
                              ![t].last = "promoted", ![t].text = x]
    BY <1>8, <2>1 DEF Publish
  <2>4. job'[t].pc = "mark" /\ job'[t].items = job[t].items
    BY <1>1, <2>2, <2>3, JobPublished
  <2>5. d \in DOMAIN file'
    BY <1>1, <2>2, <2>3, FilePut
  <2>6. QED
    BY <2>1, <2>4, <2>5 DEF Fine, Numbered, EntryThere, OldIsCopy, Moving
<1>9. CASE Write(t)
  <2>1. PICK v : v = IF job[t].doc \in DOMAIN file THEN file[job[t].doc].version + 1 ELSE 1
    OBVIOUS
  <2>2. PICK x : x = [job[t].text EXCEPT !.version = v]
    OBVIOUS
  <2>3. v \in Nat
    BY <1>1, <2>1 DEF FilesType, IsText
  <2>4. IsText(x)
    BY <1>1, <2>2, <2>3 DEF JobsType, JobShape, IsText
  <2>5. job' = [job EXCEPT ![t].pc = "mark", ![t].then = "repair", ![t].back = "end", ![t].text = x]
    BY <1>9, <2>1, <2>2 DEF Write
  <2>6. job'[t].pc = "mark" /\ job'[t].then = "repair"
    BY <1>1, <2>4, <2>5, JobWrote
  <2>7. ~Moving(job'[t]) /\ ~Publishing(job'[t]) /\ job'[t].pc # "unlink"
    BY <2>6 DEF Moving, Publishing
  <2>8. QED
    BY <2>7, FreeIsFine
<1>10. QED
  BY <1>3, <1>4, <1>6, <1>7, <1>8, <1>9

OthersStay(t) == \A s \in Threads : s # t => job'[s] = job[s]

\* A move begins with the version after the one it read; others with nothing.
LEMMA RequestIsFine ==
    ASSUME PromotionInv, NEW t \in Threads, Request(t), ~UNCHANGED job
    PROVE  Fine(job[t])' /\ OthersStay(t)
<1>1. JobsType /\ FilesType /\ LatestThere
  BY LatestOfBounded DEF PromotionInv
<1>2. ASSUME NEW pc \in {"create", "reconcile", "pick", "repair", "write", "promote"}, NEW who,
             Begun(t, pc, who), pc = "repair" => job'[t].back = "end"
      PROVE  Fine(job[t])' /\ OthersStay(t)
  <2>1. ~Moving(job'[t]) /\ ~Publishing(job'[t]) /\ job'[t].pc # "unlink"
    BY <1>2 DEF Begun, Moving, Publishing
  <2>2. QED
    BY <1>2, <2>1, FreeIsFine DEF Begun, OnlyJob, OthersStay
<1>3. CASE MoveRequest(t) /\ Begun(t, "gate", "server")
  <2>1. PICK r \in RecordIds, to \in {"handed_off", "completed"}, new \in Receivers,
             expected \in 1..MaxVersion :
           /\ FilesOf(r) # {}
           /\ Begin(t, [Idle EXCEPT !.pc = "gate", !.doc = Latest(r), !.to = to,
                                    !.owner = IF to = "handed_off" THEN new ELSE "-",
                                    !.version = file[Latest(r)].version + 1,
                                    !.granted = file[Latest(r)].version = expected
                                                /\ <<Latest(r).status, to>> \in Moves
                                                /\ file[Latest(r)].version < MaxVersion])
    BY <1>3 DEF MoveRequest
  <2>2. PICK v : v = file[Latest(r)].version + 1
    OBVIOUS
  <2>3. v \in Nat
    BY <1>1, <2>1, <2>2, CopiesHaveVersions DEF LatestThere
  <2>8. PICK d, owner, granted :
           /\ d = Latest(r) /\ owner = (IF to = "handed_off" THEN new ELSE "-")
           /\ granted = (/\ file[Latest(r)].version = expected
                        /\ <<Latest(r).status, to>> \in Moves
                        /\ file[Latest(r)].version < MaxVersion)
    OBVIOUS
  <2>4. PICK z : /\ Begin(t, z)
                 /\ z = [Idle EXCEPT !.pc = "gate", !.doc = d, !.to = to, !.owner = owner,
                                     !.version = v, !.granted = granted]
    BY <2>1, <2>2, <2>8
  <2>5. z.pc = "gate" /\ z.version = v
    BY <2>4 DEF Idle
  <2>6. job'[t] = z
    BY <1>1, <2>4, JobIsPut DEF Begin
  <2>7. QED
    BY <1>3, <2>3, <2>5, <2>6 DEF Begun, OnlyJob, OthersStay, Fine, Numbered, EntryThere,
                                      OldIsCopy, Publishing
<1>4. QED
  BY <1>1, <1>2, <1>3, RequestKinds

\* Only one job steps; the others are still about what they were.
LEMMA OthersAreFine ==
    ASSUME PromotedStay, NEW t \in Threads, OthersStay(t), \A s \in Threads : Fine(job[s]),
           Fine(job[t])'
    PROVE  \A s \in Threads : Fine(job[s])'
<1>1. ASSUME NEW s \in Threads, s # t PROVE Fine(job[s])'
  <2>1. job'[s] = job[s]
    BY <1>1 DEF OthersStay
  <2>2. PromotedDoc(Head(job[s].items).item).kind = "promoted"
    BY DEF PromotedDoc, Doc
  <2>3. QED
    BY <2>1, <2>2 DEF Fine, Numbered, EntryThere, OldIsCopy, PromotedStay
<1>2. QED
  BY <1>1

\* A step of a job is one thread's.
LEMMA StepIsOne ==
    ASSUME JobsType, NEW t \in Threads, JobStep(t)
    PROVE  OthersStay(t)
<1>1. SUFFICES ASSUME NEW s \in Threads, s # t PROVE job'[s] = job[s]
  BY DEF OthersStay
<1>2. DOMAIN job = Threads
  BY DEF JobsType
<1>3. CASE Finish(t) \/ Create(t) \/ Unlink(t)
  BY <1>1, <1>2, <1>3 DEF Finish, Create, Unlink, Done
<1>4. CASE MarkStep(t) \/ RepairStep(t) \/ Embed(t) \/ EmbedFails(t) \/ Settle(t)
  BY <1>1, <1>2, <1>4 DEF MarkStep, RepairStep, Embed, EmbedFails, Settle, Go
<1>5. CASE RefreshPick(t) \/ RefreshStep(t) \/ Reconcile(t)
  BY <1>1, <1>2, <1>5 DEF RefreshPick, RefreshStep, Reconcile, Go
<1>6. CASE Gate(t) \/ Verify(t) \/ Save(t)
  BY <1>1, <1>2, <1>6 DEF Gate, Verify, Save, Go, Done
<1>7. CASE Promote(t) \/ Publish(t) \/ Promoted(t) \/ Write(t)
  BY <1>1, <1>2, <1>7 DEF Promote, Publish, Promoted, Write, Skip
<1>8. QED
  BY <1>3, <1>4, <1>5, <1>6, <1>7 DEF JobStep

\* The jobs after any step.
LEMMA JobsStep ==
    ASSUME PromotionInv, PromotedStay, [RecNext]_recVars
    PROVE  \A t \in Threads : Fine(job[t])'
<1>1. JobsType /\ \A s \in Threads : Fine(job[s])
  BY DEF PromotionInv, Fine
<1>2. ASSUME NEW t \in Threads, JobStep(t) PROVE \A s \in Threads : Fine(job[s])'
  <2>1. OthersStay(t)
    BY <1>1, <1>2, StepIsOne
  <2>2. Fine(job[t])'
    BY <1>2, IndexingIsFine, WritingIsFine DEF JobStep
  <2>3. QED
    BY <1>1, <2>1, <2>2, OthersAreFine
<1>3. ASSUME \A s \in Threads : Follows(job[s], job'[s]) PROVE \A s \in Threads : Fine(job[s])'
  BY <1>1, <1>3, FollowsIsFine
<1>4. ASSUME NEW s \in Threads, job'[s] = job[s] PROVE Fine(job[s])'
  <2>1. PromotedDoc(Head(job[s].items).item).kind = "promoted"
    BY DEF PromotedDoc, Doc
  <2>2. QED
    BY <1>1, <1>4, <2>1 DEF Fine, Numbered, EntryThere, OldIsCopy, PromotedStay
<1>5. ASSUME NEW t \in Threads, Request(t) PROVE \A s \in Threads : Fine(job[s])'
  <2>1. CASE UNCHANGED job
    BY <1>4, <2>1
  <2>2. CASE ~UNCHANGED job
    BY <1>1, <1>5, <2>2, RequestIsFine, OthersAreFine
  <2>3. QED
    BY <2>1, <2>2
<1>6. CASE OutsideWrite \/ RemoveByHand
  <2>1. PICK d : Miss(d)
    BY <1>6 DEF OutsideWrite, RemoveByHand
  <2>2. ASSUME NEW s \in Threads PROVE Fine(job[s])'
    <3>1. /\ job'[s].pc = job[s].pc /\ job'[s].doc = job[s].doc /\ job'[s].then = job[s].then
          /\ job'[s].back = job[s].back /\ job'[s].last = job[s].last
          /\ job'[s].version = job[s].version /\ job'[s].items = job[s].items
      BY <1>1, <2>1, JobMisses
    <3>2. PromotedDoc(Head(job[s].items).item).kind = "promoted"
      BY DEF PromotedDoc, Doc
    <3>3. Numbered(job'[s]) /\ OldIsCopy(job'[s])
      BY <1>1, <3>1 DEF Fine, Numbered, OldIsCopy, Moving
    <3>4. EntryThere(job[s])'
      BY <1>1, <3>1, <3>2 DEF Fine, EntryThere, Publishing, PromotedStay
    <3>5. QED
      BY <3>3, <3>4 DEF Fine, Numbered, OldIsCopy
  <2>3. QED
    BY <2>2
<1>7. ASSUME NEW p \in Processes, Kill(p) PROVE \A s \in Threads : Fine(job[s])'
  <2>1. ASSUME NEW s \in Threads
        PROVE  job'[s] = job[s] \/ job'[s] \in {Idle, [Idle EXCEPT !.pc = "reconcile"]}
    BY <1>7, <2>1 DEF Kill
  <2>2. ASSUME NEW s \in Threads, job'[s] \in {Idle, [Idle EXCEPT !.pc = "reconcile"]}
        PROVE  Fine(job[s])'
    <3>1. job'[s].pc \in {"idle", "reconcile"}
      BY <2>2 DEF Idle
    <3>2. ~Moving(job'[s]) /\ ~Publishing(job'[s]) /\ job'[s].pc # "unlink"
      BY <3>1 DEF Moving, Publishing
    <3>3. QED
      BY <3>2, FreeIsFine
  <2>3. QED
    BY <1>4, <2>1, <2>2
<1>8. CASE UNCHANGED recVars
  BY <1>4, <1>8 DEF recVars
<1>9. QED
  BY <1>2, <1>5, <1>6, <1>7, <1>8 DEF RecNext

\* So no step breaks what promotions rest on.
LEMMA PromotionKept == PromotionInv /\ [RecNext]_recVars => PromotionInv'
<1>1. SUFFICES ASSUME PromotionInv, [RecNext]_recVars PROVE PromotionInv'
  OBVIOUS
<1>2. FilesType' /\ Bounded' /\ PromotedStay
  BY <1>1, FilesEdited, EditsAreSafe DEF PromotionInv
<1>3. JobsType'
  BY <1>1, LatestOfBounded, JobsKept DEF PromotionInv
<1>4. QueuesFit'
  <2>1. QueuesGoOn /\ QueuesFit
    BY <1>1, <1>2, QueuesStep DEF PromotionInv, QueuesFit
  <2>2. QED
    BY <1>2, <2>1, QueuesFitOn
<1>5. MemType'
  BY <1>1, <1>2, QueuesStep DEF QueuesGoOn
<1>6. \A t \in Threads : Fine(job[t])'
  BY <1>1, <1>2, JobsStep
<1>7. QED
  BY <1>2, <1>3, <1>4, <1>5, <1>6 DEF PromotionInv, QueuesFit, Fine

\* It holds at first: nothing is promoted.
LEMMA PromotionStarts == RecInit => PromotionInv
<1>1. SUFFICES ASSUME RecInit PROVE PromotionInv
  OBVIOUS
<1>2. FilesType /\ JobsType /\ MemType
  <2>1. BookInv /\ MemType
    BY <1>1, IndexStarts DEF IndexInv, IndexFits
  <2>2. QED
    BY <2>1 DEF BookInv, FilesInv
<1>3. Bounded
  BY <1>1 DEF RecInit, NoFiles, Bounded
<1>4. \A t \in Threads : Numbered(job[t]) /\ EntryThere(job[t]) /\ OldIsCopy(job[t])
  <2>1. ASSUME NEW t \in Threads PROVE job[t].pc = "idle"
    BY <1>1 DEF RecInit, Idle
  <2>2. QED
    BY <2>1 DEF Numbered, EntryThere, OldIsCopy, Moving, Publishing
<1>5. \A q \in ItemQueues : q = <<>>
  BY <1>1 DEF RecInit, ItemQueues, Blank
<1>6. QueueFits(<<>>)
  BY DEF QueueFits, IsList
<1>7. QED
  BY <1>2, <1>3, <1>4, <1>5, <1>6 DEF PromotionInv

(***************************************************************************)
(* An item that any copy of the queue calls promoted has its entry on      *)
(* disk: run_once writes the file before the status, a batch that finds    *)
(* the entry written by another process takes it as done, and nothing      *)
(* removes an entry.  For any number of processes and requests at once,    *)
(* killed anywhere.                                                        *)
(***************************************************************************)
THEOREM PromotedIsPublished == RecSpec => []PromotedHasEntry
<1>1. PromotionInv => PromotedHasEntry
  BY DEF PromotionInv, QueueFits, IsList, ItemQueues, PromotedHasEntry
<1>2. QED
  BY <1>1, PromotionStarts, PromotionKept, PTL DEF RecSpec

=============================================================================
