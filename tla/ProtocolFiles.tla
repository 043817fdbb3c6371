--------------------------- MODULE ProtocolFiles ----------------------------
(***************************************************************************)
(* Protocol definitions: how protocol_store.py checks, compiles, saves and *)
(* finds them, and the handlers and commands that create, edit, delete and *)
(* preview one.  A definition is a document; compiled, it is a protocol,   *)
(* and the file of a saved protocol is a document again.  Texts, labels,   *)
(* templates and procedures are left out.                                  *)
(***************************************************************************)
EXTENDS Integers, Sequences, FiniteSets

CONSTANTS
    Documents,      \* sets of definitions people may be at work on
    ByHand,         \* what the project's directory may hold to begin with
    Bundled,        \* the files of the fallback directory
    NoName,
    MaxSaves,       \* bound: definitions saved
    MaxTorn         \* bound: kills while a file is written

IsList(q) == Len(q) \in Nat /\ q = [i \in 1..Len(q) |-> q[i]]

PhaseFields == {"name", "gate", "guardSet", "policy", "actions", "realtime", "template",
                "decided", "guards", "emitted"}

ASSUME ProtocolFilesAssumption ==
    \A d \in UNION Documents :
        /\ {"name", "phases", "guardSets", "gates", "policies", "transitions", "outcomes"}
               \subseteq DOMAIN d
        /\ IsList(d.phases) /\ IsList(d.transitions) /\ IsList(d.outcomes)
        /\ IsList(d.policies) /\ IsList(d.gates)
        /\ \A i \in DOMAIN d.phases : PhaseFields \subseteq DOMAIN d.phases[i]
        /\ \A i \in DOMAIN d.policies : IsList(d.policies[i].outcomes)
        /\ \A i \in DOMAIN d.gates : IsList(d.gates[i].routes)

VARIABLES
    drafts,         \* the definitions people are at work on
    local,          \* the project's directory: file name -> document or Torn
    writing,        \* the save in progress
    accepted,       \* name -> the protocol its last save has answered with
    saves, torn

fileVars == <<drafts, local, writing, accepted, saves, torn>>

Torn == [cut |-> TRUE]
NoWrite == [name |-> NoName, document |-> Torn]
Invalid == [name |-> NoName]

Names(list) == {list[i].name : i \in DOMAIN list}
NamesUnique(list) == Cardinality(Names(list)) = Len(list)

ItemsOf(q) == {q[i] : i \in DOMAIN q}

\* The items at these places, in their order.
AtPlaces(q, places) ==
    [k \in 1..Cardinality(places) |->
        q[CHOOSE i \in places : Cardinality({j \in places : j < i}) = k - 1]]

\* One list after the other.
Joined(lists) ==
    LET upTo[n \in 0..Len(lists)] == IF n = 0 THEN <<>> ELSE upTo[n - 1] \o lists[n]
    IN  upTo[Len(lists)]

\* Where the items of that name are: nowhere, or at one place where names are unique.
Called(list, name) == {i \in DOMAIN list : list[i].name = name}
FirstCalled(list, name) ==
    list[CHOOSE i \in Called(list, name) : \A j \in Called(list, name) : i <= j]
LastCalled(list, name) ==
    list[CHOOSE i \in Called(list, name) : \A j \in Called(list, name) : i >= j]

OutcomesOf(d) == ItemsOf(d.outcomes)
RoutedOutcomes(d) == UNION {{r.outcome : r \in ItemsOf(g.routes)} : g \in ItemsOf(d.gates)}
PolicyOutcomes(d) == UNION {ItemsOf(p.outcomes) : p \in ItemsOf(d.policies)}

-----------------------------------------------------------------------------
(***************************************************************************)
(* The rules for names, references, routes and transitions.  They are      *)
(* checked on the document, where outcomes need not be declared and a      *)
(* route needs no transition, and again on what it compiles to.  Whether a *)
(* transition leads from a phase to a phase is never checked.              *)
(***************************************************************************)
AllNamesUnique(d) == NamesUnique(d.guardSets) /\ NamesUnique(d.gates) /\ NamesUnique(d.policies)

RoutesSound(d, known) ==
    /\ RoutedOutcomes(d) \cup PolicyOutcomes(d) \subseteq known
    /\ \A g \in ItemsOf(d.gates) :
          /\ \A i, j \in DOMAIN g.routes : g.routes[i].outcome = g.routes[j].outcome => i = j
          /\ \A r \in ItemsOf(g.routes) : r.target \in Names(d.phases)

ReferencesKnown(d) ==
    \A ph \in ItemsOf(d.phases) :
        /\ ph.guardSet \in Names(d.guardSets) \cup {NoName}
        /\ ph.gate \in Names(d.gates) \cup {NoName}
        /\ ph.policy \in Names(d.policies) \cup {NoName}

\* The routes of the phase's gate; those of the first gate of that name.
RoutesOf(d, ph) ==
    IF Called(d.gates, ph.gate) = {} THEN <<>> ELSE FirstCalled(d.gates, ph.gate).routes

TransitionsOn(d, phase, outcome) ==
    {i \in DOMAIN d.transitions : d.transitions[i].from = phase /\ d.transitions[i].on = outcome}

RoutesAgree(d, fewest) ==
    \A ph \in ItemsOf(d.phases) : \A r \in ItemsOf(RoutesOf(d, ph)) :
        LET taken == TransitionsOn(d, ph.name, r.outcome)
        IN  /\ fewest <= Cardinality(taken) /\ Cardinality(taken) <= 1
            /\ \A i \in taken : d.transitions[i].to = r.target

\* _validate_protocol_semantics
SemanticsHold(d) ==
    /\ AllNamesUnique(d) /\ ReferencesKnown(d)
    /\ RoutesSound(d, IF d.outcomes = <<>> THEN RoutedOutcomes(d) \cup PolicyOutcomes(d)
                      ELSE OutcomesOf(d))
    /\ RoutesAgree(d, 0)

\* Protocol.validate_authoring_references
ReferencesHold(d) ==
    /\ AllNamesUnique(d) /\ ReferencesKnown(d)
    /\ RoutesSound(d, OutcomesOf(d))
    /\ RoutesAgree(d, 1)

-----------------------------------------------------------------------------
(***************************************************************************)
(* _compile_protocol: every route of a phase's gate becomes a transition,  *)
(* whatever a transition or a policy speaks of becomes an outcome, and     *)
(* each phase is given its guards and its policy's outcomes.  Of two       *)
(* phases of one name the later counts, in the place of the earlier.       *)
(***************************************************************************)
RouteTransitions(d, name) ==
    LET routes == RoutesOf(d, LastCalled(d.phases, name))
        untaken == {i \in DOMAIN routes : TransitionsOn(d, name, routes[i].outcome) = {}}
    IN  AtPlaces([i \in DOMAIN routes |->
                    [from |-> name, to |-> routes[i].target, on |-> routes[i].outcome]], untaken)

\* The distinct values of a sequence, each where it is first.
Firsts(q) == AtPlaces(q, {i \in DOMAIN q : \A j \in 1..(i - 1) : q[j] # q[i]})

PhaseNames(d) == Firsts([i \in DOMAIN d.phases |-> d.phases[i].name])

RoutesAlwaysAdded(d) ==         \* mutant: a route that has its transition gets one more
    LET added(name) == [i \in DOMAIN RoutesOf(d, LastCalled(d.phases, name)) |->
                          LET r == RoutesOf(d, LastCalled(d.phases, name))[i]
                          IN  [from |-> name, to |-> r.target, on |-> r.outcome]]
    IN  d.transitions \o Joined([k \in DOMAIN PhaseNames(d) |-> added(PhaseNames(d)[k])])

CompiledTransitions(d) ==
    d.transitions \o Joined([k \in DOMAIN PhaseNames(d) |-> RouteTransitions(d, PhaseNames(d)[k])])

CompiledOutcomes(d, transitions) ==
    LET on == [i \in DOMAIN transitions |-> transitions[i].on]
        taken == AtPlaces(on, {i \in DOMAIN on : on[i] # NoName})
    IN  Firsts(d.outcomes \o taken \o Joined([i \in DOMAIN d.policies |-> d.policies[i].outcomes]))

\* ProtocolPhase.normalize_actions
Actions(ph) ==
    LET inferred == (IF ph.realtime THEN {"discuss"} ELSE {})
                    \cup (IF ph.template THEN {"contribute"} ELSE {})
                    \cup (IF ph.decided THEN {"decide"} ELSE {})
    IN  IF ph.actions # {} THEN ph.actions \cup (IF ph.decided THEN {"decide"} ELSE {})
        ELSE IF inferred # {} THEN inferred ELSE {"discuss"}

CompiledPhase(d, ph) ==
    [ph EXCEPT !.actions = Actions(ph),
               !.guards = IF Called(d.guardSets, ph.guardSet) = {} THEN {}
                          ELSE LastCalled(d.guardSets, ph.guardSet).guards,
               !.emitted = IF Called(d.policies, ph.policy) = {} THEN <<>>
                           ELSE LastCalled(d.policies, ph.policy).outcomes]

Compiled(d) ==
    LET transitions == CompiledTransitions(d)
    IN  [d EXCEPT !.phases = [i \in DOMAIN @ |-> CompiledPhase(d, @[i])],
                  !.transitions = transitions,
                  !.outcomes = CompiledOutcomes(d, transitions)]

\* compile_protocol_definition and the three layers it may fail in
Compile(d) ==
    IF d # Torn /\ SemanticsHold(d) /\ ReferencesHold(Compiled(d)) THEN Compiled(d) ELSE Invalid

-----------------------------------------------------------------------------
(***************************************************************************)
(* ProtocolStore: the project's directory before the bundled one.  A file  *)
(* leaves out what is derived, and the mode the actions were taken from.   *)
(***************************************************************************)
Saved(protocol) ==
    [protocol EXCEPT !.phases =
        [i \in DOMAIN @ |-> [@[i] EXCEPT !.realtime = FALSE, !.guards = {}, !.emitted = <<>>]]]

\* Of a protocol the mode is what reading it back does not show.
AsRead(protocol) ==
    IF protocol = Invalid THEN Invalid
    ELSE [protocol EXCEPT !.phases = [i \in DOMAIN @ |-> [@[i] EXCEPT !.realtime = FALSE]]]

\* get_protocol: the first file of that name, though it may not be valid.
Get(name) ==
    IF name \in DOMAIN local THEN Compile(local[name])
    ELSE IF name \in DOMAIN Bundled THEN Compile(Bundled[name]) ELSE Invalid

\* list_protocols: every valid file, under the name it has inside.
ListedNames ==
    {Compile(local[f]).name : f \in DOMAIN local}
    \cup {Compile(Bundled[f]).name : f \in DOMAIN Bundled}

-----------------------------------------------------------------------------
(***************************************************************************)
(* A save compiles and writes; the file is empty until it is written.      *)
(* Creating overwrites what has that name; update_protocol and `edit` only *)
(* refuse a document of another name before they do the same.              *)
(***************************************************************************)
SaveBegins(d) ==
    /\ writing = NoWrite /\ saves < MaxSaves
    /\ Compile(d) # Invalid
    /\ writing' = [name |-> d.name, document |-> Saved(Compile(d))]
    /\ local' = [f \in DOMAIN local \cup {d.name} |-> IF f = d.name THEN Torn ELSE local[f]]
    /\ accepted' = [n \in DOMAIN accepted \cup {d.name} |->
                       IF n = d.name THEN Compile(d) ELSE accepted[n]]
    /\ saves' = saves + 1
    /\ UNCHANGED <<drafts, torn>>

SaveEnds ==
    /\ writing # NoWrite
    /\ local' = [local EXCEPT ![writing.name] = writing.document]
    /\ writing' = NoWrite
    /\ UNCHANGED <<drafts, accepted, saves, torn>>

WithoutFile(f, name) == [n \in DOMAIN f \ {name} |-> f[n]]

SaveCut ==
    /\ writing # NoWrite /\ torn < MaxTorn
    /\ accepted' = WithoutFile(accepted, writing.name)
    /\ writing' = NoWrite
    /\ torn' = torn + 1
    /\ UNCHANGED <<drafts, local, saves>>

\* delete_protocol: a bundled protocol of that name shows again.
Delete(name) ==
    /\ writing = NoWrite /\ name \in DOMAIN local
    /\ local' = WithoutFile(local, name)
    /\ accepted' = WithoutFile(accepted, name)
    /\ UNCHANGED <<drafts, writing, saves, torn>>

FilesInit ==
    /\ drafts \in Documents
    /\ local \in ByHand
    /\ writing = NoWrite
    /\ accepted = <<>>
    /\ saves = 0 /\ torn = 0

FilesNext ==
    \/ SaveEnds \/ SaveCut
    \/ \E d \in drafts : SaveBegins(d)
    \/ \E name \in DOMAIN local : Delete(name)

FilesSpec == FilesInit /\ [][FilesNext]_fileVars

-----------------------------------------------------------------------------
(***************************************************************************)
(* What a save has accepted, get_protocol gives back and list_protocols    *)
(* names, and it compiles again to itself: every use of a protocol         *)
(* compiles it once more (protocol_flow.py, delegation_engine.py,          *)
(* workflow_constraints.py and the preview), and none of them expects that *)
(* to fail.                                                                *)
(***************************************************************************)
SavedReadsBack ==
    writing = NoWrite =>
        \A n \in DOMAIN accepted :
            /\ Get(n) = AsRead(accepted[n]) /\ n \in ListedNames
            /\ Compile(accepted[n]) = accepted[n]
=============================================================================
