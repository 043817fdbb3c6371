------------------------------ MODULE MCRecords ------------------------------
(***************************************************************************)
(* Records on a small instance: one record with its promotion, or notes,   *)
(* or a document written without the index; a command beside the server,   *)
(* kills, failing embeddings and files removed by hand.  Beside it other   *)
(* stores of files that share nothing with it or with one another: in a    *)
(* behaviour one of them moves and the others stay as they begin.          *)
(***************************************************************************)
EXTENDS Records, ProtocolFiles, ThreadMail, EntryCatalog

CONSTANTS ann, bob, user, w1, w2, cli

VARIABLE part       \* the store that moves

MCPayloads == {[task |-> "T", author |-> "ann", status |-> "draft"]}

-----------------------------------------------------------------------------
(***************************************************************************)
(* Protocol definitions: two phases, of other names or of the same, a gate *)
(* and a policy, each missing, fitting and not fitting the others.         *)
(***************************************************************************)
Shape(name, gate, policy) ==
    [name |-> name, gate |-> gate, policy |-> policy, guardSet |-> NoName,
     actions |-> {}, realtime |-> FALSE, template |-> TRUE, decided |-> FALSE,
     guards |-> {}, emitted |-> <<>>]
Route(outcome, target) == [outcome |-> outcome, target |-> target]
Way(from, to, on) == [from |-> from, to |-> to, on |-> on]

Beginning(gate, policy, realtime) ==
    [Shape("plan", gate, policy) EXCEPT
        !.realtime = realtime, !.guardSet = IF policy = "o" THEN "s" ELSE NoName]
Ending(gate, decided) ==
    [Shape("end", gate, NoName) EXCEPT !.template = FALSE, !.decided = decided]

PhaseLists ==
    {<<Beginning(g, p, r), Ending(h, r)>> :
        g \in {NoName, "g"}, p \in {NoName, "o"}, r \in BOOLEAN, h \in {NoName, "g"}}
    \cup {<<Shape("plan", g, NoName), Shape("plan", h, NoName)>> : g, h \in {NoName, "g"}}
AGate(routes) == [name |-> "g", routes |-> routes]
GateLists ==
    {<<>>, <<AGate(<<>>), AGate(<<Route("ok", "end")>>)>>,
     <<AGate(<<Route("ok", "end")>>)>>, <<AGate(<<Route("ok", "gone")>>)>>,
     <<AGate(<<Route("ok", "plan"), Route("no", "end")>>)>>,
     <<AGate(<<Route("ok", "end"), Route("ok", "plan")>>)>>}
PolicyLists ==
    {<<>>} \cup {<<[name |-> "o", outcomes |-> given]>> : given \in {<<"ok">>, <<"other", "ok">>}}
Ways ==
    {<<>>, <<Way("plan", "end", "ok")>>, <<Way("plan", "end", NoName)>>,
     <<Way("plan", "plan", "no"), Way("plan", "end", "ok")>>,
     <<Way("plan", "end", "ok"), Way("plan", "plan", "ok")>>}

Definitions ==
    {[name |-> "mine", phases |-> ps, gates |-> gs, policies |-> os, transitions |-> ts,
      outcomes |-> given, guardSets |-> <<[name |-> "s", guards |-> {"contribution_required"}]>>] :
        ps \in PhaseLists, gs \in GateLists, os \in PolicyLists, ts \in Ways,
        given \in {<<>>, <<"ok", "no">>}}
Plain ==
    [name |-> "plain", phases |-> <<Shape("plan", NoName, NoName)>>, gates |-> <<>>,
     policies |-> <<>>, transitions |-> <<>>, outcomes |-> <<>>, guardSets |-> <<>>]

Drafts == {{d, Plain} : d \in Definitions} \cup {{Plain}}
Shipped == "plain" :> Plain
Found == {<<>>, "plain" :> [Plain EXCEPT !.name = "other"], "odd" :> Plain}

-----------------------------------------------------------------------------
(***************************************************************************)
(* Messages: to all and to one, by a participant and by one who may join,  *)
(* without a text but its tldr, and with a line of dashes.                 *)
(***************************************************************************)
Letter(from, way, targets, text) ==
    [from |-> from, way |-> way, targets |-> targets, text |-> text]
Mail ==
    {Letter(ann, "auto", {}, "plain"), Letter(ann, "direct", {user}, "blank"),
     Letter(bob, "auto", {}, "ruled"), Letter(bob, "direct", {ann}, "plain"),
     Letter(user, "direct", {ann}, "plain")}
MailQuotas == {<<2, 0>>, <<0, 2>>}

-----------------------------------------------------------------------------
(***************************************************************************)
(* The catalogue: the server's directory and that of all projects, which a *)
(* link names too, with an entry and two records, one of them a project's. *)
(***************************************************************************)
Linked == "here" :> "here" @@ "there" :> "there" @@ "link" :> "there"
Finds == {<<"link", "here">>}
Lying(kind, project, id) ==
    [home |-> "there", kind |-> kind, project |-> project, id |-> id, version |-> 1, session |-> 0]
Lie == {Lying("entry", "own", 0), Lying("collab", "_global", 0), Lying("collab", "own", 1)}
CatalogBudgets == {<<3, 0>>, <<0, 4>>}

-----------------------------------------------------------------------------
StoresInit ==
    /\ part \in {"records", "files", "mail", "catalog"}
    /\ RecInit
    /\ FilesInit /\ (part # "files" => drafts = {Plain} /\ local = <<>>)
    /\ MailInit /\ (part # "mail" => quota = <<2, 0>>)
    /\ CatalogInit /\ (part # "catalog" => budget = <<0, 4>>)

StoresNext ==
    \/ part = "records" /\ RecNext /\ UNCHANGED <<fileVars, mailVars, catalogVars, part>>
    \/ part = "files" /\ FilesNext /\ UNCHANGED <<recVars, mailVars, catalogVars, part>>
    \/ part = "mail" /\ MailNext /\ UNCHANGED <<recVars, fileVars, catalogVars, part>>
    \/ part = "catalog" /\ CatalogNext /\ UNCHANGED <<recVars, fileVars, mailVars, part>>

storesVars == <<recVars, fileVars, mailVars, catalogVars, part>>

StoresSpec == StoresInit /\ [][StoresNext]_storesVars /\ RecFairness
=============================================================================
