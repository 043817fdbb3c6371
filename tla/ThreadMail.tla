----------------------------- MODULE ThreadMail -----------------------------
(***************************************************************************)
(* The messages of one thread: thread_store.py keeps each in a file of its *)
(* own, agents look into their inbox and acknowledge what they find, and a *)
(* person follows the thread with `btwin live enter`, which shows messages *)
(* from the server's event stream and from the inbox.  Contributions,      *)
(* phases and the runner that reads the same events have modules of their  *)
(* own; wording, status lines and the `since` of a list, which no client   *)
(* asks for, are left out.  A write of a file is one instant.              *)
(***************************************************************************)
EXTENDS Integers, Sequences, FiniteSets, SequencesExt

CONSTANTS
    People,         \* agents and persons
    Founders,       \* the participants the thread is created with
    Watcher,        \* the person of `live enter`
    Letters,        \* what people may write: from, way, targets and text; a text
                    \* is "plain", "blank" but for its tldr, or "ruled", with a
                    \* line of three dashes
    MaxMail,        \* bound: messages
    Quotas          \* bounds: pairs of acknowledgements and of inboxes the chat reads

ASSUME ThreadMailAssumption ==
    /\ Watcher \in People /\ Founders \subseteq People
    /\ {l.from : l \in Letters} \subseteq People
    /\ MaxMail \in Nat /\ Quotas \subseteq Nat \X Nat

VARIABLES
    thread,         \* thread.yaml: participants and status
    mail,           \* the message files, in the order of their names
    acking,         \* agent -> the message it acknowledges and who had before
    quota,          \* how many of each there may be
    done,           \* the acknowledgements that were written
    crossed,        \* messages two have acknowledged at once
    chat            \* the chat: its threads' places, events, seen and shown

mailVars == <<thread, mail, acking, quota, done, crossed, chat>>

NoAck == [message |-> 0, acked |-> {}]
NoChat == [at |-> "off", person |-> FALSE, listening |-> FALSE, ended |-> FALSE, events |-> <<>>,
           seen |-> {}, shown |-> {}, inbox |-> {}, left |-> {}, fetches |-> 0]

-----------------------------------------------------------------------------
(***************************************************************************)
(* ThreadStore.  An acknowledgement writes the text into the front matter  *)
(* too, and there a ruled text ends it: the file is no message any more.   *)
(***************************************************************************)
Readable(m) == ~m.broken

MeantFor(m, agent) == m.way # "direct" \/ agent \in m.targets

InboxOfUnread(agent) ==         \* mutant: what anyone has acknowledged is gone
    {i \in DOMAIN mail : /\ agent \in thread.participants
                         /\ Readable(mail[i]) /\ mail[i].from # agent
                         /\ mail[i].acked = {} /\ MeantFor(mail[i], agent)}

\* list_inbox
Inbox(agent) ==
    {i \in DOMAIN mail : /\ agent \in thread.participants
                         /\ Readable(mail[i]) /\ mail[i].from # agent
                         /\ agent \notin mail[i].acked /\ MeantFor(mail[i], agent)}

FileOf(letter) ==
    [from |-> letter.from, way |-> letter.way, targets |-> letter.targets, text |-> letter.text,
     acked |-> {}, broken |-> FALSE]

Joins(agent) ==
    /\ thread' = [thread EXCEPT !.participants = @ \cup {agent}]
    /\ UNCHANGED <<mail, acking, quota, done, crossed, chat>>

Closes ==
    /\ thread' = [thread EXCEPT !.status = "completed"]
    /\ UNCHANGED <<mail, acking, quota, done, crossed, chat>>

(***************************************************************************)
(* A message sent to the server is told to whoever listens; one a command  *)
(* writes itself is not.  The server knows the targets; what a phase       *)
(* allows may refuse more.                                                 *)
(***************************************************************************)
Writes(letter) ==
    /\ thread.status = "active" /\ Len(mail) < MaxMail
    /\ mail' = Append(mail, FileOf(letter))

TargetsKnown(letter) ==
    letter.way = "direct" => letter.targets \subseteq thread.participants

Told(c) == IF c.listening THEN [c EXCEPT !.events = Append(@, Len(mail) + 1)] ELSE c

SendsByServer ==
    /\ \E letter \in Letters : letter.from # Watcher /\ TargetsKnown(letter) /\ Writes(letter)
    /\ chat' = Told(chat)
    /\ UNCHANGED <<thread, acking, quota, done, crossed>>

SendsByFile ==
    /\ \E letter \in Letters : Writes(letter)
    /\ UNCHANGED <<thread, acking, quota, done, crossed, chat>>

(***************************************************************************)
(* ack_message: a command of its own reads the file and writes it back.    *)
(***************************************************************************)
AckReads(agent) ==
    /\ acking[agent] = NoAck
    /\ Cardinality(done) + Cardinality({a \in People : acking[a] # NoAck}) < quota[1]
    /\ \E i \in DOMAIN mail :
          /\ Readable(mail[i]) /\ agent \notin mail[i].acked
          /\ acking' = [acking EXCEPT ![agent] = [message |-> i, acked |-> mail[i].acked]]
          /\ crossed' = IF \E a \in People : acking[a].message = i THEN crossed \cup {i} ELSE crossed
    /\ UNCHANGED <<thread, mail, chat, quota, done>>

AckWrites(agent) ==
    /\ acking[agent] # NoAck
    /\ LET i == acking[agent].message
       IN  /\ mail' = [mail EXCEPT ![i].acked = acking[agent].acked \cup {agent},
                                   ![i].broken = (mail[i].text = "ruled")]
           /\ done' = done \cup {<<agent, i>>}
    /\ acking' = [acking EXCEPT ![agent] = NoAck]
    /\ UNCHANGED <<thread, chat, quota, crossed>>

-----------------------------------------------------------------------------
(***************************************************************************)
(* live_enter.  One thread listens for events, from when the server has    *)
(* taken it on until the stream ends for good; for a person at a terminal  *)
(* another shows them as they come, and a pipe's are shown after each      *)
(* message it sends.  The main thread shows the inbox, at first and when   *)
(* asked.  What has been shown is remembered once for all of them.         *)
(***************************************************************************)
ChatEnters ==
    /\ chat.at = "off" /\ chat.fetches < quota[2] /\ Watcher \in thread.participants
    /\ \E terminal \in BOOLEAN : chat' = [chat EXCEPT !.at = "inbox", !.person = terminal]
    /\ UNCHANGED <<thread, mail, acking, quota, done, crossed>>

StreamBegins ==
    /\ chat.at # "off" /\ ~chat.listening /\ ~chat.ended
    /\ chat' = [chat EXCEPT !.listening = TRUE]
    /\ UNCHANGED <<thread, mail, acking, quota, done, crossed>>

StreamEnds ==
    /\ chat.listening
    /\ chat' = [chat EXCEPT !.listening = FALSE, !.ended = TRUE]
    /\ UNCHANGED <<thread, mail, acking, quota, done, crossed>>

InboxFetched ==
    /\ chat.at = "inbox" /\ chat.fetches < quota[2]
    /\ chat' = [chat EXCEPT !.at = "showing", !.inbox = Inbox(Watcher), !.left = Inbox(Watcher),
                            !.fetches = @ + 1]
    /\ UNCHANGED <<thread, mail, acking, quota, done, crossed>>

\* _render_live_inbox_messages, in their order: without a text the tldr is shown.
ShowsNext ==
    /\ chat.at = "showing"
    /\ \E i \in chat.left :
          /\ \A j \in chat.left : i <= j
          /\ chat' = [chat EXCEPT !.left = @ \ {i}, !.shown = IF i \in chat.seen THEN @ ELSE @ \cup {i},
                                  !.seen = @ \cup {i}]
    /\ UNCHANGED <<thread, mail, acking, quota, done, crossed>>

ShowsAll ==
    /\ chat.at = "showing" /\ chat.left = {}
    /\ chat' = [chat EXCEPT !.at = "reading"]
    /\ UNCHANGED <<thread, mail, acking, quota, done, crossed>>

(***************************************************************************)
(* _render_live_event: the watcher's own, those seen and those without a   *)
(* text are passed over; whom a message is meant for does not count.       *)
(***************************************************************************)
SeesBlank(c, told) ==           \* mutant: what has no text counts as seen
    LET new == {i \in told : mail[i].from # Watcher /\ i \notin c.seen}
    IN  [c EXCEPT !.shown = @ \cup {i \in new : mail[i].text # "blank"}, !.seen = @ \cup new]

Shows(c, told) ==
    LET new == {i \in told : mail[i].from # Watcher /\ i \notin c.seen /\ mail[i].text # "blank"}
    IN  [c EXCEPT !.shown = @ \cup new, !.seen = @ \cup new]

PrinterShows ==
    /\ chat.person /\ chat.at # "off" /\ chat.events # <<>>
    /\ chat' = [Shows(chat, {Head(chat.events)}) EXCEPT !.events = Tail(@)]
    /\ UNCHANGED <<thread, mail, acking, quota, done, crossed>>

PipeShows ==
    /\ chat.at = "sent"
    /\ chat' = [Shows(chat, ToSet(chat.events)) EXCEPT !.events = <<>>, !.at = "reading"]
    /\ UNCHANGED <<thread, mail, acking, quota, done, crossed>>

ChatAsks ==
    /\ chat.at = "reading"
    /\ chat' = [chat EXCEPT !.at = "inbox"]
    /\ UNCHANGED <<thread, mail, acking, quota, done, crossed>>

ChatSends ==
    /\ chat.at = "reading"
    /\ \E letter \in Letters : letter.from = Watcher /\ TargetsKnown(letter) /\ Writes(letter)
    /\ chat' = [Told(chat) EXCEPT !.at = IF chat.person THEN "reading" ELSE "sent",
                                  !.seen = @ \cup {Len(mail) + 1}]
    /\ UNCHANGED <<thread, acking, quota, done, crossed>>

\* /exit, the end of the input, or a refusal by the server
ChatLeaves ==
    /\ chat.at = "reading"
    /\ chat' = [NoChat EXCEPT !.fetches = quota[2] + 1]
    /\ UNCHANGED <<thread, mail, acking, quota, done, crossed>>

-----------------------------------------------------------------------------
MailInit ==
    /\ thread = [participants |-> Founders, status |-> "active"]
    /\ mail = <<>>
    /\ acking = [a \in People |-> NoAck]
    /\ quota \in Quotas
    /\ done = {} /\ crossed = {}
    /\ chat = NoChat

MailNext ==
    \/ Closes \/ SendsByServer \/ SendsByFile
    \/ \E a \in People : Joins(a) \/ AckReads(a) \/ AckWrites(a)
    \/ ChatEnters \/ StreamBegins \/ StreamEnds \/ InboxFetched \/ ShowsNext \/ ShowsAll
    \/ PrinterShows \/ PipeShows \/ ChatAsks \/ ChatSends \/ ChatLeaves

MailSpec == MailInit /\ [][MailNext]_mailVars

-----------------------------------------------------------------------------
(***************************************************************************)
(* A participant's inbox holds exactly the messages meant for it that it   *)
(* has not acknowledged, whatever others acknowledge and whoever joins     *)
(* later (list_inbox, ack_message).  Left out: two acknowledgements of one *)
(* message at once, of which one is lost, and a ruled text, which the      *)
(* first acknowledgement makes disappear from every inbox.                 *)
(***************************************************************************)
InboxIsUnacked ==
    \A a \in thread.participants, i \in DOMAIN mail :
        i \notin crossed /\ mail[i].text # "ruled" =>
            (i \in Inbox(a) <=>
                mail[i].from # a /\ MeantFor(mail[i], a) /\ <<a, i>> \notin done)

(***************************************************************************)
(* Once the chat has gone through an inbox, all of it has been shown, by   *)
(* the inbox or by an event before: what counts as seen was on the screen  *)
(* (_render_live_event and _render_live_inbox_messages share the set).     *)
(***************************************************************************)
ChatShowsInbox == chat.at \in {"reading", "sent"} => chat.inbox \subseteq chat.shown
=============================================================================
