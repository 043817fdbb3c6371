----------------------------- MODULE RecordBook -----------------------------
(***************************************************************************)
(* What agents may expect of the records they hand to one another: a book  *)
(* with one line per record, which its owner moves on, one version at a    *)
(* time, and which is never lost.                                          *)
(***************************************************************************)
EXTENDS Naturals

CONSTANTS RecordIds, Agents

VARIABLE book       \* each record's owner, status and version, or None

Line(owner, status, version) == [owner |-> owner, status |-> status, version |-> version]

None == Line("-", "none", 0)

Enter(r) ==
    /\ book[r] = None
    /\ \E author \in Agents, status \in {"draft", "handed_off", "completed"} :
          book' = [book EXCEPT ![r] = Line(author, status, 1)]

HandOff(r) ==
    /\ book[r] # None /\ book[r].status = "draft"
    /\ \E new \in Agents :
          book' = [book EXCEPT ![r] = Line(new, "handed_off", book[r].version + 1)]

Complete(r) ==
    /\ book[r] # None /\ book[r].status \in {"draft", "handed_off"}
    /\ book' = [book EXCEPT ![r] = Line(book[r].owner, "completed", book[r].version + 1)]

BookInit == book = [r \in RecordIds |-> None]
BookNext == \E r \in RecordIds : Enter(r) \/ HandOff(r) \/ Complete(r)
BookSpec == BookInit /\ [][BookNext]_book
=============================================================================
