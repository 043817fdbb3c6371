---------------------------- MODULE HudNavigator ----------------------------
(***************************************************************************)
(* The full-screen HUD of main.py, _run_hud_navigator: it draws a frame    *)
(* from a snapshot that may be a refresh interval old, waits for a key and *)
(* applies it to what it reads then.  Its one write is a forced close of a *)
(* thread, which takes two key presses.  Threads come and go at any time.  *)
(* Scrolling, wording and the panels are left out.                         *)
(***************************************************************************)
EXTENDS Integers, Sequences, FiniteSets, SequencesExt

CONSTANTS
    ThreadIds,      \* threads, numbered in the order they are listed in
    NoThread,
    MaxThreads      \* bound: threads active at once

ASSUME HudAssumption == ThreadIds \subseteq Nat /\ NoThread \notin ThreadIds

VARIABLES
    active,         \* the active threads
    nav,            \* _HudNavigatorState
    snapshot,       \* the thread list last read for drawing, and for which screen
    frame,          \* what the person sees
    looking,        \* the loop is waiting for a key
    forced          \* the thread the last key has closed

hudVars == <<active, nav, snapshot, frame, looking, forced>>

Details == {"thread", "validation", "live"}
Screens == {"menu", "threads"} \cup Details
Keys == {"up", "down", "enter", "back", "close", "threads", "detail", "validation", "live", "page_up"}

\* _list_hud_threads
Listed(ids) == SetToSortSeq(ids, <)

Clamp(i, n) == IF n = 0 THEN 0 ELSE Max({0, Min({i, n - 1})})

At(list, i) == IF list = <<>> THEN NoThread ELSE list[Clamp(i, Len(list)) + 1]

SnapshotIdentity ==
    IF nav.screen = "threads" THEN <<nav.screen, nav.index>> ELSE <<nav.screen, nav.selected>>

Take == [key |-> SnapshotIdentity,
         list |-> IF nav.screen = "threads" THEN Listed(active) ELSE <<>>]

-----------------------------------------------------------------------------
ThreadAppears ==
    /\ Cardinality(active) < MaxThreads
    /\ \E t \in ThreadIds \ active : active' = active \cup {t}
    /\ UNCHANGED <<nav, snapshot, frame, looking, forced>>

ThreadCloses ==
    /\ \E t \in active : active' = active \ {t}
    /\ UNCHANGED <<nav, snapshot, frame, looking, forced>>

(***************************************************************************)
(* A frame shows one thread, the highlighted or the selected one.  The     *)
(* question before a close is in its footer, but not when the list is      *)
(* empty or the thread could not be read.                                  *)
(***************************************************************************)
MenuFrame == [screen |-> "menu", thread |-> NoThread, asks |-> NoThread, blank |-> FALSE]

ListFrame(list, i) ==
    [screen |-> "threads", thread |-> At(list, i), blank |-> list = <<>>,
     asks |-> IF list = <<>> THEN NoThread ELSE nav.confirming]

DetailFrame(found) ==
    [screen |-> nav.screen, thread |-> nav.selected, blank |-> ~found,
     asks |-> IF found THEN nav.confirming ELSE NoThread]

(***************************************************************************)
(* Draw: a snapshot that was taken for another screen is replaced, one for *)
(* this screen when it is old enough.  Drawing the list moves the          *)
(* highlight into it.                                                      *)
(***************************************************************************)
Draw ==
    /\ ~looking
    /\ \/ snapshot' = Take
       \/ snapshot.key = SnapshotIdentity /\ UNCHANGED snapshot
    /\ \/ /\ nav.screen = "menu"
          /\ frame' = MenuFrame /\ UNCHANGED nav
       \/ /\ nav.screen = "threads"
          /\ nav' = [nav EXCEPT !.index = Clamp(@, Len(snapshot'.list))]
          /\ frame' = ListFrame(snapshot'.list, nav.index)
       \/ /\ nav.screen \in Details
          /\ \E found \in BOOLEAN : frame' = DetailFrame(found)
          /\ UNCHANGED nav
    /\ looking' = TRUE /\ forced' = NoThread
    /\ UNCHANGED active

-----------------------------------------------------------------------------
(***************************************************************************)
(* _apply_hud_key, screen by screen, once a confirmation has been dealt    *)
(* with.                                                                   *)
(***************************************************************************)
MenuKey(n, k) ==
    IF k \in {"threads", "enter"} THEN [n EXCEPT !.screen = "threads", !.index = 0] ELSE n

ScreenOf(k) == IF k \in {"enter", "detail"} THEN "thread" ELSE k

ThreadsKey(n, k) ==
    LET list == Listed(active)
        here == [n EXCEPT !.index = Clamp(@, Len(list))]
    IN  CASE k = "back" -> [n EXCEPT !.screen = "menu"]
          [] k = "up" -> [n EXCEPT !.index = Clamp(@ - 1, Len(list))]
          [] k = "down" -> [n EXCEPT !.index = Clamp(@ + 1, Len(list))]
          [] k \in {"enter", "detail", "validation", "live"} /\ list # <<>> ->
                [here EXCEPT !.selected = At(list, n.index), !.screen = ScreenOf(k)]
          [] k = "close" /\ list # <<>> -> [here EXCEPT !.confirming = At(list, n.index)]
          [] OTHER -> n

DetailKey(n, k) ==
    CASE k = "threads" \/ (k = "back" /\ n.screen = "thread") -> [n EXCEPT !.screen = "threads"]
      [] k \in {"back", "detail"} /\ n.screen # "thread" -> [n EXCEPT !.screen = "thread"]
      [] k \in {"validation", "live"} -> [n EXCEPT !.screen = k]
      [] k = "close" -> [n EXCEPT !.confirming = n.selected]
      [] OTHER -> n

ScreenKey(n, k) ==
    CASE n.screen = "menu" -> MenuKey(n, k)
      [] n.screen = "threads" -> ThreadsKey(n, k)
      [] OTHER -> DetailKey(n, k)

OtherKeyKeeps(k) ==     \* mutant: a confirmation outlives another key
    /\ nav.confirming # NoThread => k \notin {"close", "back"}
    /\ nav' = ScreenKey(nav, k)

OtherKey(k) ==
    /\ nav.confirming # NoThread => k \notin {"close", "back"}
    /\ nav' = ScreenKey([nav EXCEPT !.confirming = NoThread], k)

Press(k) ==
    /\ looking /\ OtherKey(k)
    /\ looking' = FALSE /\ forced' = NoThread
    /\ UNCHANGED <<active, snapshot, frame>>

CancelClose ==
    /\ looking /\ nav.confirming # NoThread
    /\ nav' = [nav EXCEPT !.confirming = NoThread]
    /\ looking' = FALSE /\ forced' = NoThread
    /\ UNCHANGED <<active, snapshot, frame>>

AfterClose ==
    [nav EXCEPT !.confirming = NoThread, !.index = Clamp(@, Cardinality(active')),
                !.selected = IF nav.screen = "threads" THEN @ ELSE NoThread,
                !.screen = "threads"]

\* _close_hud_thread; the server may be out of reach.
ConfirmClose ==
    /\ looking /\ nav.confirming # NoThread
    /\ \/ /\ active' = active \ {nav.confirming}
          /\ forced' = nav.confirming
          /\ nav' = AfterClose
       \/ /\ nav' = [nav EXCEPT !.confirming = NoThread]
          /\ forced' = NoThread /\ UNCHANGED active
    /\ looking' = FALSE
    /\ UNCHANGED <<snapshot, frame>>

NoKey ==
    /\ looking /\ looking' = FALSE /\ forced' = NoThread
    /\ UNCHANGED <<active, nav, snapshot, frame>>

-----------------------------------------------------------------------------
HudInit ==
    /\ active \in {ids \in SUBSET ThreadIds : Cardinality(ids) <= MaxThreads}
    /\ nav = [screen |-> "menu", index |-> 0, selected |-> NoThread, confirming |-> NoThread]
    /\ snapshot = [key |-> <<"menu", NoThread>>, list |-> <<>>]
    /\ frame = MenuFrame
    /\ looking = FALSE
    /\ forced = NoThread

HudNext ==
    \/ ThreadAppears \/ ThreadCloses
    \/ Draw \/ NoKey \/ CancelClose \/ ConfirmClose
    \/ \E k \in Keys : Press(k)

HudSpec == HudInit /\ [][HudNext]_hudVars

-----------------------------------------------------------------------------
(***************************************************************************)
(* A thread is force-closed only when the frame the person was looking at  *)
(* asked for it, or was one that shows neither threads nor questions; and  *)
(* where a frame is of one thread, it was this one.  A press that belongs  *)
(* to an earlier question closes nothing.                                  *)
(***************************************************************************)
CloseIsConfirmed ==
    forced # NoThread =>
        /\ frame.asks = forced \/ frame.blank
        /\ frame.screen \in Details => frame.thread = forced
=============================================================================
