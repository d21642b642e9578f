-------------------------------- MODULE Tui --------------------------------
(***************************************************************************)
(* The terminal interface (apps/tui): a copy of the daemon's manifest that *)
(* is refreshed by DUMP, a list of it under a filter with a cursor and a   *)
(* selection, and dialogs whose answers become commands.  The daemon       *)
(* changes behind it: the CLI, the scanner, the cycler and other           *)
(* interfaces use it too, between any two steps.                           *)
(*                                                                         *)
(* One thread handles one event at a time; sending a command or DUMP       *)
(* blocks it, so at says whether it waits for a key or for the daemon.  A  *)
(* refresh thread posts an event every five seconds.  cursor is            *)
(* selectedIndex + 1.  How the three sort modes order the list is left     *)
(* open: after every sort the list may be in any order.  The log line,     *)
(* what is drawn, previews and quitting are left out.                      *)
(***************************************************************************)
EXTENDS Naturals, Sequences, FiniteSets

CONSTANTS
  Hash,        \* digests
  Names,       \* file names
  Visibility,  \* visibilities in use, of the three there are
  Filters,     \* texts in the search field
  Matches,     \* <<f, n>>: the name n contains the text f
  None

Mode == {"safe", "unsafe"}
Item == [name : Names, vis : Visibility]

ASSUME InputAssumption ==
  /\ {"safe", "unsafe"} \subseteq Visibility
  /\ Visibility \subseteq {"safe", "unsafe", "unclassified"}
  /\ Matches \subseteq Filters \X Names
  /\ Names \cap Visibility = {}
  /\ "" \in Filters
\* A digest has 256 bits.
ASSUME FiniteAssumption == IsFiniteSet(Hash)
ASSUME NoneAssumption == None \notin Hash \union Names \union Visibility \union Item

VARIABLES
  tracked,   \* the daemon's wallpapers
  mode,      \* the daemon's mode
  view,      \* allWallpapers: the wallpapers of the last dump
  viewMode,  \* systemMode
  list,      \* filteredWallpapers, as digests
  cursor,    \* the entry of the list that is highlighted
  selected,  \* selectedHashes
  filter,    \* filterText
  layer,     \* where keys go: the list, the search field, or a dialog
  at,        \* what the thread waits for: a key, commands or DUMP to return
  pending,   \* the commands of the present event that are still to be sent
  stale,     \* auxiliary: somebody changed the daemon, or a DUMP failed, since
             \* the last dump
  asked      \* auxiliary: the wallpapers the dialog on the screen is about

daemon == <<tracked, mode>>
copy   == <<view, viewMode>>
lines  == <<list, cursor>>
vars   == <<tracked, mode, view, viewMode, list, cursor, selected, filter, layer,
            at, pending, stale, asked>>

Main   == {"menu", "filter"}
Dialog == {"rename", "delete", "toggle", "classify", "help"}

Command == [op   : {"delete", "classify", "rename", "apply", "toggle", "cycle", "scan"},
            hash : Hash \union {None},
            arg  : Visibility \union Names \union {None}]

Cmd(op, h, arg) == [op |-> op, hash |-> h, arg |-> arg]

\* The program starts with an empty copy and the mode Safe, and asks for a dump.
Init ==
  /\ tracked \in [Hash -> Item \union {None}]
  /\ mode \in Mode
  /\ view = [h \in Hash |-> None] /\ viewMode = "safe"
  /\ list = << >> /\ cursor = 1
  /\ selected = {}
  /\ filter = ""
  /\ layer = "filter"
  /\ at = "dump" /\ pending = {}
  /\ stale = TRUE
  /\ asked = {}

-----------------------------------------------------------------------------
(* The list.                                                               *)

Visible == {list[i] : i \in DOMAIN list}

Highlighted == list[cursor]

\* The wallpapers among items whose name contains the text f.
Matching(items, f) == {h \in Hash : items[h] # None /\ <<f, items[h].name>> \in Matches}

\* Every order of the wallpapers in S.
Orders(S) == {s \in [1..Cardinality(S) -> S] : \A i, j \in DOMAIN s : s[i] = s[j] => i = j}

\* Mutants of CursorIn: the cursor keeps its place; it is not clamped.
CursorStays(new) ==
  IF cursor > Len(new) THEN (IF new = << >> THEN 1 ELSE Len(new)) ELSE cursor

CursorUnclamped(new) ==
  IF list # << >> /\ \E i \in DOMAIN new : new[i] = Highlighted
  THEN CHOOSE i \in DOMAIN new : new[i] = Highlighted
  ELSE cursor

\* Where the cursor is in the new list: on the wallpaper it was on, or else in the
\* place it was in, or on the last entry.
CursorIn(new) ==
  IF list # << >> /\ \E i \in DOMAIN new : new[i] = Highlighted
  THEN CHOOSE i \in DOMAIN new : new[i] = Highlighted
  ELSE IF cursor > Len(new) THEN (IF new = << >> THEN 1 ELSE Len(new)) ELSE cursor

ApplyFilterAndSort(items) ==
  /\ list' \in Orders(Matching(items, filter))
  /\ cursor' = CursorIn(list')

-----------------------------------------------------------------------------
(* The daemon and the requests to it.                                      *)

\* Somebody else ingests, classifies, renames or deletes a wallpaper, or switches
\* the mode.
Elsewhere ==
  /\ \/ /\ \E h \in Hash : \E item \in (Item \union {None}) \ {tracked[h]} :
             tracked' = [tracked EXCEPT ![h] = item]
        /\ UNCHANGED mode
     \/ /\ mode' \in Mode \ {mode}
        /\ UNCHANGED tracked
  /\ stale' = TRUE
  /\ UNCHANGED <<copy, lines, selected, filter, layer, at, pending, asked>>

Without(S) == [h \in Hash |-> IF h \in S THEN None ELSE tracked[h]]

Edited(h, field, value) ==
  IF tracked[h] = None THEN tracked ELSE [tracked EXCEPT ![h][field] = value]

\* What the daemon does on the command c, unless it answers with an error and does
\* nothing.  CLASSIFY, RENAME, APPLY, CYCLE and TOGGLE forget wallpapers whose
\* files are gone.  SCAN takes in every download: a content that is tracked already
\* gets the new name and the visibility downloads have, and if the download was on
\* the screen, the APPLY or CYCLE that follows forgets wallpapers too.  What is put
\* on the screen, and by whom, is in module Engine.
Execute(c) ==
  \/ /\ c.op = "delete"
     /\ tracked' = Without({c.hash})
     /\ UNCHANGED mode
  \/ /\ c.op = "classify"
     /\ tracked' \in {Edited(c.hash, "vis", c.arg), Without({c.hash})}
     /\ UNCHANGED mode
  \/ /\ c.op = "rename"
     /\ tracked' \in {Edited(c.hash, "name", c.arg), Without({c.hash})}
     /\ UNCHANGED mode
  \/ /\ c.op \in {"apply", "cycle"}
     /\ \E S \in SUBSET (IF c.op = "apply" THEN {c.hash} ELSE Hash) : tracked' = Without(S)
     /\ UNCHANGED mode
  \/ /\ c.op = "scan"
     /\ tracked' \in [Hash -> Item \union {None}]
     /\ UNCHANGED mode
  \/ /\ c.op = "toggle"
     /\ mode' \in Mode \ {mode}
     /\ \E S \in SUBSET Hash : tracked' = Without(S)

\* Mutant of AfterCommand: a toggle is not followed by a dump.
AfterCommandNoSync(c) == IF c.op = "toggle" THEN "keys" ELSE "dump"

\* executeCommand ends with syncState, and so does a batch.
AfterCommand(c) == "dump"

\* The next command of the event is sent, and answered or given up.  After the
\* last one of a batch the selection is cleared, whatever the daemon answered; a
\* DELETE or CLASSIFY of the highlighted wallpaper finds it empty.
Send ==
  /\ at = "commands"
  /\ \E c \in pending :
       /\ Execute(c) \/ UNCHANGED daemon
       /\ pending' = pending \ {c}
       /\ IF pending' # {}
          THEN UNCHANGED <<at, selected, asked>>
          ELSE /\ at' = AfterCommand(c)
               /\ selected' = IF c.op \in {"delete", "classify"} THEN {} ELSE selected
               /\ asked' = {}
  /\ UNCHANGED <<copy, lines, filter, layer, stale>>

\* syncState with the answer of DUMP.
Dumped ==
  /\ at = "dump"
  /\ view' = tracked /\ viewMode' = mode
  /\ ApplyFilterAndSort(tracked)
  /\ at' = "keys"
  /\ stale' = FALSE
  /\ UNCHANGED <<daemon, selected, filter, layer, pending, asked>>

\* syncState without an answer: the copy stays.
DumpFails ==
  /\ at = "dump"
  /\ at' = "keys"
  /\ stale' = TRUE
  /\ UNCHANGED <<daemon, copy, lines, selected, filter, layer, pending, asked>>

-----------------------------------------------------------------------------
(* Keys and events.                                                        *)

\* Mutant of Refresh: it is handled under a dialog.
RefreshAnywhere ==
  /\ at = "keys"
  /\ at' = "dump"
  /\ UNCHANGED <<daemon, copy, lines, selected, filter, layer, pending, stale, asked>>

\* Event::Custom from the refresh thread.  While a dialog is open it is dropped.
Refresh ==
  /\ at = "keys" /\ layer \in Main
  /\ at' = "dump"
  /\ UNCHANGED <<daemon, copy, lines, selected, filter, layer, pending, stale, asked>>

\* The mouse, [/] and Escape move the focus between the list and the search field.
Focus ==
  /\ at = "keys" /\ layer \in Main
  /\ layer' \in Main \ {layer}
  /\ UNCHANGED <<daemon, copy, lines, selected, filter, at, pending, stale, asked>>

Navigate ==
  /\ at = "keys" /\ layer = "menu"
  /\ cursor' \in DOMAIN list \ {cursor}
  /\ UNCHANGED <<daemon, copy, list, selected, filter, layer, at, pending, stale, asked>>

\* A key in the search field: the list is rebuilt before the field takes the key,
\* with the text as it was.
Type(f) ==
  /\ at = "keys" /\ layer = "filter"
  /\ ApplyFilterAndSort(view)
  /\ filter' = f
  /\ UNCHANGED <<daemon, copy, selected, layer, at, pending, stale, asked>>

\* [S] takes the next sort mode.
CycleSortMode ==
  /\ at = "keys" /\ layer = "menu"
  /\ ApplyFilterAndSort(view)
  /\ UNCHANGED <<daemon, copy, selected, filter, layer, at, pending, stale, asked>>

\* [Space] on the highlighted wallpaper, and [*] on all that are visible.
Select ==
  /\ at = "keys" /\ layer = "menu" /\ list # << >>
  /\ \/ selected' = IF Highlighted \in selected THEN selected \ {Highlighted}
                                               ELSE selected \union {Highlighted}
     \/ selected' = IF Visible \subseteq selected THEN selected \ Visible
                                                 ELSE selected \union Visible
  /\ UNCHANGED <<daemon, copy, lines, filter, layer, at, pending, stale, asked>>

\* What the dialog about to open is about: the title counts the selection, or
\* speaks of the one wallpaper that is highlighted.
Subject == IF selected # {} THEN selected ELSE {Highlighted}

\* [r], [v], [d], [t] and [?] open a dialog; [r] is refused while wallpapers are
\* selected.
OpenDialog(d) ==
  /\ at = "keys" /\ layer = "menu"
  /\ d \in {"rename", "classify", "delete"} => list # << >>
  /\ d = "rename" => selected = {}
  /\ layer' = d
  /\ asked' = IF d \in {"rename", "classify", "delete"} THEN Subject ELSE {}
  /\ UNCHANGED <<daemon, copy, lines, selected, filter, at, pending, stale>>

Cancel ==
  /\ at = "keys" /\ layer \in Dialog
  /\ layer' = "menu"
  /\ asked' = {}
  /\ UNCHANGED <<daemon, copy, lines, selected, filter, at, pending, stale>>

\* The event sends the commands in C before the next one is handled.
Sending(C) == at' = "commands" /\ pending' = C

\* [c], [s], and [a]: applying is blocked on the mode and visibility of the copy.
Request ==
  /\ at = "keys" /\ layer = "menu"
  /\ \/ \E op \in {"cycle", "scan"} : Sending({Cmd(op, None, None)})
     \/ /\ list # << >>
        /\ viewMode = "safe" => view[Highlighted].vis = "safe"
        /\ viewMode = "unsafe" => view[Highlighted].vis # "unclassified"
        /\ Sending({Cmd("apply", Highlighted, None)})
  /\ UNCHANGED <<daemon, copy, lines, selected, filter, layer, stale, asked>>

\* What DELETE and CLASSIFY are sent for: the selection, or the wallpaper that is
\* highlighted when the button is pressed.
Targets == IF selected # {} THEN selected ELSE IF list # << >> THEN {Highlighted} ELSE {}

\* The button of a dialog is pressed, with any choice or name the user left in it.
Confirm ==
  /\ at = "keys"
  /\ \/ layer = "toggle" /\ Sending({Cmd("toggle", None, None)})
     \/ /\ layer = "delete" /\ Targets # {}
        /\ Sending({Cmd("delete", h, None) : h \in Targets})
     \/ /\ layer = "classify" /\ Targets # {}
        /\ \E v \in Visibility : Sending({Cmd("classify", h, v) : h \in Targets})
     \/ /\ layer = "rename" /\ list # << >>
        /\ \E n \in Names : Sending({Cmd("rename", Highlighted, n)})
  /\ layer' = "menu"
  /\ UNCHANGED <<daemon, copy, lines, selected, filter, stale, asked>>

Key ==
  \/ Focus \/ Navigate \/ CycleSortMode \/ Select \/ Cancel \/ Request \/ Confirm
  \/ \E f \in Filters : Type(f)
  \/ \E d \in Dialog : OpenDialog(d)

Next == Elsewhere \/ Send \/ Dumped \/ DumpFails \/ Refresh \/ Key

Spec == Init /\ [][Next]_vars

-----------------------------------------------------------------------------
(* Properties.                                                             *)

\* The copy, the list and the requests have their types, and selectedIndex is in
\* range whenever a key is handled: HandleWallpaperActionKeys indexes with it
\* unchecked.
TypeOK ==
  /\ tracked \in [Hash -> Item \union {None}] /\ view \in [Hash -> Item \union {None}]
  /\ mode \in Mode /\ viewMode \in Mode
  /\ list \in Seq(Hash) /\ cursor \in Nat
  /\ list # << >> => cursor \in DOMAIN list
  /\ selected \subseteq Hash /\ asked \subseteq Hash
  /\ filter \in Filters
  /\ layer \in Main \union Dialog
  /\ at \in {"keys", "commands", "dump"}
  /\ pending \subseteq Command

\* What the user is looking at when a key is handled is what the daemon has, unless
\* somebody else changed it or a DUMP failed since: no command of the program
\* itself, single or batch, answered or failed halfway, leaves its copy behind.
ViewCurrent == at = "keys" /\ ~stale => view = tracked /\ viewMode = mode

\* A command that was sent with no dialog: APPLY may forget its own wallpaper, CYCLE
\* and TOGGLE any, and only SCAN gives a tracked wallpaper another entry.
MayChange(c, h) ==
  \/ c.op = "scan"
  \/ /\ c.op \in {"cycle", "toggle"} \/ (c.op = "apply" /\ c.hash = h)
     /\ tracked'[h] = None

\* The wallpapers that commands delete, classify or rename are the ones the dialog
\* was opened for, however long it was open and whatever happened to the daemon
\* meanwhile.
ChangesAsked ==
  \A h \in Hash : tracked[h] # None /\ tracked'[h] # tracked[h]
    => h \in asked \/ \E c \in pending : MayChange(c, h)

ActsOnAsked == [][~Elsewhere => ChangesAsked]_vars

\* A dump, a filter or a sort never moves the cursor to another wallpaper while
\* the one it is on is still in the list: the next key acts on what was
\* highlighted.
CursorKept ==
  list # << >> /\ list' # list /\ Highlighted \in {list'[i] : i \in DOMAIN list'}
    => Highlighted' = Highlighted

CursorFollows == [][CursorKept]_vars

\* In safe mode a wallpaper that is not Safe is only ever asked for by a program
\* whose copy is behind: because of somebody else, never because of itself.
AppliesInMode ==
  \A c \in pending :
    c.op = "apply" /\ mode = "safe" /\ tracked[c.hash] # None
      /\ tracked[c.hash].vis # "safe" => stale
=============================================================================
