------------------------------ MODULE TuiProofs ------------------------------
(***************************************************************************)
(* What the terminal interface keeps for every set of wallpapers, names    *)
(* and filters: the cursor stays within the list and on its wallpaper, the *)
(* copy is behind only because of others, a dialog changes what it was     *)
(* opened for, and APPLY is asked for within the mode the copy shows.      *)
(***************************************************************************)
EXTENDS Tui, FiniteSetTheorems, TLAPS

\* Commands that are about a wallpaper, and come from a dialog.
Editing == {"delete", "classify", "rename"}

\* The arguments a command is sent with.
WellFormed(c) ==
  /\ c.op \in Editing \union {"apply"} => c.hash \in Hash
  /\ c.op = "classify" => c.arg \in Visibility
  /\ c.op = "rename" => c.arg \in Names

\* Commands are only under way between two events; one that no dialog asked for is
\* sent by itself, and the others are about what their dialog asked.
Sent ==
  /\ pending # {} => at = "commands"
  /\ \A c \in pending :
       /\ WellFormed(c)
       /\ c.op \notin Editing => pending = {c}
       /\ c.op \in Editing => c.hash \in asked

\* While a dialog is open nothing is sent or refreshed, and one about wallpapers is
\* about its subject, the one Confirm would take.
Asking ==
  /\ layer \in Dialog => at = "keys"
  /\ layer \in Editing => list # << >> /\ asked = Subject
  /\ layer = "rename" => selected = {}

IInv == TypeOK /\ cursor # 0 /\ Sent /\ Asking

-----------------------------------------------------------------------------
(* The list and its cursor.                                                *)

LEMMA OrdersAreLists ==
  ASSUME NEW S \in SUBSET Hash, NEW new \in Orders(S)
  PROVE  new \in Seq(Hash) /\ Len(new) \in Nat /\ DOMAIN new = 1..Len(new)
<1>1. Cardinality(S) \in Nat
  BY FiniteAssumption, FS_Subset, FS_CardinalityType
<1>2. new \in [1..Cardinality(S) -> Hash]
  BY DEF Orders
<1>3. new \in Seq(Hash)
  BY <1>1, <1>2
<1> QED BY <1>3

\* Wherever CursorIn leaves the cursor, it is in the list.
LEMMA CursorInRange ==
  ASSUME NEW new \in Seq(Hash), cursor \in Nat \ {0}
  PROVE  /\ CursorIn(new) \in Nat \ {0}
         /\ new # << >> => CursorIn(new) \in DOMAIN new
<1>1. CASE list # << >> /\ \E i \in DOMAIN new : new[i] = Highlighted
  <2>1. CursorIn(new) \in DOMAIN new
    BY <1>1 DEF CursorIn
  <2> QED BY <2>1
<1>2. CASE ~(list # << >> /\ \E i \in DOMAIN new : new[i] = Highlighted)
  <2>1. CursorIn(new) = IF cursor > Len(new) THEN (IF new = << >> THEN 1 ELSE Len(new)) ELSE cursor
    BY <1>2 DEF CursorIn
  <2>2. Len(new) \in Nat /\ DOMAIN new = 1..Len(new) /\ (new # << >> => Len(new) # 0)
    OBVIOUS
  <2> QED BY <2>1, <2>2
<1> QED BY <1>1, <1>2

\* A dump, a filter or a sort leaves a list of wallpapers with the cursor in it.
LEMMA ListRebuilt ==
  ASSUME IInv, NEW items, ApplyFilterAndSort(items)
  PROVE  /\ list' \in Seq(Hash) /\ cursor' \in Nat \ {0}
         /\ list' # << >> => cursor' \in DOMAIN list'
<1>1. Matching(items, filter) \in SUBSET Hash
  BY DEF Matching
<1>2. list' \in Seq(Hash)
  BY <1>1, OrdersAreLists DEF ApplyFilterAndSort
<1>3. cursor' = CursorIn(list') /\ cursor \in Nat \ {0}
  BY DEF ApplyFilterAndSort, IInv, TypeOK
<1> QED BY <1>2, <1>3, CursorInRange

LEMMA HighlightedInList ==
  ASSUME TypeOK, list # << >>
  PROVE  Highlighted \in Hash
  BY DEF TypeOK, Highlighted

-----------------------------------------------------------------------------
(* Commands.                                                               *)

\* Whatever the daemon does on a command, it has wallpapers and a mode afterwards.
LEMMA EditedType ==
  ASSUME TypeOK, NEW h \in Hash
  PROVE  /\ \A v \in Visibility : Edited(h, "vis", v) \in [Hash -> Item \union {None}]
         /\ \A n \in Names : Edited(h, "name", n) \in [Hash -> Item \union {None}]
<1>1. tracked[h] # None => tracked[h] \in Item
  BY DEF TypeOK
<1>2. ASSUME NEW v \in Visibility
      PROVE  Edited(h, "vis", v) \in [Hash -> Item \union {None}]
  BY <1>1 DEF Edited, TypeOK, Item
<1>3. ASSUME NEW n \in Names
      PROVE  Edited(h, "name", n) \in [Hash -> Item \union {None}]
  BY <1>1 DEF Edited, TypeOK, Item
<1> QED BY <1>2, <1>3

LEMMA ExecuteType ==
  ASSUME TypeOK, NEW c \in Command, WellFormed(c), Execute(c)
  PROVE  tracked' \in [Hash -> Item \union {None}] /\ mode' \in Mode
<1>1. \A S : Without(S) \in [Hash -> Item \union {None}]
  BY DEF Without, TypeOK
<1>2. c.op = "classify" => Edited(c.hash, "vis", c.arg) \in [Hash -> Item \union {None}]
  BY EditedType DEF WellFormed, Editing
<1>3. c.op = "rename" => Edited(c.hash, "name", c.arg) \in [Hash -> Item \union {None}]
  BY EditedType DEF WellFormed, Editing
<1> QED BY <1>1, <1>2, <1>3 DEF Execute, TypeOK

\* The commands an event sends are typed and say what they are about.
LEMMA CmdFields ==
  ASSUME NEW op, NEW h, NEW arg
  PROVE  Cmd(op, h, arg).op = op /\ Cmd(op, h, arg).hash = h /\ Cmd(op, h, arg).arg = arg
  BY DEF Cmd

LEMMA CmdType ==
  /\ \A op \in {"toggle", "cycle", "scan"} : Cmd(op, None, None) \in Command
  /\ \A h \in Hash : /\ \A op \in {"apply", "delete"} : Cmd(op, h, None) \in Command
                     /\ \A v \in Visibility : Cmd("classify", h, v) \in Command
                     /\ \A n \in Names : Cmd("rename", h, n) \in Command
  BY DEF Cmd, Command

-----------------------------------------------------------------------------
(* The inductive invariant.                                                *)

LEMMA ElsewhereKeeps == IInv /\ Elsewhere => IInv'
<1> SUFFICES ASSUME IInv, Elsewhere
             PROVE  IInv'
  OBVIOUS
<1>1. tracked' \in [Hash -> Item \union {None}] /\ mode' \in Mode
  BY DEF Elsewhere, IInv, TypeOK
<1>2. UNCHANGED <<copy, lines, selected, filter, layer, at, pending, asked>>
  BY DEF Elsewhere
<1> QED
  BY <1>1, <1>2 DEF IInv, TypeOK, Sent, WellFormed, Asking, Subject, Highlighted, copy, lines

LEMMA SendKeeps == IInv /\ Send => IInv'
<1> SUFFICES ASSUME IInv, Send
             PROVE  IInv'
  OBVIOUS
<1>1. PICK c \in pending :
        /\ Execute(c) \/ UNCHANGED daemon
        /\ pending' = pending \ {c}
        /\ IF pending' # {}
           THEN UNCHANGED <<at, selected, asked>>
           ELSE /\ at' = "dump"
                /\ selected' = IF c.op \in {"delete", "classify"} THEN {} ELSE selected
                /\ asked' = {}
  BY DEF Send, AfterCommand
<1>2. at = "commands" /\ UNCHANGED <<copy, lines, filter, layer, stale>>
  BY DEF Send
<1>3. tracked' \in [Hash -> Item \union {None}] /\ mode' \in Mode
  BY <1>1, ExecuteType DEF IInv, TypeOK, Sent, daemon
<1>4. TypeOK' /\ cursor' # 0
  BY <1>1, <1>2, <1>3 DEF IInv, TypeOK, copy, lines
<1>5. Sent'
  BY <1>1, <1>2 DEF IInv, Sent, WellFormed
<1>6. Asking'
  BY <1>2 DEF IInv, Asking, Dialog, Editing
<1> QED BY <1>4, <1>5, <1>6 DEF IInv

LEMMA DumpKeeps == IInv /\ (Dumped \/ DumpFails \/ Refresh) => IInv'
<1> SUFFICES ASSUME IInv, Dumped \/ DumpFails \/ Refresh
             PROVE  IInv'
  OBVIOUS
<1>1. CASE Dumped
  <2>1. /\ list' \in Seq(Hash) /\ cursor' \in Nat \ {0}
        /\ list' # << >> => cursor' \in DOMAIN list'
    BY <1>1, ListRebuilt DEF Dumped
  <2>2. TypeOK' /\ cursor' # 0
    BY <1>1, <2>1 DEF Dumped, daemon, IInv, TypeOK
  <2>3. Sent' /\ Asking'
    BY <1>1 DEF Dumped, IInv, Sent, Asking, Dialog, Editing
  <2> QED BY <2>2, <2>3 DEF IInv
<1>2. CASE DumpFails \/ Refresh
  BY <1>2 DEF DumpFails, Refresh, daemon, copy, lines, IInv, TypeOK, Sent, WellFormed, Asking,
              Subject, Highlighted, Main, Dialog, Editing
<1> QED BY <1>1, <1>2

\* A key in the list or the search field that rebuilds the list or moves in it.
LEMMA BrowsingKeeps ==
  IInv /\ (Focus \/ Navigate \/ CycleSortMode \/ Select \/ \E f \in Filters : Type(f)) => IInv'
<1> SUFFICES ASSUME IInv, Focus \/ Navigate \/ CycleSortMode \/ Select \/ \E f \in Filters : Type(f)
             PROVE  IInv'
  OBVIOUS
<1>1. /\ at = "keys" /\ layer \in Main /\ layer' \in Main
      /\ UNCHANGED <<daemon, copy, at, pending, asked>>
  BY DEF Focus, Navigate, CycleSortMode, Select, Type, Main
<1>2. filter' \in Filters
  BY DEF Focus, Navigate, CycleSortMode, Select, Type, IInv, TypeOK
<1>3. /\ list' \in Seq(Hash) /\ cursor' \in Nat \ {0}
      /\ list' # << >> => cursor' \in DOMAIN list'
  <2>1. CASE Focus \/ Select
    BY <2>1 DEF Focus, Select, lines, IInv, TypeOK
  <2>2. CASE Navigate
    BY <2>2 DEF Navigate, IInv, TypeOK
  <2>3. CASE CycleSortMode \/ \E f \in Filters : Type(f)
    BY <2>3, ListRebuilt DEF CycleSortMode, Type
  <2> QED BY <2>1, <2>2, <2>3
<1>4. selected' \subseteq Hash
  <2>1. CASE Select
    BY <2>1, HighlightedInList DEF Select, Visible, IInv, TypeOK
  <2>2. CASE UNCHANGED selected
    BY <2>2 DEF IInv, TypeOK
  <2> QED BY <2>1, <2>2 DEF Focus, Navigate, CycleSortMode, Type
<1>5. TypeOK' /\ cursor' # 0
  BY <1>1, <1>2, <1>3, <1>4 DEF daemon, copy, IInv, TypeOK
<1>6. Sent' /\ Asking'
  BY <1>1 DEF IInv, Sent, WellFormed, Asking, Main, Dialog, Editing
<1> QED BY <1>5, <1>6 DEF IInv

LEMMA DialogKeeps == IInv /\ (Cancel \/ \E d \in Dialog : OpenDialog(d)) => IInv'
<1> SUFFICES ASSUME IInv, Cancel \/ \E d \in Dialog : OpenDialog(d)
             PROVE  IInv'
  OBVIOUS
<1>1. /\ at = "keys" /\ UNCHANGED <<daemon, copy, lines, selected, filter, at, pending>>
      /\ layer' \in Dialog \union {"menu"}
  BY DEF Cancel, OpenDialog
<1>2. pending = {}
  BY <1>1 DEF IInv, Sent
<1>3. asked' \subseteq Hash
  BY HighlightedInList DEF Cancel, OpenDialog, Subject, IInv, TypeOK
<1>4. TypeOK' /\ cursor' # 0
  BY <1>1, <1>3 DEF daemon, copy, lines, Main, Dialog, IInv, TypeOK
<1>5. Asking'
  BY <1>1 DEF Cancel, OpenDialog, Asking, Subject, Highlighted, Dialog, Editing, lines
<1> QED BY <1>1, <1>2, <1>4, <1>5 DEF IInv, Sent

\* What Confirm takes is the subject the dialog was opened for.
LEMMA TargetsAsked ==
  ASSUME IInv, layer \in Editing
  PROVE  /\ list # << >> /\ Highlighted \in Hash /\ asked = Subject
         /\ Targets = asked /\ Targets \subseteq Hash
         /\ layer = "rename" => Highlighted \in asked
<1>1. list # << >> /\ asked = Subject /\ Highlighted \in Hash
  BY HighlightedInList DEF IInv, Asking
<1> QED BY <1>1 DEF Subject, Targets, IInv, TypeOK, Asking

LEMMA ConfirmSends ==
  ASSUME IInv, Confirm
  PROVE  /\ pending' \subseteq Command
         /\ \A c \in pending' :
              /\ WellFormed(c)
              /\ c.op \notin Editing => pending' = {c}
              /\ c.op \in Editing => c.hash \in asked
         /\ at' = "commands"
<1>1. CASE layer = "toggle" /\ Sending({Cmd("toggle", None, None)})
  BY <1>1, CmdType, CmdFields DEF Sending, WellFormed, Editing
<1>2. CASE layer = "delete" /\ Sending({Cmd("delete", h, None) : h \in Targets})
  BY <1>2, CmdType, CmdFields, TargetsAsked DEF Sending, WellFormed, Editing
<1>3. ASSUME NEW v \in Visibility, layer = "classify",
             Sending({Cmd("classify", h, v) : h \in Targets})
      PROVE  /\ pending' \subseteq Command
             /\ \A c \in pending' : WellFormed(c) /\ c.op \in Editing /\ c.hash \in asked
             /\ at' = "commands"
  BY <1>3, CmdType, CmdFields, TargetsAsked DEF Sending, WellFormed, Editing
<1>4. ASSUME NEW n \in Names, layer = "rename", Sending({Cmd("rename", Highlighted, n)})
      PROVE  /\ pending' \subseteq Command
             /\ \A c \in pending' : WellFormed(c) /\ c.op \in Editing /\ c.hash \in asked
             /\ at' = "commands"
  BY <1>4, CmdType, CmdFields, TargetsAsked DEF Sending, WellFormed, Editing
<1> QED BY <1>1, <1>2, <1>3, <1>4 DEF Confirm

LEMMA RequestSends ==
  ASSUME IInv, Request
  PROVE  /\ pending' \subseteq Command /\ at' = "commands"
         /\ \A c \in pending' : WellFormed(c) /\ c.op \notin Editing /\ pending' = {c}
<1>1. ASSUME NEW op \in {"cycle", "scan"}, Sending({Cmd(op, None, None)})
      PROVE  /\ pending' \subseteq Command /\ at' = "commands"
             /\ \A c \in pending' : WellFormed(c) /\ c.op \notin Editing /\ pending' = {c}
  BY <1>1, CmdType, CmdFields DEF Sending, WellFormed, Editing
<1>2. CASE list # << >> /\ Sending({Cmd("apply", Highlighted, None)})
  <2>1. Highlighted \in Hash
    BY <1>2, HighlightedInList DEF IInv
  <2> QED BY <1>2, <2>1, CmdType, CmdFields DEF Sending, WellFormed, Editing
<1> QED BY <1>1, <1>2 DEF Request

LEMMA SendingKeeps == IInv /\ (Request \/ Confirm) => IInv'
<1> SUFFICES ASSUME IInv, Request \/ Confirm
             PROVE  IInv'
  OBVIOUS
<1>1. /\ UNCHANGED <<daemon, copy, lines, selected, filter, stale, asked>>
      /\ layer' = "menu"
  BY DEF Request, Confirm
<1>2. pending' \subseteq Command /\ at' = "commands" /\ Sent'
  <2>1. CASE Request
    BY <1>1, <2>1, RequestSends DEF Sent, WellFormed
  <2>2. CASE Confirm
    BY <1>1, <2>2, ConfirmSends DEF Sent, WellFormed
  <2> QED BY <2>1, <2>2
<1>3. TypeOK' /\ cursor' # 0
  BY <1>1, <1>2 DEF daemon, copy, lines, Main, Dialog, IInv, TypeOK
<1>4. Asking'
  BY <1>1 DEF Asking, Dialog, Editing
<1> QED BY <1>2, <1>3, <1>4 DEF IInv

LEMMA InitIInv == Init => IInv
<1> SUFFICES ASSUME Init
             PROVE  IInv
  OBVIOUS
<1>1. TypeOK /\ cursor # 0
  <2>1. << >> \in Seq(Hash)
    OBVIOUS
  <2>2. list \in Seq(Hash) /\ list = << >> /\ cursor = 1
    BY <2>1, Zenon DEF Init
  <2>3. selected \subseteq Hash /\ asked \subseteq Hash /\ pending \subseteq Command
    BY DEF Init
  <2>4. tracked \in [Hash -> Item \union {None}] /\ mode \in Mode
    BY Zenon DEF Init
  <2>5. view \in [Hash -> Item \union {None}] /\ viewMode \in Mode /\ filter \in Filters
    BY InputAssumption DEF Init, Mode
  <2>6. layer \in Main \union Dialog /\ at \in {"keys", "commands", "dump"}
    BY DEF Init, Main
  <2> QED BY <2>2, <2>3, <2>4, <2>5, <2>6 DEF TypeOK
<1>2. Sent /\ Asking
  BY DEF Init, Sent, Asking, Dialog, Editing
<1> QED BY <1>1, <1>2 DEF IInv

LEMMA NextKeeps == IInv /\ [Next]_vars => IInv'
<1>1. IInv /\ UNCHANGED vars => IInv'
  BY DEF vars, IInv, TypeOK, Sent, WellFormed, Asking, Subject, Highlighted
<1> QED
  BY <1>1, ElsewhereKeeps, SendKeeps, DumpKeeps, BrowsingKeeps, DialogKeeps, SendingKeeps
     DEF Next, Key

LEMMA IInvariant == Spec => []IInv
  BY InitIInv, NextKeeps, PTL DEF Spec

\* The copy, the list and the commands under way have their types, and whenever a
\* key is handled the cursor is an entry of the list, for any number of wallpapers.
THEOREM CursorInList == Spec => []TypeOK
<1>1. IInv => TypeOK
  BY DEF IInv
<1> QED BY <1>1, IInvariant, PTL

-----------------------------------------------------------------------------
(* What the user sees and what is done.                                    *)

\* The keys that change neither the daemon nor the copy of it.
LEMMA KeyLeaves == Key => UNCHANGED <<daemon, copy, stale>> /\ at = "keys"
  BY DEF Key, Focus, Navigate, CycleSortMode, Select, Cancel, Request, Confirm, Type, OpenDialog

LEMMA ViewCurrentStep == ViewCurrent /\ [Next]_vars => ViewCurrent'
<1> SUFFICES ASSUME ViewCurrent, [Next]_vars
             PROVE  ViewCurrent'
  OBVIOUS
<1>1. CASE Key \/ Refresh
  <2>1. UNCHANGED <<daemon, copy, stale>> /\ at = "keys"
    BY <1>1, KeyLeaves DEF Refresh
  <2> QED BY <2>1 DEF ViewCurrent, daemon, copy
<1>2. CASE Elsewhere \/ DumpFails
  BY <1>2 DEF Elsewhere, DumpFails, ViewCurrent
<1>3. CASE Send
  BY <1>3 DEF Send, AfterCommand, ViewCurrent
<1>4. CASE Dumped
  BY <1>4 DEF Dumped, ViewCurrent, daemon
<1>5. CASE UNCHANGED vars
  BY <1>5 DEF vars, ViewCurrent
<1> QED BY <1>1, <1>2, <1>3, <1>4, <1>5 DEF Next

\* Whenever a key is handled the copy is what the daemon has, unless others changed
\* it or a DUMP failed since.
THEOREM ViewIsCurrent == Spec => []ViewCurrent
<1>1. Init => ViewCurrent
  BY DEF Init, ViewCurrent
<1> QED BY <1>1, ViewCurrentStep, PTL DEF Spec

LEMMA AppliesInModeStep == IInv /\ ViewCurrent /\ AppliesInMode /\ [Next]_vars => AppliesInMode'
<1> SUFFICES ASSUME IInv, ViewCurrent, AppliesInMode, [Next]_vars,
                    NEW c \in pending', c.op = "apply", mode' = "safe",
                    tracked'[c.hash] # None, tracked'[c.hash].vis # "safe"
             PROVE  stale'
  BY DEF AppliesInMode
<1>1. CASE Elsewhere \/ DumpFails
  BY <1>1 DEF Elsewhere, DumpFails
<1>2. CASE Send
  <2>1. c \in pending /\ \E b \in pending : pending' = pending \ {b}
    BY <1>2 DEF Send
  <2> QED BY <2>1 DEF IInv, Sent, Editing
<1>3. CASE Request
  <2>1. \/ \E op \in {"cycle", "scan"} : pending' = {Cmd(op, None, None)}
        \/ /\ pending' = {Cmd("apply", Highlighted, None)}
           /\ viewMode = "safe" => view[Highlighted].vis = "safe"
    BY <1>3 DEF Request, Sending
  <2>2. c.hash = Highlighted /\ (viewMode = "safe" => view[Highlighted].vis = "safe")
    BY <2>1, CmdFields
  <2>3. at = "keys" /\ UNCHANGED <<daemon, stale>>
    BY <1>3 DEF Request
  <2> QED BY <2>2, <2>3 DEF ViewCurrent, daemon
<1>4. CASE Confirm
  <2>1. c.op \in Editing \union {"toggle"}
    BY <1>4, CmdFields DEF Confirm, Sending, Editing
  <2> QED BY <2>1 DEF Editing
<1>5. CASE \/ Dumped \/ Refresh \/ Focus \/ Navigate \/ CycleSortMode \/ Select \/ Cancel
           \/ (\E f \in Filters : Type(f)) \/ (\E d \in Dialog : OpenDialog(d))
           \/ UNCHANGED vars
  <2>1. pending' = pending /\ UNCHANGED daemon /\ (UNCHANGED stale \/ at = "dump")
    BY <1>5 DEF Dumped, Refresh, Focus, Navigate, CycleSortMode, Select, Cancel, Type, OpenDialog,
                vars, daemon
  <2>2. at = "commands"
    BY <2>1 DEF IInv, Sent
  <2> QED BY <2>1, <2>2 DEF AppliesInMode, daemon
<1> QED BY <1>1, <1>2, <1>3, <1>4, <1>5 DEF Next, Key

\* In safe mode the interface asks for a wallpaper that is not Safe only when
\* others have changed what it last read.
THEOREM AppliesWithinMode == Spec => []AppliesInMode
<1>1. Init => AppliesInMode
  BY DEF Init, AppliesInMode
<1> QED BY <1>1, AppliesInModeStep, IInvariant, ViewIsCurrent, PTL DEF Spec

LEMMA ActsOnAskedStep == IInv /\ [Next]_vars => [~Elsewhere => ChangesAsked]_vars
<1> SUFFICES ASSUME IInv, Next, ~Elsewhere, NEW h \in Hash,
                    tracked[h] # None, tracked'[h] # tracked[h]
             PROVE  h \in asked \/ \E c \in pending : MayChange(c, h)
  BY DEF ChangesAsked
<1>1. Send
  <2>1. ~Key
    BY KeyLeaves DEF daemon
  <2>2. ~(Dumped \/ DumpFails \/ Refresh)
    BY DEF Dumped, DumpFails, Refresh, daemon
  <2> QED BY <2>1, <2>2 DEF Next
<1>2. PICK c \in pending : Execute(c)
  BY <1>1 DEF Send, daemon
<1>3. WellFormed(c) /\ (c.op \in Editing => c.hash \in asked)
  BY <1>2 DEF IInv, Sent
<1>4. CASE c.op = "delete"
  <2>1. tracked' = Without({c.hash})
    BY <1>2, <1>4 DEF Execute
  <2> QED BY <1>3, <1>4, <2>1 DEF Without, Editing
<1>5. CASE c.op \in {"classify", "rename"}
  <2>1. \/ tracked' = Without({c.hash})
        \/ tracked' = Edited(c.hash, "vis", c.arg)
        \/ tracked' = Edited(c.hash, "name", c.arg)
    BY <1>2, <1>5 DEF Execute
  <2>2. h # c.hash => tracked'[h] = tracked[h]
    BY <2>1 DEF Without, Edited, IInv, TypeOK
  <2> QED BY <1>3, <1>5, <2>2 DEF Editing
<1>6. CASE c.op = "apply"
  <2>1. PICK S \in SUBSET {c.hash} : tracked' = Without(S)
    BY <1>2, <1>6 DEF Execute
  <2>2. h \in S /\ tracked'[h] = None
    BY <2>1 DEF Without
  <2> QED BY <1>2, <1>6, <2>1, <2>2 DEF MayChange
<1>7. CASE c.op \in {"cycle", "toggle"}
  <2>1. PICK S \in SUBSET Hash : tracked' = Without(S)
    BY <1>2, <1>7 DEF Execute
  <2>2. tracked'[h] = None
    BY <2>1 DEF Without
  <2> QED BY <1>2, <1>7, <2>2 DEF MayChange
<1>8. CASE c.op = "scan"
  BY <1>2, <1>8 DEF MayChange
<1>9. c.op \in Editing \union {"apply", "cycle", "scan", "toggle"}
  BY <1>2 DEF Execute, Editing
<1> QED BY <1>2, <1>4, <1>5, <1>6, <1>7, <1>8, <1>9 DEF Editing

\* What commands delete, classify or rename is what the dialog was opened for, for
\* a selection of any size and whatever others do while the dialog is open; with no
\* dialog, APPLY, CYCLE and TOGGLE only forget and SCAN alone gives a new entry.
THEOREM DialogsMeanWhatTheySay == Spec => ActsOnAsked
BY ActsOnAskedStep, IInvariant, PTL DEF Spec, ActsOnAsked

LEMMA CursorFollowsStep == [Next]_vars => [CursorKept]_vars
<1> SUFFICES ASSUME Next, list # << >>, list' # list,
                    \E i \in DOMAIN list' : list'[i] = Highlighted
             PROVE  Highlighted' = Highlighted
  BY DEF CursorKept
<1>1. \E items : ApplyFilterAndSort(items)
  BY DEF Next, Key, Elsewhere, Send, Dumped, DumpFails, Refresh, Focus, Navigate, CycleSortMode,
         Select, Cancel, Request, Confirm, Type, OpenDialog, lines
<1>2. cursor' = CursorIn(list')
  BY <1>1 DEF ApplyFilterAndSort
<1>3. cursor' = CHOOSE i \in DOMAIN list' : list'[i] = Highlighted
  BY <1>2 DEF CursorIn
<1>4. list'[cursor'] = Highlighted
  BY <1>3
<1> QED BY <1>4 DEF Highlighted

\* The cursor stays on its wallpaper as long as that is in the list, through every
\* dump, filter and sort.
THEOREM CursorStaysOn == Spec => CursorFollows
BY CursorFollowsStep, PTL DEF Spec, CursorFollows
=============================================================================
