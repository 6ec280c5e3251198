----------------------------- MODULE Navigation -----------------------------
(***************************************************************************)
(* The dropdowns of static/js/navigation-2.js, on any document: toggles    *)
(* may share a parent item, and may control the same dropdown.             *)
(***************************************************************************)
CONSTANTS Toggle, Item, Dropdown

VARIABLES
  parentNode,   \* the item each toggle is in: the document never changes
  controls,     \* the dropdown its aria-controls names
  active,       \* items with the class is-active
  visible       \* dropdowns whose aria-hidden is not true

document == <<parentNode, controls>>
vars == <<parentNode, controls, active, visible>>

Init ==
  /\ parentNode \in [Toggle -> Item] /\ controls \in [Toggle -> Dropdown]
  /\ active = {} /\ visible = {}

\* Broken definitions: see DemoServer.
BrokenToggleDropdown(t, open, items, dropdowns) ==
  IF open THEN <<items \cup {parentNode[t]}, dropdowns \cup {controls[t]}>>
          ELSE <<items \ {parentNode[t]}, dropdowns>>

BrokenSwapped(t, open, items, dropdowns) ==
  IF open THEN <<items \cup {controls[t]}, dropdowns \cup {parentNode[t]}>>
          ELSE <<items \ {controls[t]}, dropdowns \ {parentNode[t]}>>

\* The active items and the visible dropdowns after one call.
toggleDropdown(t, open, items, dropdowns) ==
  IF open THEN <<items \cup {parentNode[t]}, dropdowns \cup {controls[t]}>>
          ELSE <<items \ {parentNode[t]}, dropdowns \ {controls[t]}>>

\* toggleDropdown(t, false) for every toggle t.  Each call only takes away, so
\* what is left is what every one of them leaves.
closeAllDropdowns ==
  LET closed(t) == toggleDropdown(t, FALSE, active, visible)
  IN <<{i \in active : \A t \in Toggle : i \in closed(t)[1]},
       {d \in visible : \A t \in Toggle : d \in closed(t)[2]}>>

\* The listener of a toggle.  The click goes on to the document, whose listener
\* leaves it alone: the toggle is inside the container.
ClickToggle(t) ==
  LET after == IF parentNode[t] \in active THEN closeAllDropdowns
               ELSE toggleDropdown(t, TRUE, closeAllDropdowns[1], closeAllDropdowns[2])
  IN /\ active' = after[1] /\ visible' = after[2]
     /\ UNCHANGED document

\* The listener of the document, for a target that is in no container.
ClickOutside ==
  /\ active' = closeAllDropdowns[1] /\ visible' = closeAllDropdowns[2]
  /\ UNCHANGED document

Next == ClickOutside \/ \E t \in Toggle : ClickToggle(t)

Spec == Init /\ [][Next]_vars
-----------------------------------------------------------------------------
TypeOK ==
  /\ parentNode \in [Toggle -> Item] /\ controls \in [Toggle -> Dropdown]
  /\ active \subseteq Item /\ visible \subseteq Dropdown

\* Whatever the document and the order of the clicks, either everything is
\* closed or one toggle's item is marked and its dropdown visible, and nothing
\* else is (navigation-2.js:40-44): the class and aria-hidden never disagree.
OneMenu ==
  \/ active = {} /\ visible = {}
  \/ \E t \in Toggle : active = {parentNode[t]} /\ visible = {controls[t]}

\* Toggles with an item and a dropdown of their own.
Proper ==
  \A t, u \in Toggle : t # u => parentNode[t] # parentNode[u] /\ controls[t] # controls[u]

\* The listener decides by the class of the item (navigation-2.js:40) what the
\* visitor sees by the dropdown: in a proper document a click always turns the
\* visibility of the dropdown it belongs to.
ClickTurns ==
  [][Proper => \A t \in Toggle :
        ClickToggle(t) => (controls[t] \in visible' <=> controls[t] \notin visible)]_vars
=============================================================================
