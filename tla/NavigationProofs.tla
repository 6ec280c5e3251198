-------------------------- MODULE NavigationProofs --------------------------
(***************************************************************************)
(* The menus of Navigation, for any number of toggles, items and dropdowns *)
(* and any way they are joined in the document.                            *)
(***************************************************************************)
EXTENDS Navigation, TLAPS

\* Every click starts by closing everything: of one open menu nothing is left.
LEMMA CloseAllCloses ==
  ASSUME TypeOK, OneMenu
  PROVE  closeAllDropdowns = <<{}, {}>>
<1>1. CASE active = {} /\ visible = {}
  BY <1>1 DEF closeAllDropdowns
<1>2. ASSUME NEW t \in Toggle, active = {parentNode[t]}, visible = {controls[t]}
      PROVE  closeAllDropdowns = <<{}, {}>>
  <2>1. {i \in active : \A u \in Toggle : i \in toggleDropdown(u, FALSE, active, visible)[1]}
          = {}
    BY <1>2 DEF toggleDropdown
  <2>2. {d \in visible : \A u \in Toggle : d \in toggleDropdown(u, FALSE, active, visible)[2]}
          = {}
    BY <1>2 DEF toggleDropdown
  <2> QED BY <2>1, <2>2 DEF closeAllDropdowns
<1> QED BY <1>1, <1>2 DEF OneMenu

\* What a click on a toggle makes of the page.
LEMMA ClickOpensOrCloses ==
  ASSUME TypeOK, OneMenu, NEW t \in Toggle, ClickToggle(t)
  PROVE  IF parentNode[t] \in active THEN active' = {} /\ visible' = {}
         ELSE active' = {parentNode[t]} /\ visible' = {controls[t]}
<1>1. closeAllDropdowns = <<{}, {}>>
  BY CloseAllCloses
<1>2. toggleDropdown(t, TRUE, {}, {}) = <<{parentNode[t]}, {controls[t]}>>
  BY DEF toggleDropdown
<1>3. closeAllDropdowns[1] = {} /\ closeAllDropdowns[2] = {}
  BY <1>1
<1>4. CASE parentNode[t] \in active
  BY <1>3, <1>4 DEF ClickToggle
<1>5. CASE parentNode[t] \notin active
  <2>1. LET after == toggleDropdown(t, TRUE, closeAllDropdowns[1], closeAllDropdowns[2])
        IN  active' = after[1] /\ visible' = after[2]
    BY <1>5 DEF ClickToggle
  <2>2. active' = <<{parentNode[t]}, {controls[t]}>>[1] /\ visible' = <<{parentNode[t]}, {controls[t]}>>[2]
    BY <2>1, <1>2, <1>3
  <2> QED BY <2>2, <1>5
<1> QED BY <1>4, <1>5

LEMMA MenuStep ==
  ASSUME TypeOK, OneMenu, [Next]_vars
  PROVE  TypeOK' /\ OneMenu'
<1>1. CASE ClickOutside
  BY <1>1, CloseAllCloses DEF ClickOutside, TypeOK, OneMenu, document
<1>2. ASSUME NEW t \in Toggle, ClickToggle(t)
      PROVE  TypeOK' /\ OneMenu'
  <2>1. parentNode' = parentNode /\ controls' = controls
    BY <1>2 DEF ClickToggle, document
  <2>2. parentNode[t] \in Item /\ controls[t] \in Dropdown
    BY DEF TypeOK
  <2>3. \/ active' = {} /\ visible' = {}
        \/ active' = {parentNode[t]} /\ visible' = {controls[t]}
    BY <1>2, ClickOpensOrCloses
  <2> QED BY <2>1, <2>2, <2>3 DEF TypeOK, OneMenu
<1>3. CASE UNCHANGED vars
  BY <1>3 DEF vars, TypeOK, OneMenu
<1> QED BY <1>1, <1>2, <1>3 DEF Next

\* Whatever the document and the clicks, at most one menu is open, marked and
\* visible together.
THEOREM OneMenuAlways == Spec => [](TypeOK /\ OneMenu)
<1>1. Init => TypeOK /\ OneMenu
  BY DEF Init, TypeOK, OneMenu
<1>2. TypeOK /\ OneMenu /\ [Next]_vars => (TypeOK /\ OneMenu)'
  BY MenuStep
<1> QED BY <1>1, <1>2, PTL DEF Spec

\* Only items are ever marked and only dropdowns shown or hidden.
THEOREM TypeCorrect == Spec => []TypeOK
BY OneMenuAlways, PTL

\* In a document where no two toggles share an item or a dropdown, every click
\* turns the menu it belongs to.
THEOREM EveryClickTurns == Spec => ClickTurns
<1>1. ASSUME TypeOK, OneMenu, Proper, NEW t \in Toggle, ClickToggle(t)
      PROVE  controls[t] \in visible' <=> controls[t] \notin visible
  <2>1. controls[t] \in visible <=> parentNode[t] \in active
    BY <1>1 DEF OneMenu, Proper
  <2> QED BY <1>1, <2>1, ClickOpensOrCloses
<1>2. TypeOK /\ OneMenu /\ [Next]_vars =>
        [Proper => \A t \in Toggle :
            ClickToggle(t) => (controls[t] \in visible' <=> controls[t] \notin visible)]_vars
  BY <1>1
<1> QED BY <1>2, OneMenuAlways, PTL DEF Spec, ClickTurns
=============================================================================
