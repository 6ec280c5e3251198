SPECIFICATION Spec
CONSTANTS
  Toggle = {t1, t2, t3}
  Item = {p1, p2, p3}
  Dropdown = {d1, d2, d3}
INVARIANTS TypeOK OneMenu
PROPERTY ClickTurns
