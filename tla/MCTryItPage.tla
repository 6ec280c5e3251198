---------------------------- MODULE MCTryItPage ----------------------------
EXTENDS TryItPage

CONSTANTS s1, Unknown

\* The start page; a session, with and without a trailing slash; an id nobody
\* has; an id without a value next to another field.
Opened == {<<>>, Query(<<s1, "/">>), Query(<<Unknown>>),
           <<[name |-> "terms", value |-> <<s1>>], [name |-> "id", value |-> <<>>]>>}

\* A browser clock that is behind, exact or ahead.
OneOff == {-1, 0, 1}
=============================================================================
