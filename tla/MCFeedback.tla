----------------------------- MODULE MCFeedback -----------------------------
EXTENDS Feedback, TLC

\* Posts are only ever compared for equality.
Posts == Permutations(Post)
=============================================================================
