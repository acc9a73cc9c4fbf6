--------------------------- MODULE MCSessionTokens ---------------------------
(***************************************************************************)
(* SessionTokens with two calls of one page and one of another             *)
(***************************************************************************)
EXTENDS SessionTokens

CONSTANTS a1, a2, b1

MCPage == [c \in {a1, a2, b1} |-> IF c = b1 THEN "B" ELSE "A"]

\* either all calls are made and at most one session revocation, or one call
\* and everything that moves the version; what is left out is over already
MCInit ==
  \/ Starting(Calls, {"revoke"}, FALSE)
  \/ Starting({a1}, Bumps, TRUE)

MCSpec == MCInit /\ [][SessionNext]_sessionVars
=============================================================================
