--------------------------- MODULE OneTimeTokens ---------------------------
(***************************************************************************)
(* What the server promises of a thing that may be presented once: the     *)
(* challenge of a passkey, the counter of an authenticator code.  It is    *)
(* open until it is used or lapses, and never opens again.                 *)
(***************************************************************************)
EXTENDS Naturals

CONSTANT Tokens

VARIABLES
  open,  \* the tokens that may still be accepted
  uses   \* how often each was accepted

OneTimeInit == open = Tokens /\ uses = [t \in Tokens |-> 0]

Use(t) == /\ t \in open
          /\ open' = open \ {t}
          /\ uses' = [uses EXCEPT ![t] = @ + 1]

Lapse == open' \subseteq open /\ UNCHANGED uses

OneTimeNext == Lapse \/ \E t \in Tokens : Use(t)

OneTimeSpec == OneTimeInit /\ [][OneTimeNext]_<<open, uses>>
=============================================================================
