----------------------------- MODULE MCSessions -----------------------------
(***************************************************************************)
(* One user with at most three tokens alive, and two logins and two        *)
(* refreshes under way at a time; an access token lives two seconds and a  *)
(* refresh token three.                                                    *)
(***************************************************************************)
EXTENDS Sessions, TLC

CONSTANTS t1, t2, t3

\* A sign-in is named by the slot of its first token, so slots are alike.
Symmetry == Permutations(Slots)

Alive == {k \in Slots : tokens[k].row # "absent"}

Refreshing == {k \in Slots : reading[k] > 0}

\* What the search follows: the tokens while nobody fails to sign in and the
\* mailbox is quiet during a refresh, two logins that race for the throttle of
\* a user who has been left alone, and these against a reset link.
QuietThrottle == recent = <<>> /\ failures = NoCounter /\ lock = Gone

Tokens ==
    /\ QuietThrottle
    /\ UnderWay <= 1 /\ (UnderWay = 1 => Refreshing = {})
    /\ Refreshing # {} => resetMails = 0 /\ resetLinks = {}

Throttle ==
    /\ Refreshing = {} /\ denied = NoMarker /\ user.active
    /\ Cardinality(Alive) + resetMails + Cardinality(resetLinks) <= 1

Focus == Tokens \/ Throttle
=============================================================================
