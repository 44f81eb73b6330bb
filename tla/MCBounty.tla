------------------------------ MODULE MCBounty ------------------------------
(***************************************************************************)
(* Bounded instances of Bounty.  One sponsor, two contributors (both of    *)
(* them administrators too, so that the conflict-of-interest rule is       *)
(* exercised) and a root account that receives the platform fee.           *)
(***************************************************************************)
EXTENDS Bounty, TLC

CONSTANTS owner, alice, bob, root

MCUsers        == {owner, alice, bob, root}
MCSponsors     == {owner}
MCAdmins       == {alice, bob, root}
MCRoots        == {root}
MCMinWalletQuota == -10
MCInitialQuota == [u \in MCUsers |-> IF u = owner THEN 6 ELSE 0]

\* Wallets at and near the cap, and below zero.
MCCappedQuota  == [u \in MCUsers |-> CASE u = owner -> 6 [] u = alice -> 4
                                       [] u = bob -> -1  [] u = root -> 6]

Symmetry == Permutations(Challenges) \cup Permutations(Disputes)
            \cup Permutations({alice, bob})
=============================================================================
