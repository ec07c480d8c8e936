------------------------------- MODULE MCBridge -------------------------------
(***************************************************************************)
(* The bridge for TLC, in one of two scenes chosen by the initial state:   *)
(* a bridged token that moves between two users and both contracts, or all *)
(* tokens of one user, locked and redeemed singly or in batches.  Until it *)
(* is airdropped a token of Airdrop is like any other, so the batches of   *)
(* the second scene are of bridged tokens as well as mixed ones.           *)
(***************************************************************************)
EXTENDS Bridge, TLC

VARIABLE scene   \* the addresses that are named and the tokens that move

MCSymmetry == Permutations(User)

MCInit ==
    /\ Init
    /\ scene \in {[named |-> Recipient, moving |-> {t}] : t \in Bridged}
                    \cup {[named |-> {u}, moving |-> Token] : u \in User}
    /\ \E u \in scene.named : \A t \in Token : ethOwnerOf[t] = u

\* A token moves by a lock or to an address of the scene.
MCMoves(t) ==
    /\ t \in scene.moving \/ ethOwnerOf'[t] = ethOwnerOf[t]
    /\ t \in scene.moving \/ megaOwnerOf'[t] = megaOwnerOf[t]
    /\ t \in ethLockedTokens' \/ ethOwnerOf'[t] \in scene.named
    /\ t \in megaLockedTokens' \/ megaOwnerOf'[t] \in scene.named \cup {ZeroAddress}

\* Pauses only delay calls: here there is a short one on Ethereum at the end,
\* when no root is left that could be cleared.
MCPauses ==
    /\ ethPaused => ~ethPaused'
    /\ ethPaused' => /\ ethBlockNumber > MaxBlock /\ megaBlockNumber > MaxBlock
                     /\ ~\E n \in Block : EthClearable(n) \/ MegaClearable(n)
    /\ ~megaPaused'

MCNext ==
    /\ Next
    /\ UNCHANGED scene
    /\ \A t \in Token : MCMoves(t)
    /\ MCPauses
    /\ \A d \in ethLockLog' \cup megaLockLog' : d.recipient \in scene.named

MCSpec == MCInit /\ [][MCNext]_<<vars, scene>>
==============================================================================
