----------------------------- MODULE TokenCustody -----------------------------
(***************************************************************************)
(* What the bridge promises for every token: it is in one place at a time, *)
(* either with a holder on one of the chains or on its way to the one      *)
(* recipient its holder named, and it arrives there at most once per       *)
(* departure.  Nothing here speaks of locks, hashes, roots or proofs.      *)
(***************************************************************************)
EXTENDS Integers

CONSTANTS Token, User, Address

VARIABLE custody

OnEthereum(a) == [place |-> "ethereum", who |-> a]
OnMegaETH(a) == [place |-> "megaeth", who |-> a]
ToMegaETH(a) == [place |-> "toMegaeth", who |-> a]
ToEthereum(a) == [place |-> "toEthereum", who |-> a]

CustodyInit == custody \in [Token -> {OnEthereum(a) : a \in User}]

\* A user who holds t passes it on; a token given to an address that is no
\* user, such as a bridge contract, never moves again.
HandOver(t, a) ==
    /\ custody[t].place \in {"ethereum", "megaeth"}
    /\ custody[t].who \in User
    /\ custody' = [custody EXCEPT ![t].who = a]

\* A user sends the tokens of S, all held on one chain, to a recipient on the
\* other.
Depart(S, a) ==
    \E u \in User :
      \/ /\ \A t \in S : custody[t] = OnEthereum(u)
         /\ custody' = [t \in Token |-> IF t \in S THEN ToMegaETH(a) ELSE custody[t]]
      \/ /\ \A t \in S : custody[t] = OnMegaETH(u)
         /\ custody' = [t \in Token |-> IF t \in S THEN ToEthereum(a) ELSE custody[t]]

\* Tokens on their way to one chain arrive, each with its recipient.
Arrive(S) ==
    \/ /\ \A t \in S : custody[t].place = "toMegaeth"
       /\ custody' = [t \in Token |-> IF t \in S THEN OnMegaETH(custody[t].who)
                                                ELSE custody[t]]
    \/ /\ \A t \in S : custody[t].place = "toEthereum"
       /\ custody' = [t \in Token |-> IF t \in S THEN OnEthereum(custody[t].who)
                                                ELSE custody[t]]

CustodyNext ==
    \/ \E t \in Token, a \in Address : HandOver(t, a)
    \/ \E S \in SUBSET Token, a \in Address : Depart(S, a)
    \/ \E S \in SUBSET Token : Arrive(S)

CustodySpec == CustodyInit /\ [][CustodyNext]_custody
==============================================================================
