--------------------------- MODULE BunnzCollection ----------------------------
(***************************************************************************)
(* Bad_Bunnz.sol: the enumeration it keeps beside the ERC-721 base, its    *)
(* supply counter, and what its owner and its bridge may do.  A mapping is *)
(* a function on the keys that were written and not deleted since; any     *)
(* other key reads as 0.                                                   *)
(*                                                                         *)
(* An airdrop mints token by token, and _safeMint calls each receiver      *)
(* before it goes on: what receivers do then interleaves with its steps.   *)
(* The owner may be a contract that receives tokens, and airdrop has no    *)
(* guard against reentrance, so an airdrop may run inside another: the     *)
(* running ones are a stack, of which only the innermost goes on.          *)
(***************************************************************************)
EXTENDS Integers, Sequences

CONSTANTS
    BunnzId,   \* token ids
    Holder,    \* addresses that hold tokens
    Nobody,    \* address(0)
    MaxSupply, \* maxSupply
    MaxBatch,  \* bound: tokens of one airdrop
    MaxNesting \* bound: airdrops that run inside each other

ASSUME CollectionAssumption ==
    /\ BunnzId \subseteq Nat
    /\ Nobody \notin Holder
    /\ MaxSupply \in Nat
    /\ MaxBatch \in Nat
    /\ MaxNesting \in Nat

VARIABLES
    ownerOf,          \* the ERC-721 base: owners
    balanceOf,        \* the ERC-721 base: balances
    ownedTokens,      \* _ownedTokens[holder][index]
    ownedTokensIndex, \* _ownedTokensIndex[tokenId]
    allTokens,        \* _allTokens, from position 1
    allTokensIndex,   \* _allTokensIndex[tokenId], from 0
    mintedSupply,
    bridgeAddress,
    airdrops,         \* running airdrops, innermost last: what each has left to mint, its total
    airdropped,       \* history: tokens minted by airdrops so far
    nested            \* history: tokens of the airdrops begun inside another

ledger == <<ownerOf, balanceOf, ownedTokens, ownedTokensIndex, allTokens, allTokensIndex>>
drops == <<mintedSupply, airdrops, airdropped, nested>>
bunnzVars == <<ledger, bridgeAddress, drops>>

Read(mapping, k) == IF k \in DOMAIN mapping THEN mapping[k] ELSE 0
Write(mapping, k, v) == [x \in DOMAIN mapping \cup {k} |-> IF x = k THEN v ELSE mapping[x]]
Delete(mapping, k) == [x \in DOMAIN mapping \ {k} |-> mapping[x]]

CollectionInit ==
    /\ ownerOf = [t \in BunnzId |-> Nobody]
    /\ balanceOf = [a \in Holder |-> 0]
    /\ ownedTokens = [a \in Holder |-> <<>>]
    /\ ownedTokensIndex = <<>>
    /\ allTokens = <<>>
    /\ allTokensIndex = <<>>
    /\ mintedSupply = 0
    /\ bridgeAddress = Nobody
    /\ airdrops = <<>>
    /\ airdropped = 0
    /\ nested = 0

------------------------------------------------------------------------------
\* _beforeTokenTransfer: the enumerations change while the balances are still
\* those of before the transfer.

\* _removeTokenFromOwnerEnumeration: the last token moves into the gap.
Gap(t) == Read(ownedTokensIndex, t)
Last(from) == balanceOf[from] - 1
OwnedWithout(from, t) ==
    LET filled == IF Gap(t) = Last(from) THEN ownedTokens[from]
                  ELSE Write(ownedTokens[from], Gap(t), Read(ownedTokens[from], Last(from)))
    IN  [ownedTokens EXCEPT ![from] = Delete(filled, Last(from))]
SlipIndexWithout(from, t) == Delete(ownedTokensIndex, t)
IndexWithout(from, t) ==
    LET filled == IF Gap(t) = Last(from) THEN ownedTokensIndex
                  ELSE Write(ownedTokensIndex, Read(ownedTokens[from], Last(from)), Gap(t))
    IN  Delete(filled, t)

\* _addTokenToOwnerEnumeration
OwnedWith(owned, to, t) == [owned EXCEPT ![to] = Write(@, balanceOf[to], t)]
IndexWith(index, to, t) == Write(index, t, balanceOf[to])

Mint(to, t) ==
    /\ ownerOf[t] = Nobody
    /\ ownedTokens' = OwnedWith(ownedTokens, to, t)
    /\ ownedTokensIndex' = IndexWith(ownedTokensIndex, to, t)
    /\ allTokensIndex' = Write(allTokensIndex, t, Len(allTokens))
    /\ allTokens' = Append(allTokens, t)
    /\ ownerOf' = [ownerOf EXCEPT ![t] = to]
    /\ balanceOf' = [balanceOf EXCEPT ![to] = @ + 1]

\* A transfer to the holder itself leaves everything as it is.
Transfer(t, to) ==
    /\ ownerOf[t] \in Holder \ {to}
    /\ LET from == ownerOf[t]
       IN  /\ ownedTokens' = OwnedWith(OwnedWithout(from, t), to, t)
           /\ ownedTokensIndex' = IndexWith(IndexWithout(from, t), to, t)
           /\ balanceOf' = [balanceOf EXCEPT ![from] = @ - 1, ![to] = @ + 1]
    /\ ownerOf' = [ownerOf EXCEPT ![t] = to]
    /\ UNCHANGED <<allTokens, allTokensIndex, bridgeAddress, drops>>

\* _removeTokenFromAllTokensEnumeration
Burn(t) ==
    LET from == ownerOf[t]
        gap == Read(allTokensIndex, t)
        last == allTokens[Len(allTokens)]
    IN  /\ from # Nobody
        /\ ownedTokens' = OwnedWithout(from, t)
        /\ ownedTokensIndex' = IndexWithout(from, t)
        /\ allTokens' = SubSeq([allTokens EXCEPT ![gap + 1] = last], 1, Len(allTokens) - 1)
        /\ allTokensIndex' = Delete(Write(allTokensIndex, last, gap), t)
        /\ ownerOf' = [ownerOf EXCEPT ![t] = Nobody]
        /\ balanceOf' = [balanceOf EXCEPT ![from] = @ - 1]

------------------------------------------------------------------------------
\* The owner of the contract and the bridge.

SetBridgeAddress(bridge) ==
    /\ bridgeAddress = Nobody
    /\ bridgeAddress' = bridge
    /\ UNCHANGED <<ledger, drops>>

\* Only the bridge mints and burns.
BridgeMint(caller, to, t) ==
    /\ caller = bridgeAddress
    /\ Mint(to, t)
    /\ UNCHANGED <<bridgeAddress, drops>>

BridgeBurn(caller, t) ==
    /\ caller = bridgeAddress
    /\ Burn(t)
    /\ UNCHANGED <<bridgeAddress, drops>>

SlipWithinCap(batch) == Len(allTokens) + Len(batch) <= MaxSupply
WithinCap(batch) == mintedSupply + Len(batch) <= MaxSupply

Innermost == airdrops[Len(airdrops)]

\* One turn of the loop of airdrop; receiver is called at its end.
Drop(receiver, t) ==
    /\ Mint(receiver, t)
    /\ airdropped' = airdropped + 1
    /\ UNCHANGED <<mintedSupply, bridgeAddress>>

\* batch lists receivers and tokens.  Nothing is called between the check of
\* the supply and the first mint.
StartAirdrop(batch) ==
    /\ WithinCap(batch)
    /\ Drop(batch[1][1], batch[1][2])
    /\ airdrops' = Append(airdrops, [todo |-> Tail(batch), total |-> Len(batch)])
    /\ nested' = IF airdrops = <<>> THEN nested ELSE nested + Len(batch)

\* The loop goes on when the last receiver has returned.  A token that exists
\* makes the airdrop revert: it never gets past it.
AirdropNext ==
    /\ airdrops # <<>>
    /\ LET todo == Innermost.todo
       IN  /\ todo # <<>>
           /\ Drop(Head(todo)[1], Head(todo)[2])
           /\ airdrops' = [airdrops EXCEPT ![Len(airdrops)] =
                              [todo |-> Tail(todo), total |-> Innermost.total]]
    /\ UNCHANGED nested

SlipAirdropReturns ==
    /\ airdrops # <<>>
    /\ Innermost.todo = <<>>
    /\ mintedSupply' = Len(allTokens)
    /\ airdrops' = SubSeq(airdrops, 1, Len(airdrops) - 1)
    /\ UNCHANGED <<ledger, bridgeAddress, airdropped, nested>>

\* mintedSupply is raised after the loop, when the last receiver has returned.
AirdropReturns ==
    /\ airdrops # <<>>
    /\ Innermost.todo = <<>>
    /\ mintedSupply' = mintedSupply + Innermost.total
    /\ airdrops' = SubSeq(airdrops, 1, Len(airdrops) - 1)
    /\ UNCHANGED <<ledger, bridgeAddress, airdropped, nested>>

CollectionNext ==
    \/ \E t \in BunnzId, to \in Holder : Transfer(t, to)
    \/ \E bridge \in Holder : SetBridgeAddress(bridge)
    \/ \E caller, to \in Holder, t \in BunnzId : BridgeMint(caller, to, t)
    \/ \E caller \in Holder, t \in BunnzId : BridgeBurn(caller, t)
    \/ \E n \in 1..MaxBatch : \E batch \in [1..n -> Holder \X BunnzId] :
          Len(airdrops) < MaxNesting /\ StartAirdrop(batch)
    \/ AirdropNext
    \/ AirdropReturns

CollectionSpec == CollectionInit /\ [][CollectionNext]_bunnzVars

------------------------------------------------------------------------------
\* Properties.

\* tokenOfOwnerByIndex and tokenByIndex: every index below the balance names a
\* different token of the holder, and every token of a holder has an index;
\* likewise for all tokens.  The balances are those of the base, the lists
\* are the collection's own, so the two could drift apart.
EnumerationMatches ==
    /\ \A a \in Holder :
          /\ DOMAIN ownedTokens[a] = 0..(balanceOf[a] - 1)
          /\ \A i \in DOMAIN ownedTokens[a] :
                /\ ownerOf[ownedTokens[a][i]] = a
                /\ Read(ownedTokensIndex, ownedTokens[a][i]) = i
          /\ \A t \in BunnzId :
                ownerOf[t] = a => \E i \in DOMAIN ownedTokens[a] : ownedTokens[a][i] = t
    /\ \A i \in DOMAIN allTokens :
          /\ ownerOf[allTokens[i]] # Nobody
          /\ Read(allTokensIndex, allTokens[i]) = i - 1
    /\ \A t \in BunnzId :
          ownerOf[t] # Nobody => \E i \in DOMAIN allTokens : allTokens[i] = t

\* mintedSupply (airdrop raises it after its receivers were called) is never
\* off once no airdrop runs: it counts every airdropped token, those of an
\* airdrop inside another once, and neither burns nor mints of the bridge.
MintedSupplyExact == airdrops = <<>> => mintedSupply = airdropped

\* airdrop's check of maxSupply reads a mintedSupply that leaves out the
\* airdrops still running.  Airdrops that are not nested never mint more than
\* maxSupply in all, whatever receivers, holders and the bridge do meanwhile;
\* nested ones take the total past it by no more than their own tokens.
AirdropsWithinCap == airdropped <= MaxSupply + nested
==============================================================================
