-------------------------- MODULE CollectionProofs ---------------------------
(***************************************************************************)
(* Proofs about BunnzCollection, for any tokens, holders and supply: the   *)
(* enumerations stay inverse to their indexes, mintedSupply counts what    *)
(* airdrops mint, and only an airdrop inside another exceeds maxSupply.    *)
(***************************************************************************)
EXTENDS BunnzCollection, TLAPS

------------------------------------------------------------------------------
\* 1. A list with its index.  The list has the members of S at 0..(n - 1), and
\* the index gives each its position.

ListOK(list, index, n, S) ==
    /\ n \in Nat
    /\ DOMAIN list = 0..(n - 1)
    /\ \A i \in 0..(n - 1) : list[i] \in S /\ Read(index, list[i]) = i
    /\ \A t \in S : Read(index, t) \in 0..(n - 1) /\ list[Read(index, t)] = t

\* Only the positions of its own members matter to a list.
LEMMA ListFrame ==
    ASSUME NEW list, NEW index, NEW other, NEW n, NEW S, ListOK(list, index, n, S),
           \A t \in S : Read(other, t) = Read(index, t)
    PROVE  ListOK(list, other, n, S)
BY DEF ListOK

\* A new member is appended.
LEMMA ListAdd ==
    ASSUME NEW list, NEW index, NEW n, NEW S, ListOK(list, index, n, S), NEW t, t \notin S
    PROVE  ListOK(Write(list, n, t), Write(index, t, n), n + 1, S \cup {t})
<1> DEFINE l == Write(list, n, t)
           x == Write(index, t, n)
<1>1. n \in Nat /\ DOMAIN list = 0..(n - 1)
  BY DEF ListOK
<1>2. /\ DOMAIN l = 0..(n - 1) \cup {n}
      /\ \A i \in 0..(n - 1) \cup {n} : l[i] = IF i = n THEN t ELSE list[i]
      /\ \A k : Read(x, k) = IF k = t THEN n ELSE Read(index, k)
  BY <1>1 DEF Write, Read
<1> HIDE DEF l, x
<1>3. 0..(n - 1) \cup {n} = 0..((n + 1) - 1) /\ n + 1 \in Nat
  BY <1>1
<1>4. \A i \in 0..(n - 1) : i # n /\ list[i] \in S /\ list[i] # t /\ Read(index, list[i]) = i
  BY <1>1 DEF ListOK
<1>5. \A i \in 0..((n + 1) - 1) : l[i] \in S \cup {t} /\ Read(x, l[i]) = i
  BY <1>2, <1>3, <1>4
<1>6. \A k \in S \cup {t} : Read(x, k) \in 0..((n + 1) - 1) /\ l[Read(x, k)] = k
  <2>1. \A k \in S : Read(x, k) = Read(index, k) /\ Read(index, k) \in 0..(n - 1)
                     /\ list[Read(index, k)] = k
    BY <1>2 DEF ListOK
  <2> QED
    BY <1>1, <1>2, <1>3, <2>1
<1> QED
  BY <1>2, <1>3, <1>5, <1>6 DEF ListOK, l, x

\* A member is removed: the last one moves into its gap.
LEMMA ListRemove ==
    ASSUME NEW list, NEW index, NEW n, NEW S, ListOK(list, index, n, S), NEW t \in S,
           NEW filled, NEW moved,
           IF Read(index, t) = n - 1
           THEN filled = list /\ moved = index
           ELSE /\ filled = Write(list, Read(index, t), Read(list, n - 1))
                /\ moved = Write(index, Read(list, n - 1), Read(index, t))
    PROVE  /\ ListOK(Delete(filled, n - 1), Delete(moved, t), n - 1, S \ {t})
           /\ \A s : s \notin S => Read(Delete(moved, t), s) = Read(index, s)
<1> DEFINE gap == Read(index, t)
           last == list[n - 1]
           l == Delete(filled, n - 1)
           x == Delete(moved, t)
<1>1. /\ n \in Nat /\ DOMAIN list = 0..(n - 1)
      /\ gap \in 0..(n - 1) /\ list[gap] = t
      /\ n - 1 \in Nat /\ n - 1 \in 0..(n - 1) /\ 0..(n - 1) \ {n - 1} = 0..((n - 1) - 1)
  BY DEF ListOK
<1>2. last \in S /\ Read(index, last) = n - 1 /\ Read(list, n - 1) = last
  BY <1>1 DEF ListOK, Read
<1>3. DOMAIN filled = 0..(n - 1)
  BY <1>1 DEF Write
<1>4. DOMAIN l = 0..((n - 1) - 1)
  BY <1>1, <1>3 DEF Delete
<1>5. \A i \in 0..((n - 1) - 1) : l[i] = IF i = gap THEN last ELSE list[i]
  <2> HIDE DEF gap, last
  <2> SUFFICES ASSUME NEW i \in 0..((n - 1) - 1)
               PROVE  l[i] = IF i = gap THEN last ELSE list[i]
    OBVIOUS
  <2>1. i \in 0..(n - 1) \ {n - 1}
    BY <1>1
  <2>2. l[i] = filled[i]
    BY <1>3, <2>1 DEF Delete
  <2>3. CASE gap = n - 1
    BY <2>1, <2>2, <2>3 DEF gap
  <2>4. CASE gap # n - 1
    <3>1. filled = Write(list, gap, last)
      BY <1>2, <2>4 DEF gap
    <3>2. i \in DOMAIN list \cup {gap}
      BY <1>1, <2>1
    <3> QED
      BY <2>2, <3>1, <3>2 DEF Write
  <2> QED
    BY <2>3, <2>4
<1>6. \A s : Read(x, s) = IF s = t THEN 0 ELSE IF gap # n - 1 /\ s = last THEN gap ELSE Read(index, s)
  BY <1>2 DEF Write, Delete, Read
<1> HIDE DEF gap, last, l, x
<1>7. gap = n - 1 <=> last = t
  BY <1>1, <1>2 DEF gap, last
<1>8. ASSUME NEW i \in 0..((n - 1) - 1)
      PROVE  l[i] \in S \ {t} /\ Read(x, l[i]) = i
  <2>1. i \in 0..(n - 1) /\ i # n - 1
    BY <1>1
  <2>2. list[i] \in S /\ Read(index, list[i]) = i
    BY <2>1 DEF ListOK
  <2>3. CASE i = gap
    <3>1. gap # n - 1 /\ l[i] = last /\ last # t
      BY <1>5, <1>7, <2>1, <2>3
    <3> QED
      BY <1>2, <1>6, <2>3, <3>1
  <2>4. CASE i # gap
    <3>1. l[i] = list[i] /\ list[i] # t
      BY <1>5, <2>2, <2>4 DEF gap
    <3>2. list[i] # last
      BY <1>2, <2>1, <2>2
    <3> QED
      BY <1>6, <2>2, <3>1, <3>2
  <2> QED
    BY <2>3, <2>4
<1>9. ASSUME NEW s \in S \ {t}
      PROVE  Read(x, s) \in 0..((n - 1) - 1) /\ l[Read(x, s)] = s
  <2>1. Read(index, s) \in 0..(n - 1) /\ list[Read(index, s)] = s
    BY DEF ListOK
  <2>2. Read(index, s) # gap
    BY <1>1, <2>1
  <2>3. CASE s = last
    <3>1. gap # n - 1 /\ Read(x, s) = gap
      BY <1>6, <1>7, <2>3
    <3>2. gap \in 0..((n - 1) - 1)
      BY <1>1, <3>1
    <3> QED
      BY <1>5, <2>3, <3>1, <3>2
  <2>4. CASE s # last
    <3>1. Read(x, s) = Read(index, s)
      BY <1>6, <2>4
    <3>2. Read(index, s) # n - 1
      BY <2>1, <2>4 DEF last
    <3>3. Read(index, s) \in 0..((n - 1) - 1)
      BY <1>1, <2>1, <3>2
    <3> QED
      BY <1>5, <2>1, <2>2, <3>1, <3>3
  <2> QED
    BY <2>3, <2>4
<1>10. ListOK(l, x, n - 1, S \ {t})
  BY <1>1, <1>4, <1>8, <1>9 DEF ListOK
<1> QED
  BY <1>2, <1>6, <1>10 DEF l, x

\* 2. The list of all tokens, a sequence: its positions start at 1, those of its
\* index at 0.

AllOK(all, index, S) ==
    /\ all \in Seq(BunnzId)
    /\ \A i \in 1..Len(all) : all[i] \in S /\ Read(index, all[i]) = i - 1
    /\ \A t \in S : Read(index, t) \in 0..(Len(all) - 1) /\ all[Read(index, t) + 1] = t

LEMMA AllAdd ==
    ASSUME NEW all, NEW index, NEW S, AllOK(all, index, S), NEW t \in BunnzId, t \notin S
    PROVE  AllOK(Append(all, t), Write(index, t, Len(all)), S \cup {t})
<1> DEFINE l == Append(all, t)
           n == Len(all)
           x == Write(index, t, n)
<1>1. all \in Seq(BunnzId) /\ n \in Nat
  BY DEF AllOK
<1>2. /\ l \in Seq(BunnzId) /\ Len(l) = n + 1 /\ l[n + 1] = t
      /\ \A i \in 1..n : l[i] = all[i]
  BY <1>1
<1>3. \A k : Read(x, k) = IF k = t THEN n ELSE Read(index, k)
  BY DEF Write, Read
<1> HIDE DEF l, x
<1>4. \A i \in 1..n : all[i] \in S /\ Read(index, all[i]) = i - 1
  BY DEF AllOK
<1>5. ASSUME NEW i \in 1..(n + 1) PROVE l[i] \in S \cup {t} /\ Read(x, l[i]) = i - 1
  <2>1. CASE i = n + 1
    BY <1>1, <1>2, <1>3, <2>1
  <2>2. CASE i # n + 1
    <3>1. i \in 1..n
      BY <1>1, <2>2
    <3> HIDE DEF n
    <3> QED
      BY <1>2, <1>3, <1>4, <3>1
  <2> QED
    BY <2>1, <2>2
<1>6. \A k \in S : Read(index, k) \in 0..(n - 1) /\ all[Read(index, k) + 1] = k
  BY DEF AllOK
<1>7. ASSUME NEW k \in S \cup {t}
      PROVE  Read(x, k) \in 0..((n + 1) - 1) /\ l[Read(x, k) + 1] = k
  <2>1. CASE k = t
    BY <1>1, <1>2, <1>3, <2>1
  <2>2. CASE k # t
    <3>1. Read(x, k) = Read(index, k) /\ Read(index, k) \in 0..(n - 1) /\ all[Read(index, k) + 1] = k
      BY <1>3, <1>6, <2>2
    <3>2. Read(index, k) + 1 \in 1..n /\ Read(index, k) \in 0..((n + 1) - 1)
      BY <1>1, <3>1
    <3> QED
      BY <1>2, <3>1, <3>2
  <2> QED
    BY <2>1, <2>2
<1> QED
  BY <1>2, <1>5, <1>7 DEF AllOK, l, x

LEMMA AllRemove ==
    ASSUME NEW all, NEW index, NEW S, AllOK(all, index, S), NEW t \in S
    PROVE  AllOK(SubSeq([all EXCEPT ![Read(index, t) + 1] = all[Len(all)]], 1, Len(all) - 1),
                 Delete(Write(index, all[Len(all)], Read(index, t)), t), S \ {t})
<1> DEFINE n == Len(all)
           gap == Read(index, t)
           last == all[n]
           filled == [all EXCEPT ![gap + 1] = last]
           l == SubSeq(filled, 1, n - 1)
           x == Delete(Write(index, last, gap), t)
<1>1. all \in Seq(BunnzId) /\ n \in Nat /\ gap \in 0..(n - 1) /\ all[gap + 1] = t
  BY DEF AllOK
<1>2. n \in 1..n /\ n - 1 \in Nat /\ gap + 1 \in 1..n
  BY <1>1
<1>3. last \in S /\ last \in BunnzId /\ Read(index, last) = n - 1
  <2>1. last \in BunnzId
    BY <1>1, <1>2
  <2> QED
    BY <1>2, <2>1 DEF AllOK
<1>4. filled \in Seq(BunnzId) /\ Len(filled) = n
      /\ \A i \in 1..n : filled[i] = IF i = gap + 1 THEN last ELSE all[i]
  BY <1>1, <1>2, <1>3
<1> HIDE DEF filled
<1>5. l \in Seq(BunnzId) /\ Len(l) = n - 1 /\ \A i \in 1..(n - 1) : l[i] = filled[i]
  BY <1>1, <1>2, <1>4
<1>6. \A s : Read(x, s) = IF s = t THEN 0 ELSE IF s = last THEN gap ELSE Read(index, s)
  BY DEF Write, Delete, Read
<1>7. gap = n - 1 <=> last = t
  BY <1>1, <1>3
<1> HIDE DEF gap, last, l, x
<1>8. ASSUME NEW i \in 1..(n - 1) PROVE l[i] \in S \ {t} /\ Read(x, l[i]) = i - 1
  <2>1. i \in 1..n /\ i # n /\ l[i] = IF i = gap + 1 THEN last ELSE all[i]
    BY <1>1, <1>4, <1>5
  <2>2. all[i] \in S /\ Read(index, all[i]) = i - 1
    BY <2>1 DEF AllOK
  <2>3. CASE i = gap + 1
    <3>1. last # t
      BY <1>1, <1>7, <2>1, <2>3
    <3> QED
      BY <1>1, <1>3, <1>6, <2>1, <2>3, <3>1
  <2>4. CASE i # gap + 1
    <3>1. all[i] # t /\ all[i] # last
      BY <1>1, <1>3, <2>1, <2>2, <2>4 DEF gap
    <3> QED
      BY <1>6, <2>1, <2>2, <2>4, <3>1
  <2> QED
    BY <2>3, <2>4
<1>9. ASSUME NEW s \in S \ {t}
      PROVE  Read(x, s) \in 0..((n - 1) - 1) /\ l[Read(x, s) + 1] = s
  <2>1. Read(index, s) \in 0..(n - 1) /\ all[Read(index, s) + 1] = s
    BY DEF AllOK
  <2>2. Read(index, s) # gap
    BY <1>1, <2>1
  <2>3. CASE s = last
    <3>1. gap # n - 1 /\ Read(x, s) = gap
      BY <1>6, <1>7, <2>3
    <3>2. gap \in 0..((n - 1) - 1) /\ gap + 1 \in 1..(n - 1) /\ gap + 1 \in 1..n
      BY <1>1, <3>1
    <3> QED
      BY <1>4, <1>5, <2>3, <3>1, <3>2
  <2>4. CASE s # last
    <3>1. Read(x, s) = Read(index, s) /\ Read(index, s) # n - 1
      BY <1>1, <1>6, <2>1, <2>4 DEF last
    <3>2. Read(index, s) \in 0..((n - 1) - 1) /\ Read(index, s) + 1 \in 1..(n - 1)
          /\ Read(index, s) + 1 \in 1..n /\ Read(index, s) + 1 # gap + 1
      BY <1>1, <2>1, <2>2, <3>1
    <3> QED
      BY <1>4, <1>5, <2>1, <3>1, <3>2
  <2> QED
    BY <2>3, <2>4
<1>10. AllOK(l, x, S \ {t})
  BY <1>5, <1>8, <1>9 DEF AllOK
<1> QED
  BY <1>10 DEF l, x, filled, gap, last

------------------------------------------------------------------------------
\* 3. The invariant of the ledger.

OwnedBy(owner, a) == {t \in BunnzId : owner[t] = a}
Minted(owner) == {t \in BunnzId : owner[t] # Nobody}

LedgerInv ==
    /\ ownerOf \in [BunnzId -> Holder \cup {Nobody}]
    /\ balanceOf \in [Holder -> Nat]
    /\ ownedTokens = [a \in Holder |-> ownedTokens[a]]
    /\ \A a \in Holder : ListOK(ownedTokens[a], ownedTokensIndex, balanceOf[a], OwnedBy(ownerOf, a))
    /\ AllOK(allTokens, allTokensIndex, Minted(ownerOf))

LEMMA LedgerInitInv == CollectionInit => LedgerInv
<1> SUFFICES ASSUME CollectionInit PROVE LedgerInv
  OBVIOUS
<1>1. \A a \in Holder : OwnedBy(ownerOf, a) = {} /\ ownedTokens[a] = <<>> /\ balanceOf[a] = 0
  BY CollectionAssumption DEF CollectionInit, OwnedBy
<1>2. \A index : ListOK(<<>>, index, 0, {})
  BY DEF ListOK
<1>3. Minted(ownerOf) = {} /\ allTokens = <<>>
  BY DEF CollectionInit, Minted
<1>4. \A index : AllOK(<<>>, index, {})
  BY DEF AllOK
<1> QED
  BY <1>1, <1>2, <1>3, <1>4 DEF CollectionInit, LedgerInv

\* The lists of the holders after a token has left the one of its owner.
LEMMA LeavesList ==
    ASSUME LedgerInv, NEW from \in Holder, NEW t \in BunnzId, ownerOf[t] = from
    PROVE  /\ OwnedWithout(from, t) = [a \in Holder |-> OwnedWithout(from, t)[a]]
           /\ balanceOf[from] - 1 \in Nat
           /\ ListOK(OwnedWithout(from, t)[from], IndexWithout(from, t), balanceOf[from] - 1,
                     OwnedBy(ownerOf, from) \ {t})
           /\ \A a \in Holder \ {from} :
                 ListOK(OwnedWithout(from, t)[a], IndexWithout(from, t), balanceOf[a],
                        OwnedBy(ownerOf, a))
<1> DEFINE S == OwnedBy(ownerOf, from)
           list == ownedTokens[from]
           n == balanceOf[from]
           filled == IF Gap(t) = Last(from) THEN ownedTokens[from]
                     ELSE Write(ownedTokens[from], Gap(t), Read(ownedTokens[from], Last(from)))
           moved == IF Gap(t) = Last(from) THEN ownedTokensIndex
                    ELSE Write(ownedTokensIndex, Read(ownedTokens[from], Last(from)), Gap(t))
<1>1. ListOK(list, ownedTokensIndex, n, S) /\ t \in S
  BY DEF LedgerInv, OwnedBy
<1>2. OwnedWithout(from, t) = [ownedTokens EXCEPT ![from] = Delete(filled, balanceOf[from] - 1)]
      /\ IndexWithout(from, t) = Delete(moved, t)
  BY DEF OwnedWithout, IndexWithout, Last
<1>3. IF Read(ownedTokensIndex, t) = n - 1
      THEN filled = list /\ moved = ownedTokensIndex
      ELSE /\ filled = Write(list, Read(ownedTokensIndex, t), Read(list, n - 1))
           /\ moved = Write(ownedTokensIndex, Read(list, n - 1), Read(ownedTokensIndex, t))
  BY DEF Gap, Last
<1> HIDE DEF filled, moved, S, list, n
<1>4. /\ ListOK(Delete(filled, n - 1), Delete(moved, t), n - 1, S \ {t})
      /\ \A s : s \notin S => Read(Delete(moved, t), s) = Read(ownedTokensIndex, s)
  BY <1>1, <1>3, ListRemove
<1> USE DEF list, n
<1>5. /\ OwnedWithout(from, t) = [a \in Holder |-> OwnedWithout(from, t)[a]]
      /\ OwnedWithout(from, t)[from] = Delete(filled, balanceOf[from] - 1)
      /\ \A a \in Holder \ {from} : OwnedWithout(from, t)[a] = ownedTokens[a]
  BY <1>2 DEF LedgerInv
<1>6. ASSUME NEW a \in Holder \ {from}
      PROVE  ListOK(OwnedWithout(from, t)[a], IndexWithout(from, t), balanceOf[a], OwnedBy(ownerOf, a))
  <2>1. ListOK(ownedTokens[a], ownedTokensIndex, balanceOf[a], OwnedBy(ownerOf, a))
    BY DEF LedgerInv
  <2>2. \A s \in OwnedBy(ownerOf, a) : s \notin S
    BY DEF OwnedBy, S
  <2>3. \A s \in OwnedBy(ownerOf, a) : Read(IndexWithout(from, t), s) = Read(ownedTokensIndex, s)
    BY <1>2, <1>4, <2>2
  <2>4. ListOK(ownedTokens[a], IndexWithout(from, t), balanceOf[a], OwnedBy(ownerOf, a))
    BY <2>1, <2>3, ListFrame
  <2> QED
    BY <1>5, <2>4
<1>7. balanceOf[from] - 1 \in Nat
  BY <1>4 DEF ListOK
<1> QED
  BY <1>2, <1>4, <1>5, <1>6, <1>7 DEF S

\* A token nobody of the lists has joins the list of its new holder.
LEMMA JoinsList ==
    ASSUME NEW lists, lists = [a \in Holder |-> lists[a]], NEW index, NEW owner, NEW counts,
           \A a \in Holder : ListOK(lists[a], index, counts[a], OwnedBy(owner, a)),
           NEW to \in Holder, NEW t, \A a \in Holder : t \notin OwnedBy(owner, a)
    PROVE  LET more == [lists EXCEPT ![to] = Write(lists[to], counts[to], t)]
           IN  /\ more = [a \in Holder |-> more[a]]
               /\ ListOK(more[to], Write(index, t, counts[to]), counts[to] + 1,
                         OwnedBy(owner, to) \cup {t})
               /\ \A a \in Holder \ {to} :
                     ListOK(more[a], Write(index, t, counts[to]), counts[a], OwnedBy(owner, a))
<1> DEFINE more == [lists EXCEPT ![to] = Write(lists[to], counts[to], t)]
           x == Write(index, t, counts[to])
<1>1. /\ more = [a \in Holder |-> more[a]]
      /\ more[to] = Write(lists[to], counts[to], t)
      /\ \A a \in Holder \ {to} : more[a] = lists[a]
  OBVIOUS
<1>2. ListOK(Write(lists[to], counts[to], t), x, counts[to] + 1, OwnedBy(owner, to) \cup {t})
  BY ListAdd
<1>3. \A s : s # t => Read(x, s) = Read(index, s)
  BY DEF Write, Read
<1> HIDE DEF x, more
<1>4. ASSUME NEW a \in Holder \ {to}
      PROVE  ListOK(more[a], x, counts[a], OwnedBy(owner, a))
  <2>1. ListOK(lists[a], index, counts[a], OwnedBy(owner, a))
        /\ \A s \in OwnedBy(owner, a) : Read(x, s) = Read(index, s)
    BY <1>3
  <2>2. ListOK(lists[a], x, counts[a], OwnedBy(owner, a))
    BY <2>1, ListFrame
  <2> QED
    BY <1>1, <2>2
<1> QED
  BY <1>1, <1>2, <1>4 DEF x, more

\* The owner of a token changes to a holder or to nobody.
LEMMA OwnerChanges ==
    ASSUME LedgerInv, NEW t \in BunnzId, NEW to \in Holder \cup {Nobody},
           ownerOf' = [ownerOf EXCEPT ![t] = to]
    PROVE  /\ ownerOf' \in [BunnzId -> Holder \cup {Nobody}]
           /\ OwnedBy(ownerOf', to) = OwnedBy(ownerOf, to) \cup {t}
           /\ \A a : a # to => OwnedBy(ownerOf', a) = OwnedBy(ownerOf, a) \ {t}
           /\ Minted(ownerOf') = IF to = Nobody THEN Minted(ownerOf) \ {t}
                                                ELSE Minted(ownerOf) \cup {t}
BY DEF LedgerInv, OwnedBy, Minted

LEMMA MintInv ==
    ASSUME LedgerInv, NEW to \in Holder, NEW t \in BunnzId, Mint(to, t)
    PROVE  LedgerInv'
<1>1. /\ ownerOf[t] = Nobody /\ ownerOf' = [ownerOf EXCEPT ![t] = to]
      /\ balanceOf' = [balanceOf EXCEPT ![to] = balanceOf[to] + 1]
      /\ ownedTokens' = [ownedTokens EXCEPT ![to] = Write(ownedTokens[to], balanceOf[to], t)]
      /\ ownedTokensIndex' = Write(ownedTokensIndex, t, balanceOf[to])
      /\ allTokens' = Append(allTokens, t)
      /\ allTokensIndex' = Write(allTokensIndex, t, Len(allTokens))
  BY DEF Mint, OwnedWith, IndexWith
<1>2. to # Nobody /\ t \notin Minted(ownerOf) /\ \A a \in Holder : t \notin OwnedBy(ownerOf, a)
  BY <1>1, CollectionAssumption DEF Minted, OwnedBy
<1>3. /\ ownerOf' \in [BunnzId -> Holder \cup {Nobody}]
      /\ OwnedBy(ownerOf', to) = OwnedBy(ownerOf, to) \cup {t}
      /\ \A a : a # to => OwnedBy(ownerOf', a) = OwnedBy(ownerOf, a) \ {t}
      /\ Minted(ownerOf') = Minted(ownerOf) \cup {t}
  BY <1>1, <1>2, OwnerChanges
<1>4. /\ balanceOf' \in [Holder -> Nat] /\ balanceOf'[to] = balanceOf[to] + 1
      /\ \A a \in Holder \ {to} : balanceOf'[a] = balanceOf[a]
  BY <1>1 DEF LedgerInv
<1>5. /\ ownedTokens' = [a \in Holder |-> ownedTokens'[a]]
      /\ ListOK(ownedTokens'[to], ownedTokensIndex', balanceOf[to] + 1, OwnedBy(ownerOf, to) \cup {t})
      /\ \A a \in Holder \ {to} :
            ListOK(ownedTokens'[a], ownedTokensIndex', balanceOf[a], OwnedBy(ownerOf, a))
  BY <1>1, <1>2, JoinsList DEF LedgerInv
<1>6. \A a \in Holder \ {to} : OwnedBy(ownerOf', a) = OwnedBy(ownerOf, a)
  BY <1>2, <1>3
<1>7. \A a \in Holder : ListOK(ownedTokens'[a], ownedTokensIndex', balanceOf'[a], OwnedBy(ownerOf', a))
  BY <1>3, <1>4, <1>5, <1>6
<1>8. AllOK(allTokens', allTokensIndex', Minted(ownerOf'))
  <2>1. AllOK(allTokens, allTokensIndex, Minted(ownerOf))
    BY DEF LedgerInv
  <2>2. AllOK(Append(allTokens, t), Write(allTokensIndex, t, Len(allTokens)), Minted(ownerOf) \cup {t})
    BY <1>2, <2>1, AllAdd
  <2> QED
    BY <1>1, <1>3, <2>2
<1>9. \A a : OwnedBy(ownerOf, a)' = OwnedBy(ownerOf', a)
  BY DEF OwnedBy
<1> QED
  BY <1>3, <1>4, <1>5, <1>7, <1>8 DEF LedgerInv, OwnedBy, Minted, ListOK, AllOK

LEMMA TransferInv ==
    ASSUME LedgerInv, NEW t \in BunnzId, NEW to \in Holder, Transfer(t, to)
    PROVE  LedgerInv'
<1> DEFINE from == ownerOf[t]
           lists == OwnedWithout(from, t)
           index == IndexWithout(from, t)
           owner == [ownerOf EXCEPT ![t] = Nobody]
           counts == [balanceOf EXCEPT ![from] = balanceOf[from] - 1]
<1>1. /\ from \in Holder /\ from # to /\ ownerOf' = [ownerOf EXCEPT ![t] = to]
      /\ balanceOf' = [balanceOf EXCEPT ![from] = balanceOf[from] - 1, ![to] = balanceOf[to] + 1]
      /\ UNCHANGED <<allTokens, allTokensIndex>>
  BY DEF Transfer, LedgerInv
<1>2. /\ ownedTokens' = [lists EXCEPT ![to] = Write(lists[to], balanceOf[to], t)]
      /\ ownedTokensIndex' = Write(index, t, balanceOf[to])
  BY DEF Transfer, OwnedWith, IndexWith
<1>3. /\ lists = [a \in Holder |-> lists[a]] /\ balanceOf[from] - 1 \in Nat
      /\ ListOK(lists[from], index, balanceOf[from] - 1, OwnedBy(ownerOf, from) \ {t})
      /\ \A a \in Holder \ {from} : ListOK(lists[a], index, balanceOf[a], OwnedBy(ownerOf, a))
  BY <1>1, LeavesList
<1> HIDE DEF lists, index
<1>4. \A a \in Holder : /\ t \notin OwnedBy(owner, a)
                        /\ OwnedBy(owner, a) = OwnedBy(ownerOf, a) \ {t}
                        /\ a # from => OwnedBy(owner, a) = OwnedBy(ownerOf, a)
  BY CollectionAssumption DEF OwnedBy, LedgerInv
<1>5. /\ counts[from] = balanceOf[from] - 1
      /\ \A a \in Holder \ {from} : counts[a] = balanceOf[a]
  BY <1>1 DEF LedgerInv
<1> HIDE DEF owner, counts
<1>6. \A a \in Holder : ListOK(lists[a], index, counts[a], OwnedBy(owner, a))
  BY <1>3, <1>4, <1>5
<1>7. /\ ownedTokens' = [lists EXCEPT ![to] = Write(lists[to], counts[to], t)]
      /\ ownedTokensIndex' = Write(index, t, counts[to])
  BY <1>1, <1>2, <1>5
<1>8. /\ ownedTokens' = [a \in Holder |-> ownedTokens'[a]]
      /\ ListOK(ownedTokens'[to], ownedTokensIndex', counts[to] + 1, OwnedBy(owner, to) \cup {t})
      /\ \A a \in Holder \ {to} :
            ListOK(ownedTokens'[a], ownedTokensIndex', counts[a], OwnedBy(owner, a))
  BY <1>3, <1>4, <1>6, <1>7, JoinsList
<1>9. /\ ownerOf' \in [BunnzId -> Holder \cup {Nobody}]
      /\ OwnedBy(ownerOf', to) = OwnedBy(ownerOf, to) \cup {t}
      /\ \A a : a # to => OwnedBy(ownerOf', a) = OwnedBy(ownerOf, a) \ {t}
      /\ Minted(ownerOf') = Minted(ownerOf) \cup {t}
  BY <1>1, CollectionAssumption, OwnerChanges
<1>10. /\ OwnedBy(ownerOf', to) = OwnedBy(owner, to) \cup {t}
       /\ \A a \in Holder \ {to} : OwnedBy(ownerOf', a) = OwnedBy(owner, a)
  BY <1>4, <1>9
<1>11. /\ balanceOf' \in [Holder -> Nat] /\ balanceOf'[to] = counts[to] + 1
       /\ \A a \in Holder \ {to} : balanceOf'[a] = counts[a]
  <2>1. balanceOf \in [Holder -> Nat]
    BY DEF LedgerInv
  <2> HIDE DEF from
  <2> QED
    BY <1>1, <1>3, <1>5, <2>1
<1>12. \A a \in Holder : ListOK(ownedTokens'[a], ownedTokensIndex', balanceOf'[a], OwnedBy(ownerOf', a))
  BY <1>8, <1>10, <1>11
<1>13. Minted(ownerOf') = Minted(ownerOf)
  BY <1>1, <1>9, CollectionAssumption DEF Minted
<1>14. AllOK(allTokens', allTokensIndex', Minted(ownerOf'))
  BY <1>1, <1>13 DEF LedgerInv
<1> QED
  BY <1>8, <1>9, <1>11, <1>12, <1>14 DEF LedgerInv, OwnedBy, Minted, ListOK, AllOK

LEMMA BurnInv ==
    ASSUME LedgerInv, NEW t \in BunnzId, Burn(t)
    PROVE  LedgerInv'
<1> DEFINE from == ownerOf[t]
<1>1. /\ from \in Holder /\ ownerOf' = [ownerOf EXCEPT ![t] = Nobody]
      /\ balanceOf' = [balanceOf EXCEPT ![from] = balanceOf[from] - 1]
      /\ ownedTokens' = OwnedWithout(from, t) /\ ownedTokensIndex' = IndexWithout(from, t)
  BY DEF Burn, LedgerInv
<1>2. /\ allTokens' = SubSeq([allTokens EXCEPT ![Read(allTokensIndex, t) + 1] =
                                 allTokens[Len(allTokens)]], 1, Len(allTokens) - 1)
      /\ allTokensIndex' = Delete(Write(allTokensIndex, allTokens[Len(allTokens)],
                                        Read(allTokensIndex, t)), t)
  BY DEF Burn
<1>3. /\ ownedTokens' = [a \in Holder |-> ownedTokens'[a]] /\ balanceOf[from] - 1 \in Nat
      /\ ListOK(ownedTokens'[from], ownedTokensIndex', balanceOf[from] - 1, OwnedBy(ownerOf, from) \ {t})
      /\ \A a \in Holder \ {from} :
            ListOK(ownedTokens'[a], ownedTokensIndex', balanceOf[a], OwnedBy(ownerOf, a))
  BY <1>1, LeavesList
<1>4. /\ ownerOf' \in [BunnzId -> Holder \cup {Nobody}]
      /\ \A a \in Holder : OwnedBy(ownerOf', a) = OwnedBy(ownerOf, a) \ {t}
      /\ Minted(ownerOf') = Minted(ownerOf) \ {t}
  BY <1>1, CollectionAssumption, OwnerChanges
<1>5. \A a \in Holder \ {from} : t \notin OwnedBy(ownerOf, a)
  BY DEF OwnedBy
<1>6. \A a \in Holder \ {from} : OwnedBy(ownerOf', a) = OwnedBy(ownerOf, a)
  BY <1>4, <1>5
<1>7. t \in Minted(ownerOf) /\ AllOK(allTokens, allTokensIndex, Minted(ownerOf))
  BY <1>1, CollectionAssumption DEF Minted, LedgerInv
<1>8. AllOK(allTokens', allTokensIndex', Minted(ownerOf'))
  <2> DEFINE S == Minted(ownerOf)
  <2>1. AllOK(allTokens, allTokensIndex, S) /\ t \in S /\ Minted(ownerOf') = S \ {t}
    BY <1>4, <1>7
  <2> HIDE DEF S
  <2>2. AllOK(SubSeq([allTokens EXCEPT ![Read(allTokensIndex, t) + 1] =
                          allTokens[Len(allTokens)]], 1, Len(allTokens) - 1),
              Delete(Write(allTokensIndex, allTokens[Len(allTokens)],
                           Read(allTokensIndex, t)), t), S \ {t})
    BY <2>1, AllRemove
  <2> QED
    BY <1>2, <2>1, <2>2
<1>9. /\ balanceOf' \in [Holder -> Nat] /\ balanceOf'[from] = balanceOf[from] - 1
      /\ \A a \in Holder \ {from} : balanceOf'[a] = balanceOf[a]
  <2>1. balanceOf \in [Holder -> Nat]
    BY DEF LedgerInv
  <2> HIDE DEF from
  <2> QED
    BY <1>1, <1>3, <2>1
<1>10. \A a \in Holder : ListOK(ownedTokens'[a], ownedTokensIndex', balanceOf'[a], OwnedBy(ownerOf', a))
  BY <1>3, <1>4, <1>6, <1>9
<1> QED
  BY <1>3, <1>4, <1>8, <1>9, <1>10 DEF LedgerInv, OwnedBy, Minted, ListOK, AllOK

------------------------------------------------------------------------------
\* 4. The counters of the airdrops.

\* owed[k] tokens are left to the airdrops outside the k-th, and uncounted[k]
\* were minted by them: both start at 0 outside the outermost.
Owing(running, owed, uncounted) ==
    /\ owed \in [1..(Len(running) + 1) -> Nat]
    /\ uncounted \in [1..(Len(running) + 1) -> Int]
    /\ owed[1] = 0 /\ uncounted[1] = 0
    /\ \A k \in 1..Len(running) :
          /\ owed[k + 1] = owed[k] + Len(running[k].todo)
          /\ uncounted[k + 1] = uncounted[k] + running[k].total - Len(running[k].todo)

Running == [todo : Seq(Holder \X BunnzId), total : Nat]

\* All that was minted and is not yet in mintedSupply is due to the running
\* airdrops, and what they are still to mint stays within the cap.
DropInv ==
    /\ airdropped \in Nat /\ mintedSupply \in Nat /\ nested \in Nat
    /\ airdrops \in Seq(Running)
    /\ \E owed, uncounted :
          /\ Owing(airdrops, owed, uncounted)
          /\ airdropped = mintedSupply + uncounted[Len(airdrops) + 1]
          /\ airdropped + owed[Len(airdrops) + 1] <= MaxSupply + nested

CollectionInv == LedgerInv /\ DropInv

\* An airdrop begins: what its first turn left over is owed, its first token
\* uncounted.
LEMMA OwingPush ==
    ASSUME NEW running \in Seq(Running), NEW owed, NEW uncounted, Owing(running, owed, uncounted),
           NEW frame \in Running
    PROVE  \E o, u :
              /\ Owing(Append(running, frame), o, u)
              /\ o[Len(Append(running, frame)) + 1] = owed[Len(running) + 1] + Len(frame.todo)
              /\ u[Len(Append(running, frame)) + 1] =
                    uncounted[Len(running) + 1] + frame.total - Len(frame.todo)
<1> DEFINE n == Len(running)
           more == Append(running, frame)
           o == [k \in 1..(n + 2) |-> IF k = n + 2 THEN owed[n + 1] + Len(frame.todo) ELSE owed[k]]
           u == [k \in 1..(n + 2) |-> IF k = n + 2 THEN uncounted[n + 1] + frame.total - Len(frame.todo)
                                      ELSE uncounted[k]]
<1>1. n \in Nat /\ Len(more) = n + 1 /\ more[n + 1] = frame /\ \A k \in 1..n : more[k] = running[k]
  OBVIOUS
<1>2. Len(frame.todo) \in Nat /\ frame.total \in Nat
  BY DEF Running
<1>3. owed \in [1..(n + 1) -> Nat] /\ uncounted \in [1..(n + 1) -> Int]
      /\ owed[1] = 0 /\ uncounted[1] = 0
      /\ \A k \in 1..n : /\ owed[k + 1] = owed[k] + Len(running[k].todo)
                         /\ uncounted[k + 1] = uncounted[k] + running[k].total - Len(running[k].todo)
  BY DEF Owing
<1> HIDE DEF n, more
<1>4. o \in [1..(n + 2) -> Nat] /\ u \in [1..(n + 2) -> Int]
  BY <1>1, <1>2, <1>3
<1>5. /\ o[n + 2] = owed[n + 1] + Len(frame.todo)
      /\ u[n + 2] = uncounted[n + 1] + frame.total - Len(frame.todo)
      /\ \A k \in 1..(n + 1) : o[k] = owed[k] /\ u[k] = uncounted[k]
  BY <1>1
<1> HIDE DEF o, u
<1>6. o[1] = 0 /\ u[1] = 0
  BY <1>1, <1>3, <1>5
<1>7. ASSUME NEW k \in 1..(n + 1)
      PROVE  /\ o[k + 1] = o[k] + Len(more[k].todo)
             /\ u[k + 1] = u[k] + more[k].total - Len(more[k].todo)
  <2>1. CASE k = n + 1
    <3>1. k + 1 = n + 2
      BY <1>1, <2>1
    <3> QED
      BY <1>1, <1>5, <2>1, <3>1
  <2>2. CASE k # n + 1
    <3>1. k \in 1..n /\ k + 1 \in 1..(n + 1)
      BY <1>1, <2>2
    <3> QED
      BY <1>1, <1>3, <1>5, <3>1
  <2> QED
    BY <2>1, <2>2
<1>8. Len(more) + 1 = n + 2
  BY <1>1
<1>9. Owing(more, o, u)
  BY <1>1, <1>4, <1>6, <1>7, <1>8 DEF Owing
<1>10. \E p, q :
          /\ Owing(more, p, q)
          /\ p[Len(more) + 1] = owed[n + 1] + Len(frame.todo)
          /\ q[Len(more) + 1] = uncounted[n + 1] + frame.total - Len(frame.todo)
  BY <1>4, <1>5, <1>8, <1>9
<1> QED
  BY <1>10 DEF n, more

\* An airdrop returns: the others owe what they did.
LEMMA OwingPop ==
    ASSUME NEW running \in Seq(Running), running # <<>>, NEW owed, NEW uncounted,
           Owing(running, owed, uncounted)
    PROVE  LET n == Len(running)
               rest == SubSeq(running, 1, n - 1)
           IN  /\ rest \in Seq(Running) /\ Len(rest) = n - 1
               /\ running[n] \in Running
               /\ owed[n] \in Nat /\ uncounted[n] \in Int
               /\ owed[n + 1] = owed[n] + Len(running[n].todo)
               /\ uncounted[n + 1] = uncounted[n] + running[n].total - Len(running[n].todo)
               /\ \E o, u :
                     Owing(rest, o, u) /\ o[n] = owed[n] /\ u[n] = uncounted[n]
<1> DEFINE n == Len(running)
           rest == SubSeq(running, 1, n - 1)
           o == [k \in 1..n |-> owed[k]]
           u == [k \in 1..n |-> uncounted[k]]
<1>1. n \in Nat /\ n # 0
  OBVIOUS
<1>2. /\ rest \in Seq(Running) /\ Len(rest) = n - 1 /\ \A k \in 1..(n - 1) : rest[k] = running[k]
      /\ running[n] \in Running
  <2>1. n \in 1..n /\ 1..(n - 1) \subseteq 1..n /\ n - 1 \in Nat /\ n = Len(running)
    BY <1>1
  <2> HIDE DEF n
  <2>2. /\ rest \in Seq(Running) /\ Len(rest) = n - 1
    BY <2>1
  <2>3. ASSUME NEW k \in 1..(n - 1) PROVE rest[k] = running[k]
    BY <2>1
  <2>4. running[n] \in Running
    BY <2>1
  <2> QED
    BY <2>2, <2>3, <2>4
<1>3. owed \in [1..(n + 1) -> Nat] /\ uncounted \in [1..(n + 1) -> Int]
      /\ owed[1] = 0 /\ uncounted[1] = 0
      /\ \A k \in 1..n : /\ owed[k + 1] = owed[k] + Len(running[k].todo)
                         /\ uncounted[k + 1] = uncounted[k] + running[k].total - Len(running[k].todo)
  BY DEF Owing
<1> HIDE DEF n, rest
<1>4. n \in 1..n /\ n \in 1..(n + 1) /\ 1 \in 1..n /\ (n - 1) + 1 = n
  BY <1>1
<1>5. /\ o \in [1..n -> Nat] /\ u \in [1..n -> Int]
      /\ \A k \in 1..n : o[k] = owed[k] /\ u[k] = uncounted[k]
  BY <1>1, <1>3
<1> HIDE DEF o, u
<1>6. ASSUME NEW k \in 1..(n - 1)
      PROVE  /\ o[k + 1] = o[k] + Len(rest[k].todo)
             /\ u[k + 1] = u[k] + rest[k].total - Len(rest[k].todo)
  <2>1. k \in 1..n /\ k + 1 \in 1..n
    BY <1>1
  <2> QED
    BY <1>2, <1>3, <1>5, <2>1
<1>7. Owing(rest, o, u)
  BY <1>2, <1>3, <1>4, <1>5, <1>6 DEF Owing
<1>8. \E p, q : Owing(rest, p, q) /\ p[n] = owed[n] /\ q[n] = uncounted[n]
  BY <1>4, <1>5, <1>7
<1> QED
  BY <1>2, <1>3, <1>4, <1>8 DEF n, rest

LEMMA DropKept ==
    ASSUME DropInv, UNCHANGED drops
    PROVE  DropInv'
BY DEF DropInv, drops, Owing

LEMMA LedgerKept ==
    ASSUME LedgerInv, UNCHANGED ledger
    PROVE  LedgerInv'
BY DEF ledger, LedgerInv, OwnedBy, Minted, ListOK, AllOK

LEMMA StartAirdropInv ==
    ASSUME CollectionInv, NEW n \in 1..MaxBatch, NEW batch \in [1..n -> Holder \X BunnzId],
           StartAirdrop(batch)
    PROVE  CollectionInv'
<1> DEFINE frame == [todo |-> Tail(batch), total |-> n]
           depth == Len(airdrops)
<1>1. batch \in Seq(Holder \X BunnzId) /\ Len(batch) = n /\ n \in Nat \ {0} /\ batch # <<>>
  BY CollectionAssumption
<1>2. batch[1] \in Holder \X BunnzId /\ Tail(batch) \in Seq(Holder \X BunnzId)
      /\ Len(Tail(batch)) = n - 1
  BY <1>1
<1>3. batch[1][1] \in Holder /\ batch[1][2] \in BunnzId
  BY <1>2
<1>4. LedgerInv'
  BY <1>3, MintInv DEF StartAirdrop, Drop, CollectionInv
<1>5. /\ airdrops' = Append(airdrops, frame) /\ airdropped' = airdropped + 1
      /\ mintedSupply' = mintedSupply /\ mintedSupply + n <= MaxSupply
      /\ nested' = IF airdrops = <<>> THEN nested ELSE nested + n
  BY <1>1 DEF StartAirdrop, Drop, WithinCap
<1>6. /\ frame \in Running /\ Len(frame.todo) = n - 1 /\ frame.total = n
  BY <1>1, <1>2 DEF Running
<1> HIDE DEF frame
<1>7. /\ airdropped \in Nat /\ mintedSupply \in Nat /\ nested \in Nat /\ MaxSupply \in Nat
      /\ airdrops \in Seq(Running) /\ depth \in Nat
  BY CollectionAssumption DEF CollectionInv, DropInv
<1>8. PICK owed, uncounted :
         /\ Owing(airdrops, owed, uncounted)
         /\ airdropped = mintedSupply + uncounted[depth + 1]
         /\ airdropped + owed[depth + 1] <= MaxSupply + nested
  BY DEF CollectionInv, DropInv
<1>9. owed[depth + 1] \in Nat /\ uncounted[depth + 1] \in Int
      /\ (airdrops = <<>> => owed[depth + 1] = 0 /\ uncounted[depth + 1] = 0)
  BY <1>7, <1>8 DEF Owing
<1>10. PICK o, u :
          /\ Owing(airdrops', o, u)
          /\ o[Len(airdrops') + 1] = owed[depth + 1] + (n - 1)
          /\ u[Len(airdrops') + 1] = uncounted[depth + 1] + n - (n - 1)
  BY <1>5, <1>6, <1>7, <1>8, OwingPush
<1> HIDE DEF depth
<1>11. airdropped' = mintedSupply' + u[Len(airdrops') + 1]
  BY <1>1, <1>5, <1>7, <1>8, <1>9, <1>10
<1>12. airdropped' + o[Len(airdrops') + 1] = airdropped + owed[depth + 1] + n
  <2>1. /\ airdropped' = airdropped + 1 /\ airdropped \in Nat
        /\ o[Len(airdrops') + 1] = owed[depth + 1] + (n - 1)
    BY <1>5, <1>7, <1>10
  <2>2. owed[depth + 1] \in Nat /\ n \in Nat
    BY <1>1, <1>9
  <2> QED
    BY <2>1, <2>2
<1>13. airdropped' + o[Len(airdrops') + 1] <= MaxSupply + nested'
  <2>1. CASE airdrops = <<>>
    <3>1. airdropped = mintedSupply /\ owed[depth + 1] = 0 /\ nested' = nested
      BY <1>5, <1>7, <1>8, <1>9, <2>1
    <3> QED
      BY <1>1, <1>5, <1>7, <1>12, <3>1
  <2>2. CASE airdrops # <<>>
    <3>1. nested' = nested + n
      BY <1>5, <2>2
    <3> QED
      BY <1>1, <1>7, <1>8, <1>9, <1>12, <3>1
  <2> QED
    BY <2>1, <2>2
<1>14. airdropped' \in Nat /\ mintedSupply' \in Nat /\ nested' \in Nat /\ airdrops' \in Seq(Running)
  BY <1>1, <1>5, <1>6, <1>7
<1>15. DropInv'
  BY <1>10, <1>11, <1>13, <1>14 DEF DropInv
<1> QED
  BY <1>4, <1>15 DEF CollectionInv

LEMMA AirdropNextInv ==
    ASSUME CollectionInv, AirdropNext
    PROVE  CollectionInv'
<1> DEFINE depth == Len(airdrops)
           todo == airdrops[depth].todo
           total == airdrops[depth].total
           frame == [todo |-> Tail(todo), total |-> total]
           rest == SubSeq(airdrops, 1, depth - 1)
<1>1. /\ airdropped \in Nat /\ mintedSupply \in Nat /\ nested \in Nat /\ MaxSupply \in Nat
      /\ airdrops \in Seq(Running) /\ airdrops # <<>> /\ depth \in Nat \ {0}
  BY CollectionAssumption DEF AirdropNext, CollectionInv, DropInv
<1>2. PICK owed, uncounted :
         /\ Owing(airdrops, owed, uncounted)
         /\ airdropped = mintedSupply + uncounted[depth + 1]
         /\ airdropped + owed[depth + 1] <= MaxSupply + nested
  BY DEF CollectionInv, DropInv
<1>3. /\ todo # <<>> /\ airdropped' = airdropped + 1
      /\ UNCHANGED <<mintedSupply, nested>>
      /\ airdrops' = [airdrops EXCEPT ![depth] = frame]
  BY DEF AirdropNext, Drop, Innermost
<1>4. /\ rest \in Seq(Running) /\ Len(rest) = depth - 1
      /\ airdrops[depth] \in Running
      /\ owed[depth] \in Nat /\ uncounted[depth] \in Int
      /\ owed[depth + 1] = owed[depth] + Len(todo)
      /\ uncounted[depth + 1] = uncounted[depth] + total - Len(todo)
  BY <1>1, <1>2, OwingPop
<1>5. PICK o, u :
         Owing(rest, o, u) /\ o[depth] = owed[depth] /\ u[depth] = uncounted[depth]
  BY <1>1, <1>2, OwingPop
<1>6. /\ todo \in Seq(Holder \X BunnzId) /\ total \in Nat
  BY <1>4 DEF Running
<1> HIDE DEF todo, total
<1>7. /\ Head(todo) \in Holder \X BunnzId /\ Tail(todo) \in Seq(Holder \X BunnzId)
      /\ Len(todo) \in Nat \ {0} /\ Len(Tail(todo)) = Len(todo) - 1
  BY <1>3, <1>6
<1>8. Head(todo)[1] \in Holder /\ Head(todo)[2] \in BunnzId
  BY <1>7
<1>9. Mint(Head(todo)[1], Head(todo)[2])
  BY DEF AirdropNext, Drop, Innermost, todo
<1>10. LedgerInv'
  BY <1>8, <1>9, MintInv DEF CollectionInv
<1>11. frame \in Running /\ Len(frame.todo) = Len(todo) - 1 /\ frame.total = total
  BY <1>6, <1>7 DEF Running
<1> HIDE DEF frame
<1>12. airdrops' = Append(rest, frame)
  <2>1. /\ airdrops' \in Seq(Running) /\ Len(airdrops') = depth
        /\ airdrops'[depth] = frame /\ \A k \in 1..(depth - 1) : airdrops'[k] = airdrops[k]
    BY <1>1, <1>3, <1>11
  <2>2. \A k \in 1..(depth - 1) : rest[k] = airdrops[k]
    BY <1>1
  <2> HIDE DEF rest, depth
  <2>3. /\ Append(rest, frame) \in Seq(Running) /\ Len(Append(rest, frame)) = depth
        /\ Append(rest, frame)[depth] = frame
        /\ \A k \in 1..(depth - 1) : Append(rest, frame)[k] = rest[k]
    BY <1>1, <1>4, <1>11
  <2>4. \A k \in 1..depth : airdrops'[k] = Append(rest, frame)[k]
    BY <1>1, <2>1, <2>2, <2>3
  <2> QED
    BY <2>1, <2>3, <2>4
<1> HIDE DEF rest, depth
<1>13. PICK p, q :
          /\ Owing(airdrops', p, q)
          /\ p[Len(airdrops') + 1] = o[depth] + (Len(todo) - 1)
          /\ q[Len(airdrops') + 1] = u[depth] + total - (Len(todo) - 1)
  <2>1. Len(rest) + 1 = depth
    BY <1>1, <1>4
  <2>2. \E p, q :
           /\ Owing(Append(rest, frame), p, q)
           /\ p[Len(Append(rest, frame)) + 1] = o[Len(rest) + 1] + Len(frame.todo)
           /\ q[Len(Append(rest, frame)) + 1] = u[Len(rest) + 1] + frame.total - Len(frame.todo)
    <3>1. rest \in Seq(Running) /\ frame \in Running /\ Owing(rest, o, u)
      BY <1>4, <1>5, <1>11
    <3> QED
      BY <3>1, OwingPush
  <2> QED
    BY <1>11, <1>12, <2>1, <2>2
<1>14. airdropped' = mintedSupply' + q[Len(airdrops') + 1]
  <2>1. q[Len(airdrops') + 1] = uncounted[depth + 1] + 1
    BY <1>4, <1>5, <1>6, <1>7, <1>13
  <2>2. uncounted[depth + 1] \in Int
    BY <1>4, <1>6, <1>7
  <2> QED
    BY <1>1, <1>2, <1>3, <2>1, <2>2
<1>15. airdropped' + p[Len(airdrops') + 1] <= MaxSupply + nested'
  BY <1>1, <1>2, <1>3, <1>4, <1>5, <1>7, <1>13
<1>16. airdropped' \in Nat /\ mintedSupply' \in Nat /\ nested' \in Nat /\ airdrops' \in Seq(Running)
  BY <1>1, <1>3, <1>4, <1>11, <1>12
<1>17. DropInv'
  BY <1>13, <1>14, <1>15, <1>16 DEF DropInv
<1> QED
  BY <1>10, <1>17 DEF CollectionInv

LEMMA AirdropReturnsInv ==
    ASSUME CollectionInv, AirdropReturns
    PROVE  CollectionInv'
<1> DEFINE depth == Len(airdrops)
           total == airdrops[depth].total
           rest == SubSeq(airdrops, 1, depth - 1)
<1>1. LedgerInv'
  BY LedgerKept DEF AirdropReturns, CollectionInv
<1>2. /\ airdropped \in Nat /\ mintedSupply \in Nat /\ nested \in Nat /\ MaxSupply \in Nat
      /\ airdrops \in Seq(Running) /\ airdrops # <<>> /\ depth \in Nat \ {0}
  BY CollectionAssumption DEF AirdropReturns, CollectionInv, DropInv
<1>3. PICK owed, uncounted :
         /\ Owing(airdrops, owed, uncounted)
         /\ airdropped = mintedSupply + uncounted[depth + 1]
         /\ airdropped + owed[depth + 1] <= MaxSupply + nested
  BY DEF CollectionInv, DropInv
<1>4. /\ airdrops[depth].todo = <<>> /\ mintedSupply' = mintedSupply + total
      /\ airdrops' = rest /\ UNCHANGED <<airdropped, nested>>
  BY DEF AirdropReturns, Innermost
<1>5. /\ rest \in Seq(Running) /\ Len(rest) = depth - 1
      /\ airdrops[depth] \in Running
      /\ owed[depth] \in Nat /\ uncounted[depth] \in Int
      /\ owed[depth + 1] = owed[depth] + Len(airdrops[depth].todo)
      /\ uncounted[depth + 1] = uncounted[depth] + total - Len(airdrops[depth].todo)
  BY <1>2, <1>3, OwingPop
<1>6. PICK o, u :
         Owing(rest, o, u) /\ o[depth] = owed[depth] /\ u[depth] = uncounted[depth]
  BY <1>2, <1>3, OwingPop
<1>7. total \in Nat
  BY <1>5 DEF Running
<1> HIDE DEF total, rest, depth
<1>8. owed[depth + 1] = owed[depth] /\ uncounted[depth + 1] = uncounted[depth] + total
  <2>1. Len(airdrops[depth].todo) = 0
    BY <1>4
  <2> QED
    BY <1>5, <1>7, <2>1
<1>9. Len(airdrops') + 1 = depth
  BY <1>2, <1>4, <1>5
<1>10. airdropped' = mintedSupply' + u[depth] /\ airdropped' + o[depth] <= MaxSupply + nested'
  BY <1>2, <1>3, <1>4, <1>5, <1>6, <1>7, <1>8
<1>11. airdropped' \in Nat /\ mintedSupply' \in Nat /\ nested' \in Nat /\ airdrops' \in Seq(Running)
  BY <1>2, <1>4, <1>5, <1>7
<1>12. DropInv'
  BY <1>4, <1>6, <1>9, <1>10, <1>11 DEF DropInv
<1> QED
  BY <1>1, <1>12 DEF CollectionInv

LEMMA CollectionInitInv == CollectionInit => CollectionInv
<1> SUFFICES ASSUME CollectionInit PROVE CollectionInv
  OBVIOUS
<1> DEFINE zero == [k \in 1..1 |-> 0]
<1>1. airdrops = <<>> /\ Len(airdrops) = 0 /\ airdrops \in Seq(Running)
  BY DEF CollectionInit
<1>2. zero \in [1..1 -> Nat] /\ zero \in [1..1 -> Int] /\ zero[1] = 0
  OBVIOUS
<1> HIDE DEF zero
<1>3. Owing(airdrops, zero, zero)
  BY <1>1, <1>2 DEF Owing
<1>4. airdropped = 0 /\ mintedSupply = 0 /\ nested = 0 /\ MaxSupply \in Nat
  BY CollectionAssumption DEF CollectionInit
<1>5. DropInv
  BY <1>1, <1>2, <1>3, <1>4 DEF DropInv
<1> QED
  BY <1>5, LedgerInitInv DEF CollectionInv

LEMMA CollectionStepInv == CollectionInv /\ [CollectionNext]_bunnzVars => CollectionInv'
<1> SUFFICES ASSUME CollectionInv, [CollectionNext]_bunnzVars PROVE CollectionInv'
  OBVIOUS
<1>1. ASSUME NEW t \in BunnzId, NEW to \in Holder, Transfer(t, to) PROVE CollectionInv'
  BY <1>1, TransferInv, DropKept DEF Transfer, CollectionInv
<1>2. ASSUME NEW bridge \in Holder, SetBridgeAddress(bridge) PROVE CollectionInv'
  BY <1>2, LedgerKept, DropKept DEF SetBridgeAddress, CollectionInv
<1>3. ASSUME NEW caller \in Holder, NEW to \in Holder, NEW t \in BunnzId, BridgeMint(caller, to, t)
      PROVE  CollectionInv'
  BY <1>3, MintInv, DropKept DEF BridgeMint, CollectionInv
<1>4. ASSUME NEW caller \in Holder, NEW t \in BunnzId, BridgeBurn(caller, t) PROVE CollectionInv'
  BY <1>4, BurnInv, DropKept DEF BridgeBurn, CollectionInv
<1>5. ASSUME NEW n \in 1..MaxBatch, NEW batch \in [1..n -> Holder \X BunnzId], StartAirdrop(batch)
      PROVE  CollectionInv'
  BY <1>5, StartAirdropInv
<1>6. CASE AirdropNext
  BY <1>6, AirdropNextInv
<1>7. CASE AirdropReturns
  BY <1>7, AirdropReturnsInv
<1>8. CASE UNCHANGED bunnzVars
  BY <1>8, LedgerKept, DropKept DEF bunnzVars, CollectionInv
<1> QED
  BY <1>1, <1>2, <1>3, <1>4, <1>5, <1>6, <1>7, <1>8 DEF CollectionNext

\* The invariant holds in every behaviour of the collection.
THEOREM CollectionInvariant == CollectionSpec => []CollectionInv
BY CollectionInitInv, CollectionStepInv, PTL DEF CollectionSpec

\* The enumeration of every holder, and that of all tokens, lists exactly the
\* tokens the ERC-721 base knows, each at the index kept for it: through
\* mints, transfers and burns in any order, also of a holder's last token.
THEOREM EnumerationKept == CollectionSpec => []EnumerationMatches
<1>1. LedgerInv => EnumerationMatches
  <2> SUFFICES ASSUME LedgerInv PROVE EnumerationMatches
    OBVIOUS
  <2>1. ASSUME NEW a \in Holder
        PROVE  /\ DOMAIN ownedTokens[a] = 0..(balanceOf[a] - 1)
               /\ \A i \in DOMAIN ownedTokens[a] :
                     /\ ownerOf[ownedTokens[a][i]] = a
                     /\ Read(ownedTokensIndex, ownedTokens[a][i]) = i
               /\ \A t \in BunnzId :
                     ownerOf[t] = a => \E i \in DOMAIN ownedTokens[a] : ownedTokens[a][i] = t
    BY DEF LedgerInv, ListOK, OwnedBy
  <2>2. AllOK(allTokens, allTokensIndex, Minted(ownerOf)) /\ DOMAIN allTokens = 1..Len(allTokens)
    BY DEF LedgerInv, AllOK
  <2>3. \A i \in DOMAIN allTokens :
          ownerOf[allTokens[i]] # Nobody /\ Read(allTokensIndex, allTokens[i]) = i - 1
    BY <2>2 DEF AllOK, Minted
  <2>4. ASSUME NEW t \in BunnzId, ownerOf[t] # Nobody
        PROVE  \E i \in DOMAIN allTokens : allTokens[i] = t
    <3>1. Read(allTokensIndex, t) \in 0..(Len(allTokens) - 1)
          /\ allTokens[Read(allTokensIndex, t) + 1] = t
      BY <2>2, <2>4 DEF AllOK, Minted
    <3>2. Len(allTokens) \in Nat
      BY <2>2 DEF AllOK
    <3>3. Read(allTokensIndex, t) + 1 \in DOMAIN allTokens
      BY <2>2, <3>1, <3>2
    <3> QED
      BY <3>1, <3>3
  <2> QED
    BY <2>1, <2>3, <2>4 DEF EnumerationMatches
<1> QED
  BY <1>1, CollectionInvariant, PTL DEF CollectionInv

\* Once no airdrop runs, mintedSupply counts every airdropped token, however
\* many airdrops ran inside each other.
THEOREM SupplyCounted == CollectionSpec => []MintedSupplyExact
<1>1. DropInv => MintedSupplyExact
  <2> SUFFICES ASSUME DropInv, airdrops = <<>> PROVE mintedSupply = airdropped
    BY DEF MintedSupplyExact
  <2>1. PICK owed, uncounted :
           Owing(airdrops, owed, uncounted) /\ airdropped = mintedSupply + uncounted[Len(airdrops) + 1]
    BY DEF DropInv
  <2>2. Len(airdrops) + 1 = 1 /\ uncounted[1] = 0 /\ mintedSupply \in Nat
    BY <2>1 DEF Owing, DropInv
  <2> QED
    BY <2>1, <2>2
<1> QED
  BY <1>1, CollectionInvariant, PTL DEF CollectionInv

\* Airdrops begun while none runs never mint more than maxSupply tokens in all,
\* though receivers, the holders and the bridge act before mintedSupply is
\* raised; those begun inside another add at most their own tokens.
THEOREM AirdropsCapped == CollectionSpec => []AirdropsWithinCap
<1>1. DropInv => AirdropsWithinCap
  <2> SUFFICES ASSUME DropInv PROVE airdropped <= MaxSupply + nested
    BY DEF AirdropsWithinCap
  <2>1. PICK owed, uncounted :
           /\ Owing(airdrops, owed, uncounted)
           /\ airdropped + owed[Len(airdrops) + 1] <= MaxSupply + nested
    BY DEF DropInv
  <2>2. Len(airdrops) \in Nat /\ airdropped \in Nat /\ nested \in Nat /\ MaxSupply \in Nat
    BY CollectionAssumption DEF DropInv
  <2>3. owed[Len(airdrops) + 1] \in Nat
    BY <2>1, <2>2 DEF Owing
  <2> QED
    BY <2>1, <2>2, <2>3
<1> QED
  BY <1>1, CollectionInvariant, PTL DEF CollectionInv
==============================================================================
