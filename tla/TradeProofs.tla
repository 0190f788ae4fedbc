----------------------------- MODULE TradeProofs -----------------------------
(***************************************************************************)
(* Proofs about Trade, for any players, items, bags and ways of putting    *)
(* items into each other.                                                  *)
(***************************************************************************)
EXTENDS Trade, TLAPS

-----------------------------------------------------------------------------
(* What is above an item.  AboveIn(h, i) is the least set with i that is    *)
(* closed under h on items; everything else follows from that.             *)

\* Where an item may be.
Place == Player \cup Bag \cup {Ground}

LEMMA Climbs ==
  ASSUME NEW h, NEW i, NEW x \in Item, x \in AboveIn(h, i)
  PROVE  h[x] \in AboveIn(h, i)
<1>1. CASE x = i
  BY <1>1 DEF AboveIn, ItemsAbove
<1>2. CASE x \in ItemsAbove(h, i)
  BY <1>2 DEF AboveIn
<1>3. CASE x \in {h[y] : y \in ItemsAbove(h, i)}
  <2>1. PICK y \in ItemsAbove(h, i) : x = h[y]
    BY <1>3
  <2>2. x \in ItemsAbove(h, i)
    BY <2>1 DEF ItemsAbove, Closed
  <2> QED BY <2>2 DEF AboveIn
<1> QED BY <1>1, <1>2, <1>3 DEF AboveIn

LEMMA Least ==
  ASSUME NEW h, NEW i, NEW S, i \in S, \A y \in S \cap Item : h[y] \in S
  PROVE  AboveIn(h, i) \subseteq S
<1> DEFINE T == S \cap Item
<1>1. T \in SUBSET Item /\ Closed(h, T) /\ {i} \cap Item \subseteq T
  BY DEF Closed
<1>2. ItemsAbove(h, i) \subseteq T
  BY <1>1 DEF ItemsAbove
<1> QED BY <1>2 DEF AboveIn

LEMMA Reflexive ==
  ASSUME NEW h, NEW i
  PROVE  i \in AboveIn(h, i)
BY DEF AboveIn

LEMMA Transitive ==
  ASSUME NEW h, NEW i, NEW j \in AboveIn(h, i)
  PROVE  AboveIn(h, j) \subseteq AboveIn(h, i)
<1>1. \A y \in AboveIn(h, i) \cap Item : h[y] \in AboveIn(h, i)
  BY Climbs
<1> QED BY <1>1, Least

\* A player or the ground is in nothing.
LEMMA Outermost ==
  ASSUME NEW h, NEW x, x \notin Item
  PROVE  AboveIn(h, x) = {x}
<1>1. AboveIn(h, x) \subseteq {x}
  BY Least
<1> QED BY <1>1, Reflexive

\* What is above i, but for i, is above its parent.
LEMMA OneUp ==
  ASSUME NEW h, NEW i \in Item, NEW x \in AboveIn(h, i), x # i
  PROVE  x \in AboveIn(h, h[i])
<1> DEFINE S == {i} \cup AboveIn(h, h[i])
<1>1. \A y \in S \cap Item : h[y] \in S
  BY Climbs, Reflexive
<1>2. AboveIn(h, i) \subseteq S
  <2>1. i \in S
    OBVIOUS
  <2> HIDE DEF S
  <2> QED BY <1>1, <2>1, Least
<1> QED BY <1>2

\* Moving an item changes nothing for what was not in it.
LEMMA UntouchedBy ==
  ASSUME NEW h, NEW g, NEW i, \A y \in Item : y # i => g[y] = h[y],
         NEW a, i \notin AboveIn(h, a)
  PROVE  AboveIn(g, a) = AboveIn(h, a)
<1> DEFINE S == AboveIn(h, a)
           T == AboveIn(g, a) \cap S
<1>1. \A y \in S \cap Item : g[y] \in S
  BY Climbs
<1>2. AboveIn(g, a) \subseteq S
  BY <1>1, Least, Reflexive
<1>3. \A y \in T \cap Item : h[y] \in T
  <2> SUFFICES ASSUME NEW y \in T \cap Item PROVE h[y] \in T
    OBVIOUS
  <2>1. h[y] \in S /\ g[y] = h[y]
    BY Climbs
  <2>2. g[y] \in AboveIn(g, a)
    BY Climbs
  <2> QED BY <2>1, <2>2
<1>4. a \in T
  BY Reflexive
<1>5. S \subseteq T
  <2> HIDE DEF T
  <2> QED BY <1>3, <1>4, Least
<1> QED BY <1>2, <1>5

\* An item that is put where it is not above ends up under all that is above there.
LEMMA PutInto ==
  ASSUME NEW h \in [Item -> Place], NEW i \in Item, NEW d, i \notin AboveIn(h, d)
  PROVE  LET g == [h EXCEPT ![i] = d]
         IN  /\ AboveIn(h, d) \subseteq AboveIn(g, i)
             /\ AboveIn(g, i) \subseteq {i} \cup AboveIn(h, d)
<1> DEFINE g == [h EXCEPT ![i] = d]
<1>0. \A y \in Item : y # i => g[y] = h[y]
  OBVIOUS
<1>1. AboveIn(g, d) = AboveIn(h, d) /\ g[i] = d
  <2>1. g[i] = d
    OBVIOUS
  <2> HIDE DEF g
  <2> QED BY <2>1, <1>0, UntouchedBy
<1>2. d \in AboveIn(g, i)
  <2> HIDE DEF g
  <2> QED BY <1>1, Climbs, Reflexive
<1>3. AboveIn(g, d) \subseteq AboveIn(g, i)
  <2> HIDE DEF g
  <2> QED BY <1>2, Transitive
<1>4. \A x \in AboveIn(g, i) : x # i => x \in AboveIn(g, d)
  <2> HIDE DEF g
  <2> QED BY <1>1, OneUp
<1> QED BY <1>1, <1>3, <1>4

\* No item is in itself.
AcyclicIn(h) == \A x \in Item : x \notin AboveIn(h, h[x])

LEMMA StaysAcyclic ==
  ASSUME NEW h \in [Item -> Place], AcyclicIn(h),
         NEW i \in Item, NEW d, i \notin AboveIn(h, d)
  PROVE  AcyclicIn([h EXCEPT ![i] = d])
<1> DEFINE g == [h EXCEPT ![i] = d]
<1> SUFFICES ASSUME NEW x \in Item PROVE x \notin AboveIn(g, g[x])
  BY DEF AcyclicIn
<1>0. g[i] = d /\ \A y \in Item : y # i => g[y] = h[y]
  OBVIOUS
<1> HIDE DEF g
<1>1. CASE x = i
  <2>1. AboveIn(g, d) = AboveIn(h, d)
    BY <1>0, UntouchedBy
  <2> QED BY <1>0, <1>1, <2>1
<1>2. CASE x # i
  <2>1. g[x] = h[x] /\ x \notin AboveIn(h, h[x])
    BY <1>0, <1>2 DEF AcyclicIn
  <2>2. CASE i \notin AboveIn(h, h[x])
    <3>1. AboveIn(g, h[x]) = AboveIn(h, h[x])
      BY <1>0, <2>2, UntouchedBy
    <3> QED BY <2>1, <3>1
  <2>3. CASE i \in AboveIn(h, h[x])
    <3> DEFINE S == AboveIn(h, h[x]) \cup AboveIn(h, d)
    <3>1. \A y \in S \cap Item : g[y] \in S
      BY <1>0, Climbs, Reflexive
    <3>2. AboveIn(g, h[x]) \subseteq S
      <4>1. h[x] \in S
        BY Reflexive
      <4> HIDE DEF S
      <4> QED BY <3>1, <4>1, Least
    <3>3. x \notin AboveIn(h, d)
      <4> SUFFICES ASSUME x \in AboveIn(h, d) PROVE FALSE
        OBVIOUS
      <4>1. h[x] \in AboveIn(h, d)
        BY Climbs
      <4> QED BY <4>1, <2>3, Transitive
    <3> QED BY <2>1, <3>2, <3>3
  <2> QED BY <2>2, <2>3
<1> QED BY <1>1, <1>2

-----------------------------------------------------------------------------
(* The inductive invariant                                                 *)

\* Who was asked to trade has offered nothing yet: a request of his own
\* (internalStartTrade) replaces no item.
AskedOffersNothing ==
  \A p \in Player : trade[p].state = "acknowledge" => trade[p].item = None

\* What is offered stays with who offers it, or on the ground: a move of it, or of
\* something around it, ends the trade.
OffersNear ==
  \A p \in Player : trade[p].item \in Item => Near(p, trade[p].item)

Inv ==
  /\ TypeOK /\ Mutual /\ OffersDisjoint /\ DeedIsOffered
  /\ AskedOffersNothing /\ OffersNear /\ AcyclicIn(holder)

Both(S) == S \cup PartnersOf(S)

LEMMA InitInv == Init => Inv
<1> SUFFICES ASSUME Init PROVE Inv
  OBVIOUS
<1>1. TypeOK
  BY TradeAssumption DEF Init, TypeOK, NoTrade, States
<1>2. Mutual /\ DeedIsOffered /\ AskedOffersNothing
  BY TradeAssumption DEF Init, Mutual, DeedIsOffered, AskedOffersNothing, NoTrade
<1>3. OffersDisjoint
  <2>1. ItemsOf(Player) = {}
    BY TradeAssumption DEF Init, ItemsOf, NoTrade, Goods
  <2> QED BY <2>1, TradeAssumption DEF Init, OffersDisjoint, NoTrade
<1>4. OffersNear
  BY TradeAssumption DEF Init, OffersNear, NoTrade
<1>5. AcyclicIn(holder)
  <2> SUFFICES ASSUME NEW x \in Item PROVE x \notin AboveIn(holder, holder[x])
    BY DEF AcyclicIn
  <2>1. holder[x] \in Player \cup {Ground} /\ holder[x] \notin Item
    BY TradeAssumption DEF Init
  <2> QED BY <2>1, Outermost
<1> QED BY <1>1, <1>2, <1>3, <1>4, <1>5 DEF Inv

\* A trade is closed on both sides or on neither.
LEMMA BothSides ==
  ASSUME TypeOK, Mutual, NEW S \in SUBSET Player,
         NEW p \in Player, trade[p].state # "none", p \notin Both(S)
  PROVE  trade[p].partner \in Player \ Both(S)
<1> DEFINE q == trade[p].partner
<1>1. q \in Player /\ trade[q].partner = p
  BY DEF Mutual, TypeOK
<1>2. q \notin S
  BY <1>1 DEF Both, PartnersOf
<1>3. ASSUME NEW s \in S, trade[s].partner = q PROVE FALSE
  <2>1. trade[s].state # "none"
    BY <1>1, <1>3, TradeAssumption DEF Mutual, NoTrade
  <2>2. trade[q].partner = s
    BY <2>1, <1>3 DEF Mutual
  <2> QED BY <2>2, <1>1 DEF Both
<1> QED BY <1>1, <1>2, <1>3 DEF Both, PartnersOf

\* What closing trades leaves: the others' trades, and their items.
LEMMA CloseKeeps ==
  ASSUME Inv, NEW S \in SUBSET Player, CloseTrades(S)
  PROVE  /\ trade' \in [Player -> [state : States, partner : Player \cup {None},
                                   item : Goods \cup {None}]]
         /\ \A p \in Player : trade'[p] = IF p \in Both(S) THEN NoTrade ELSE trade[p]
         /\ tradeItems' \in SUBSET Goods /\ tradeItems' = ItemsOf(Player)'
         /\ transferItem' \in BOOLEAN /\ DeedIsOffered'
         /\ AskedOffersNothing'
<1>1. \A p \in Player : trade'[p] = IF p \in Both(S) THEN NoTrade ELSE trade[p]
  BY DEF CloseTrades, Both
<1>2. trade' \in [Player -> [state : States, partner : Player \cup {None},
                             item : Goods \cup {None}]]
  BY DEF Inv, TypeOK, CloseTrades, NoTrade, States
<1>3. \A x : x \in ItemsOf(Both(S)) <=> x \in Goods /\ \E p \in Both(S) : trade[p].item = x
  BY DEF ItemsOf
<1>4. Both(S) \subseteq Player
  BY DEF Both, PartnersOf
<1>5. \A x \in Goods : x \in ItemsOf(Player)' <=> x \in ItemsOf(Player) \ ItemsOf(Both(S))
  <2> SUFFICES ASSUME NEW x \in Goods
               PROVE  x \in ItemsOf(Player)' <=> x \in ItemsOf(Player) \ ItemsOf(Both(S))
    OBVIOUS
  <2>1. x # None
    BY TradeAssumption DEF Goods
  <2>2. x \in ItemsOf(Player)' <=> \E p \in Player : trade'[p].item = x
    BY DEF ItemsOf, Goods
  <2>3. \A p \in Player : trade'[p].item = x <=> p \notin Both(S) /\ trade[p].item = x
    BY <1>1, <2>1 DEF NoTrade
  <2>4. \A p, q \in Player : trade[p].item = x /\ trade[q].item = x => p = q
    BY <2>1 DEF Inv, OffersDisjoint
  <2> QED BY <1>3, <1>4, <2>2, <2>3, <2>4 DEF ItemsOf
<1>6. tradeItems = ItemsOf(Player) /\ tradeItems' = tradeItems \ ItemsOf(Both(S))
  BY DEF Inv, OffersDisjoint, CloseTrades, Both
<1>7. tradeItems' = ItemsOf(Player)' /\ tradeItems' \in SUBSET Goods
  BY <1>5, <1>6 DEF ItemsOf, Goods
<1>8. transferItem' \in BOOLEAN /\ DeedIsOffered'
  <2>1. transferItem' = (transferItem /\ Deed \notin ItemsOf(Both(S)))
    BY DEF CloseTrades, Both
  <2>2. transferItem <=> Deed \in ItemsOf(Player)
    BY DEF Inv, DeedIsOffered, ItemsOf, Goods
  <2>3. Deed \in ItemsOf(Player)' <=> \E p \in Player : trade'[p].item = Deed
    BY DEF ItemsOf, Goods
  <2>4. Deed \in ItemsOf(Player)' <=> Deed \in ItemsOf(Player) \ ItemsOf(Both(S))
    BY <1>5 DEF Goods
  <2> QED BY <2>1, <2>2, <2>3, <2>4 DEF DeedIsOffered
<1>9. AskedOffersNothing'
  BY <1>1 DEF Inv, AskedOffersNothing, NoTrade
<1> QED BY <1>1, <1>2, <1>7, <1>8, <1>9

\* Mutual survives when those who leave close their trades.
LEMMA CloseKeepsMutual ==
  ASSUME Inv, NEW S \in SUBSET Player, CloseTrades(S),
         \A p \in online \ online' : p \in Both(S) \/ trade[p].state = "none"
  PROVE  Mutual'
<1>1. \A p \in Player : trade'[p] = IF p \in Both(S) THEN NoTrade ELSE trade[p]
  BY CloseKeeps
<1> SUFFICES ASSUME NEW p \in Player
             PROVE  LET q == trade'[p].partner
                    IN  IF trade'[p].state = "none" THEN trade'[p] = NoTrade
                        ELSE /\ q \in online' /\ p \in online' /\ q # p
                             /\ trade'[q].partner = p
                             /\ trade'[p].item # None \/ trade'[q].item # None
  BY DEF Mutual
<1> DEFINE q == trade[p].partner
<1>2. CASE p \in Both(S)
  BY <1>1, <1>2 DEF NoTrade
<1>3. CASE p \notin Both(S) /\ trade[p].state = "none"
  BY <1>1, <1>3 DEF Inv, Mutual, NoTrade
<1>4. CASE p \notin Both(S) /\ trade[p].state # "none"
  <2>1. q \in Player \ Both(S)
    BY <1>4, BothSides DEF Inv
  <2>2. /\ q \in online /\ p \in online /\ q # p
        /\ trade[q].partner = p
        /\ trade[p].item # None \/ trade[q].item # None
    BY <1>4 DEF Inv, Mutual
  <2>3. trade[q].state # "none"
    BY <2>1, <2>2, TradeAssumption DEF Inv, Mutual, NoTrade
  <2>4. trade'[p] = trade[p] /\ trade'[q] = trade[q]
    BY <1>1, <1>4, <2>1
  <2> QED BY <1>4, <2>1, <2>2, <2>3, <2>4
<1> QED BY <1>2, <1>3, <1>4

\* Offers that are not in each other stay so as long as what is above them does.
LEMMA OffersStay ==
  ASSUME tradeItems' = ItemsOf(Player)',
         \A p, q \in Player : p # q /\ trade'[p].item # None /\ trade'[q].item # None
           => trade'[p].item # trade'[q].item,
         \A p, q \in Player :
           p # q /\ {trade'[p].item, trade'[q].item} \subseteq Item
             => trade'[q].item \notin AboveIn(holder', trade'[p].item)
  PROVE  OffersDisjoint'
<1>1. \A p, q \in Player :
        p # q /\ {trade'[p].item, trade'[q].item} \subseteq Item
          => ~Overlap(trade[p].item, trade[q].item)'
  BY DEF Overlap, Above
<1> QED BY <1>1 DEF OffersDisjoint

-----------------------------------------------------------------------------
(* The steps                                                               *)

\* Closing trades while no item moves.
LEMMA CloseInPlace ==
  ASSUME Inv, NEW S \in SUBSET Player, CloseTrades(S), holder' = holder
  PROVE  OffersDisjoint'
<1>1. tradeItems' = ItemsOf(Player)'
  BY CloseKeeps
<1>2. \A p \in Player : trade'[p].item # None => trade'[p] = trade[p]
  BY CloseKeeps DEF NoTrade
<1>3. \A p, q \in Player : p # q /\ trade'[p].item # None /\ trade'[q].item # None
        => trade'[p].item # trade'[q].item
  BY <1>2 DEF Inv, OffersDisjoint
<1>4. \A p, q \in Player :
        p # q /\ {trade'[p].item, trade'[q].item} \subseteq Item
          => trade'[q].item \notin AboveIn(holder', trade'[p].item)
  BY <1>2, TradeAssumption DEF Inv, OffersDisjoint, Overlap, Above
<1> QED BY <1>1, <1>3, <1>4, OffersStay

LEMMA CloseInv ==
  ASSUME Inv, NEW S \in SUBSET Player, CloseTrades(S), holder' = holder,
         \A p \in online \ online' : p \in Both(S) \/ trade[p].state = "none",
         online' \in SUBSET Player, owner' = owner, exchange' = None
  PROVE  Inv'
<1>1. TypeOK'
  BY CloseKeeps DEF Inv, TypeOK
<1>2. Mutual'
  BY CloseKeepsMutual
<1>3. OffersDisjoint'
  BY CloseInPlace
<1>4. OffersNear'
  <2>1. \A p \in Player : trade'[p].item \in Item => trade'[p] = trade[p]
    BY CloseKeeps, TradeAssumption DEF NoTrade
  <2> QED BY <2>1 DEF Inv, OffersNear, Near, Above
<1> QED BY <1>1, <1>2, <1>3, <1>4, CloseKeeps DEF Inv, AcyclicIn

\* A trade begins: i was in nobody's offer, and in nothing that is offered.
LEMMA StartTradeInv ==
  ASSUME Inv, NEW p \in Player, NEW q \in Player, p # q, {p, q} \subseteq online,
         NEW i \in Goods, MayStart(p, q), StartTrade(p, q, i),
         i \notin tradeItems,
         i \in Item => Near(p, i) /\ \A j \in tradeItems \ {Deed} : ~Overlap(i, j),
         transferItem' = (transferItem \/ i = Deed),
         exchange' = None, holder' = holder, online' = online, owner' = owner
  PROVE  Inv'
<1>1. trade[q].partner = p => trade[p].partner = q /\ trade[p].state # "none"
  BY TradeAssumption DEF Inv, Mutual, NoTrade
<1>2. trade[p].item = None
  BY <1>1 DEF Inv, Mutual, MayStart, AskedOffersNothing, NoTrade
<1>3. /\ trade'[p] = [state |-> "initiated", partner |-> q, item |-> i]
      /\ trade'[q] = IF trade[q].state = "none"
                     THEN [trade[q] EXCEPT !.state = "acknowledge", !.partner = p]
                     ELSE trade[q]
      /\ \A r \in Player \ {p, q} : trade'[r] = trade[r]
  BY DEF StartTrade, Inv, TypeOK
<1>4. i # None
  BY TradeAssumption DEF Goods
<1>5. trade'[q].item = trade[q].item /\ trade'[q].partner = p /\ trade'[q].state # "none"
  <2>1. CASE trade[q].state = "none"
    BY <1>3, <2>1 DEF Inv, TypeOK, States
  <2>2. CASE trade[q].state # "none"
    BY <1>3, <2>2 DEF MayStart
  <2> QED BY <2>1, <2>2
<1>6. TypeOK'
  <2>1. trade' \in [Player -> [state : States, partner : Player \cup {None},
                               item : Goods \cup {None}]]
    BY DEF StartTrade, Inv, TypeOK, States
  <2> QED BY <2>1 DEF StartTrade, Inv, TypeOK, Goods
<1>7. Mutual'
  <2> SUFFICES ASSUME NEW r \in Player
               PROVE  LET t == trade'[r].partner
                      IN  IF trade'[r].state = "none" THEN trade'[r] = NoTrade
                          ELSE /\ t \in online' /\ r \in online' /\ t # r
                               /\ trade'[t].partner = r
                               /\ trade'[r].item # None \/ trade'[t].item # None
    BY DEF Mutual
  <2>0. /\ trade'[p].state # "none" /\ trade'[p].partner = q /\ trade'[p].item # None
        /\ online' = online
    BY <1>3, <1>4
  <2>1. CASE r = p
    BY <2>0, <2>1, <1>5
  <2>2. CASE r = q
    BY <2>0, <2>2, <1>5
  <2>3. CASE r \notin {p, q} /\ trade[r].state = "none"
    BY <2>3, <1>3 DEF Inv, Mutual, NoTrade
  <2>4. CASE r \notin {p, q} /\ trade[r].state # "none"
    <3> DEFINE t == trade[r].partner
    <3>1. t \in Player /\ trade[t].partner = r /\ trade[t].state # "none"
      BY <2>4, TradeAssumption DEF Inv, Mutual, TypeOK, NoTrade
    <3>2. t # p /\ t # q
      BY <3>1, <2>4, TradeAssumption DEF MayStart, Inv, Mutual, NoTrade
    <3>3. trade'[r] = trade[r] /\ trade'[t] = trade[t]
      BY <3>1, <3>2, <2>4, <1>3
    <3>4. /\ t \in online /\ r \in online /\ t # r
          /\ trade[r].item # None \/ trade[t].item # None
      BY <2>4 DEF Inv, Mutual
    <3> QED BY <2>4, <3>1, <3>3, <3>4
  <2> QED BY <2>1, <2>2, <2>3, <2>4
<1>8. \A r \in Player : trade'[r].item = IF r = p THEN i ELSE trade[r].item
  <2>1. trade'[p].item = i
    BY <1>3
  <2>2. \A r \in Player \ {p} : trade'[r].item = trade[r].item
    BY <1>3, <1>5
  <2> QED BY <2>1, <2>2
<1>9. \A r \in Player : trade[r].item # None => trade[r].item \in tradeItems
  BY DEF Inv, OffersDisjoint, ItemsOf, TypeOK
<1>10. OffersDisjoint'
  <2>1. tradeItems' = ItemsOf(Player)'
    <3>1. tradeItems' = tradeItems \cup {i} /\ tradeItems = ItemsOf(Player)
      BY DEF StartTrade, Inv, OffersDisjoint
    <3>2. \A x \in Goods : x \in ItemsOf(Player)' <=> \E r \in Player : trade'[r].item = x
      BY DEF ItemsOf, Goods
    <3>3. \A x \in Goods : x # None
      BY TradeAssumption DEF Goods
    <3>4. \A x \in Goods : x \in ItemsOf(Player)' <=> x \in ItemsOf(Player) \cup {i}
      BY <1>2, <1>8, <3>2, <3>3 DEF ItemsOf
    <3> QED BY <3>1, <3>4 DEF ItemsOf, Goods
  <2>2. \A r, t \in Player : r # t /\ trade'[r].item # None /\ trade'[t].item # None
          => trade'[r].item # trade'[t].item
    BY <1>8, <1>9 DEF Inv, OffersDisjoint
  <2>3. \A r, t \in Player :
          r # t /\ {trade'[r].item, trade'[t].item} \subseteq Item
            => trade'[t].item \notin AboveIn(holder', trade'[r].item)
    BY <1>8, <1>9, TradeAssumption DEF Inv, OffersDisjoint, Overlap, Above
  <2> QED BY <2>1, <2>2, <2>3, OffersStay
<1>11. DeedIsOffered'
  BY <1>2, <1>4, <1>8, TradeAssumption DEF Inv, DeedIsOffered
<1>12. AskedOffersNothing'
  <2>1. trade'[q].state = "acknowledge" => trade[q].item = None
    <3>1. CASE trade[q].state = "none"
      BY <3>1 DEF Inv, Mutual, NoTrade
    <3>2. CASE trade[q].state # "none"
      BY <3>2, <1>3 DEF Inv, AskedOffersNothing
    <3> QED BY <3>1, <3>2
  <2>2. \A r \in Player \ {p, q} : trade'[r].state = "acknowledge" => trade'[r].item = None
    BY <1>3 DEF Inv, AskedOffersNothing
  <2>3. trade'[p].state # "acknowledge"
    BY <1>3
  <2>4. trade'[q].state = "acknowledge" => trade'[q].item = None
    BY <2>1, <1>5
  <2> QED BY <2>2, <2>3, <2>4 DEF AskedOffersNothing
<1>13. OffersNear'
  BY <1>8 DEF Inv, OffersNear, Near, Above
<1> QED BY <1>6, <1>7, <1>10, <1>11, <1>12, <1>13 DEF Inv, AcyclicIn

LEMMA RequestTradeInv ==
  ASSUME Inv, NEW p \in Player, NEW q \in Player, NEW i \in Item, RequestTrade(p, q, i)
  PROVE  Inv'
<1>1. i \notin tradeItems
  <2>1. Overlap(i, i)
    BY Reflexive DEF Overlap, Above
  <2> QED BY <2>1, TradeAssumption DEF RequestTrade, AlreadyTraded
<1>2. i # Deed /\ i \in Goods
  BY TradeAssumption DEF Goods
<1>3. transferItem' = (transferItem \/ i = Deed)
  BY <1>2 DEF RequestTrade, Inv, TypeOK
<1> QED BY <1>1, <1>2, <1>3, StartTradeInv DEF RequestTrade, AlreadyTraded, Idle

LEMMA SellHouseInv ==
  ASSUME Inv, NEW p \in Player, NEW q \in Player, SellHouse(p, q)
  PROVE  Inv'
<1>1. Deed \notin tradeItems
  BY DEF SellHouse, Inv, DeedIsOffered, OffersDisjoint, ItemsOf
<1>2. Deed \notin Item /\ Deed \in Goods
  BY TradeAssumption DEF Goods
<1>3. transferItem' = (transferItem \/ Deed = Deed)
  BY DEF SellHouse
<1> QED BY <1>1, <1>2, <1>3, StartTradeInv DEF SellHouse, Idle

LEMMA AcceptFirstInv ==
  ASSUME Inv, NEW p \in Player, AcceptFirst(p)
  PROVE  Inv'
<1>1. \A r \in Player : /\ trade'[r].partner = trade[r].partner
                        /\ trade'[r].item = trade[r].item
                        /\ trade'[r].state = IF r = p THEN "accept" ELSE trade[r].state
  BY DEF AcceptFirst, Inv, TypeOK
<1>2. \A r \in Player \ {p} : trade'[r] = trade[r]
  BY DEF AcceptFirst, Inv, TypeOK
<1>3. TypeOK'
  BY DEF AcceptFirst, Inv, TypeOK, States, Idle
<1>4. Mutual'
  <2> SUFFICES ASSUME NEW r \in Player
               PROVE  LET t == trade'[r].partner
                      IN  IF trade'[r].state = "none" THEN trade'[r] = NoTrade
                          ELSE /\ t \in online' /\ r \in online' /\ t # r
                               /\ trade'[t].partner = r
                               /\ trade'[r].item # None \/ trade'[t].item # None
    BY DEF Mutual
  <2>0. online' = online /\ trade[p].state # "none"
    BY DEF AcceptFirst
  <2>1. CASE trade[r].state = "none"
    BY <2>0, <2>1, <1>1, <1>2 DEF Inv, Mutual
  <2>2. CASE trade[r].state # "none"
    <3>1. LET t == trade[r].partner
          IN  /\ t \in online /\ r \in online /\ t # r
              /\ trade[t].partner = r
              /\ trade[r].item # None \/ trade[t].item # None
      BY <2>2 DEF Inv, Mutual
    <3>2. trade[r].partner \in Player
      BY <3>1 DEF Inv, TypeOK
    <3> QED BY <2>0, <2>2, <3>1, <3>2, <1>1
  <2> QED BY <2>1, <2>2
<1>5. OffersDisjoint'
  <2>1. ItemsOf(Player)' = ItemsOf(Player)
    BY <1>1 DEF ItemsOf, Goods
  <2>2. holder' = holder /\ tradeItems' = tradeItems
    BY DEF AcceptFirst
  <2> QED BY <1>1, <2>1, <2>2, OffersStay, TradeAssumption
          DEF Inv, OffersDisjoint, Overlap, Above
<1>6. DeedIsOffered' /\ AskedOffersNothing'
  BY <1>1 DEF AcceptFirst, Inv, DeedIsOffered, AskedOffersNothing
<1>7. OffersNear'
  BY <1>1 DEF AcceptFirst, Inv, OffersNear, Near, Above
<1> QED BY <1>3, <1>4, <1>5, <1>6, <1>7 DEF AcceptFirst, Inv, AcyclicIn

LEMMA LeaveInv ==
  ASSUME Inv, NEW p \in Player, Leave(p)
  PROVE  Inv'
<1>1. Leaving(p) \in SUBSET Player
  BY DEF Leaving
<1>2. p \in Both(Leaving(p)) \/ trade[p].state = "none"
  BY TradeAssumption DEF Leaving, Both, Inv, Mutual, TypeOK
<1>3. online' \in SUBSET Player /\ \A r \in online \ online' : r = p
  BY DEF Leave, Inv, TypeOK
<1> QED BY <1>1, <1>2, <1>3, CloseInv DEF Leave, Idle

\* What an item that is moved was in has noticed it.
LEMMA MoveIsSeen ==
  ASSUME Inv, NEW i \in Item, NEW a \in Item, i \in Above(a)
  PROVE  SeesRemoval(a, i)
<1>1. CASE holder[i] \in Bag /\ a # i
  <2>1. holder[i] \in Above(a)
    BY Climbs DEF Above
  <2>2. holder[a] # holder[i]
    <3> SUFFICES ASSUME holder[a] = holder[i] PROVE FALSE
      OBVIOUS
    <3>1. i \in AboveIn(holder, holder[a])
      BY <1>1, OneUp DEF Above
    <3> QED BY <3>1 DEF Inv, AcyclicIn
  <2> QED BY <1>1, <2>1, <2>2 DEF SeesRemoval
<1>2. CASE holder[i] \notin Bag
  BY <1>2 DEF SeesRemoval
<1>3. CASE a = i
  BY <1>3, Reflexive DEF SeesRemoval, Above
<1> QED BY <1>1, <1>2, <1>3

LEMMA MoveItemInv ==
  ASSUME Inv, NEW i \in Item, NEW d \in Player \cup {Ground} \cup Bag, MoveItem(i, d)
  PROVE  Inv'
<1> DEFINE h == [holder EXCEPT ![i] = d]
           S == Disturbed(i, h)
<1>1. /\ i \notin AboveIn(holder, d) /\ holder' = h /\ CloseTrades(S)
      /\ exchange' = None /\ online' = online /\ owner' = owner
  BY DEF MoveItem, Above, Idle
<1>2. holder \in [Item -> Place] /\ AcyclicIn(holder)
  BY DEF Inv, TypeOK, Place
<1>3. holder' \in [Item -> Player \cup Bag \cup {Ground}]
  BY <1>1, <1>2 DEF Place
<1>4. S \in SUBSET Player
  BY DEF Disturbed
<1>5. AcyclicIn(holder')
  <2>1. AcyclicIn(h)
    BY <1>1, <1>2, StaysAcyclic
  <2> QED BY <1>1, <2>1
<1>6. \A y \in Item : y # i => holder'[y] = holder[y]
  BY <1>1, <1>2
<1>7. TypeOK' /\ Mutual'
  <2> HIDE DEF S
  <2>1. Mutual'
    BY <1>1, <1>4, CloseKeepsMutual
  <2> QED BY <1>1, <1>3, <1>4, <2>1, CloseKeeps DEF Inv, TypeOK
<1>8. \A p \in Player : trade'[p] = IF p \in Both(S) THEN NoTrade ELSE trade[p]
  <2> HIDE DEF S
  <2> QED BY <1>1, <1>4, CloseKeeps
<1>9. ASSUME NEW p \in Player, trade'[p].item \in Item
      PROVE  /\ trade[p] = trade'[p]
             /\ AboveIn(holder', trade[p].item) = AboveIn(holder, trade[p].item)
  <2>1. trade[p] = trade'[p] /\ p \notin S
    <3> HIDE DEF S
    <3>1. p \notin Both(S)
      <4>1. NoTrade.item \notin Item
        BY TradeAssumption DEF NoTrade
      <4> QED BY <1>8, <1>9, <4>1
    <3>2. trade[p] = trade'[p]
      BY <1>8, <3>1
    <3> QED BY <3>1, <3>2 DEF Both
  <2>2. i \notin AboveIn(holder, trade[p].item)
    BY <1>9, <2>1, MoveIsSeen DEF Disturbed, Above
  <2> QED BY <2>1, <2>2, <1>6, UntouchedBy
<1>10. OffersDisjoint'
  <2>1. tradeItems' = ItemsOf(Player)'
    <3> HIDE DEF S
    <3> QED BY <1>1, <1>4, CloseKeeps
  <2>2. \A p, q \in Player : p # q /\ trade'[p].item # None /\ trade'[q].item # None
          => trade'[p].item # trade'[q].item
    BY <1>8 DEF Inv, OffersDisjoint, NoTrade
  <2>3. \A p, q \in Player :
          p # q /\ {trade'[p].item, trade'[q].item} \subseteq Item
            => trade'[q].item \notin AboveIn(holder', trade'[p].item)
    BY <1>9, TradeAssumption DEF Inv, OffersDisjoint, Overlap, Above
  <2> QED BY <2>1, <2>2, <2>3, OffersStay
<1>11. DeedIsOffered' /\ AskedOffersNothing'
  <2> HIDE DEF S
  <2> QED BY <1>1, <1>4, CloseKeeps
<1>12. OffersNear'
  BY <1>9 DEF Inv, OffersNear, Near, Above
<1> QED BY <1>5, <1>7, <1>10, <1>11, <1>12 DEF Inv

-----------------------------------------------------------------------------
(* The exchange                                                            *)

\* How i goes to r: a document moves nothing.
Placed(h, i, r, g) ==
  \/ i \notin Item /\ g = h
  \/ i \in Item /\ \E d \in PlacesFor(h, i, r) : g = [h EXCEPT ![i] = d]

LEMMA PlacesAreSafe ==
  ASSUME NEW h, NEW i \in Item, NEW r \in Player, NEW d \in PlacesFor(h, i, r)
  PROVE  d \in Place /\ i \notin AboveIn(h, d) /\ r \in AboveIn(h, d)
<1>1. CASE d = r
  BY <1>1, Outermost, TradeAssumption DEF Place
<1>2. CASE d # r
  BY <1>2 DEF PlacesFor, Place
<1> QED BY <1>1, <1>2

LEMMA PlacedKeeps ==
  ASSUME NEW h \in [Item -> Place], AcyclicIn(h), NEW i \in Goods, NEW r \in Player,
         NEW g, Placed(h, i, r, g)
  PROVE  /\ g \in [Item -> Place] /\ AcyclicIn(g)
         /\ i \in Item => r \in AboveIn(g, i)
         /\ \A a : (i \in Item /\ i \in AboveIn(h, a)) \/ AboveIn(g, a) = AboveIn(h, a)
<1>1. CASE i \notin Item
  BY <1>1 DEF Placed
<1>2. CASE i \in Item
  <2>1. PICK d \in PlacesFor(h, i, r) : g = [h EXCEPT ![i] = d]
    BY <1>2 DEF Placed
  <2>2. d \in Place /\ i \notin AboveIn(h, d) /\ r \in AboveIn(h, d)
    BY <1>2, PlacesAreSafe
  <2>3. AcyclicIn(g)
    BY <1>2, <2>1, <2>2, StaysAcyclic
  <2>4. r \in AboveIn(g, i)
    BY <1>2, <2>1, <2>2, PutInto
  <2>5. \A y \in Item : y # i => g[y] = h[y]
    BY <2>1
  <2>6. \A a : i \in AboveIn(h, a) \/ AboveIn(g, a) = AboveIn(h, a)
    BY <2>5, UntouchedBy
  <2> QED BY <1>2, <2>1, <2>2, <2>3, <2>4, <2>6
<1> QED BY <1>1, <1>2

\* Where the second item goes: to p, or, if it is stackable, nowhere.
Follows(h, j, p, g) == Placed(h, j, p, g) \/ (j \in Stackable /\ g = h)

LEMMA FollowsKeeps ==
  ASSUME NEW h \in [Item -> Place], AcyclicIn(h), NEW j \in Goods, NEW r \in Player,
         NEW g, Follows(h, j, r, g)
  PROVE  /\ g \in [Item -> Place] /\ AcyclicIn(g)
         /\ j \in Item => r \in AboveIn(g, j) \/ (j \in Stackable /\ g = h)
         /\ \A a : (j \in Item /\ j \in AboveIn(h, a)) \/ AboveIn(g, a) = AboveIn(h, a)
<1>1. CASE Placed(h, j, r, g)
  BY <1>1, PlacedKeeps
<1>2. CASE j \in Stackable /\ g = h
  BY <1>2
<1> QED BY <1>1, <1>2 DEF Follows

\* What Transfer(p) does, with names for its parts.
LEMMA TransferParts ==
  ASSUME Inv, NEW p \in Player, Transfer(p)
  PROVE  LET q == trade[p].partner
             i == trade[p].item
             j == trade[q].item
         IN  /\ q \in Player /\ q # p /\ trade[q].partner = p
             /\ trade[p].state # "none" /\ trade[q].state # "none"
             /\ i \in Goods /\ j \in Goods /\ i # j
             /\ {i, j} \subseteq Item => i \notin AboveIn(holder, j) /\ j \notin AboveIn(holder, i)
             /\ \E d \in PlacesFor(holder, i, q) :
                  /\ Apart(holder, d, j)
                  /\ \E h : /\ h = Moved(holder, i, d)
                            /\ Placed(holder, i, q, h) /\ Follows(h, j, p, holder')
             /\ \A r \in Player : trade'[r] = IF r \in {p, q} THEN NoTrade ELSE trade[r]
             /\ trade' \in [Player -> [state : States, partner : Player \cup {None},
                                       item : Goods \cup {None}]]
<1> DEFINE q == trade[p].partner
           i == trade[p].item
           j == trade[q].item
<1>1. trade[p].state # "none"
  BY DEF Transfer, SecondAccepts
<1>2. q \in Player /\ q # p /\ trade[q].partner = p
  BY <1>1 DEF Inv, Mutual, TypeOK
<1>3. trade[q].state # "none"
  BY <1>2, TradeAssumption DEF Inv, Mutual, NoTrade
<1>4. i # None /\ j # None
  BY DEF Transfer
<1>5. i \in Goods /\ j \in Goods
  BY <1>2, <1>4 DEF Inv, TypeOK
<1>6. i # j /\ ({i, j} \subseteq Item => ~Overlap(i, j))
  BY <1>2, <1>4 DEF Inv, OffersDisjoint
<1>7. trade' = [trade EXCEPT ![p] = NoTrade, ![q] = NoTrade]
  BY DEF Transfer
<1>8. /\ \A r \in Player : trade'[r] = IF r \in {p, q} THEN NoTrade ELSE trade[r]
      /\ trade' \in [Player -> [state : States, partner : Player \cup {None},
                                item : Goods \cup {None}]]
  BY <1>2, <1>7 DEF Inv, TypeOK, NoTrade, States
<1>9. \A x \in Goods : x \notin Item <=> x = Deed
  BY TradeAssumption DEF Goods
<1>10. PICK d \in PlacesFor(holder, i, q) :
         /\ Apart(holder, d, j)
         /\ SecondMove(Moved(holder, i, d), j, p)
  BY DEF Transfer
<1>11. Placed(holder, i, q, Moved(holder, i, d)) /\ Follows(Moved(holder, i, d), j, p, holder')
  <2> HIDE DEF q, i, j
  <2>1. Placed(holder, i, q, Moved(holder, i, d))
    BY <1>5, <1>9, <1>10 DEF Placed, Moved
  <2>2. PICK h : h = Moved(holder, i, d)
    OBVIOUS
  <2>3. Follows(h, j, p, holder')
    BY <1>5, <1>9, <1>10, <2>2 DEF Follows, Placed, Moved, SecondMove
  <2> QED BY <2>1, <2>2, <2>3
<1> HIDE DEF q, i, j
<1>12. \E f \in PlacesFor(holder, i, q) :
         /\ Apart(holder, f, j)
         /\ \E h : /\ h = Moved(holder, i, f)
                   /\ Placed(holder, i, q, h) /\ Follows(h, j, p, holder')
  BY <1>10, <1>11
<1> QED BY <1>1, <1>2, <1>3, <1>5, <1>6, <1>8, <1>12 DEF q, i, j, Overlap, Above

LEMMA TransferInv ==
  ASSUME Inv, NEW p \in Player, Transfer(p)
  PROVE  Inv'
<1> DEFINE q == trade[p].partner
           i == trade[p].item
           j == trade[q].item
<1>1. /\ q \in Player /\ q # p /\ trade[q].partner = p
      /\ i \in Goods /\ j \in Goods /\ i # j
      /\ \A r \in Player : trade'[r] = IF r \in {p, q} THEN NoTrade ELSE trade[r]
      /\ trade' \in [Player -> [state : States, partner : Player \cup {None},
                                item : Goods \cup {None}]]
  BY TransferParts
<1>2. PICK h : Placed(holder, i, q, h) /\ Follows(h, j, p, holder')
  BY TransferParts
<1>3. /\ tradeItems' = tradeItems \ {i, j}
      /\ transferItem' = (transferItem /\ Deed \notin {i, j})
      /\ owner' = IF i = Deed THEN q ELSE IF j = Deed THEN p ELSE owner
      /\ exchange' = [from |-> p, to |-> q, given |-> i, got |-> j]
      /\ online' = online
  BY DEF Transfer
<1>4. i # None /\ j # None
  BY DEF Transfer
<1>5. trade[p].state # "none" /\ trade[q].state # "none"
  BY TransferParts
<1>6. trade[p].item = i /\ trade[q].item = j
  OBVIOUS
<1> HIDE DEF q, i, j
<1>7. holder \in [Item -> Place] /\ AcyclicIn(holder)
  BY DEF Inv, TypeOK, Place
<1>8. /\ h \in [Item -> Place] /\ AcyclicIn(h)
      /\ \A a : (i \in Item /\ i \in AboveIn(holder, a)) \/ AboveIn(h, a) = AboveIn(holder, a)
  BY <1>1, <1>2, <1>7, PlacedKeeps
<1>9. /\ holder' \in [Item -> Place] /\ AcyclicIn(holder')
      /\ \A a : (j \in Item /\ j \in AboveIn(h, a)) \/ AboveIn(holder', a) = AboveIn(h, a)
  BY <1>1, <1>2, <1>8, FollowsKeeps
<1>10. TypeOK'
  BY <1>1, <1>3, <1>9 DEF Inv, TypeOK, Place
<1>11. Mutual'
  <2> SUFFICES ASSUME NEW r \in Player
               PROVE  LET t == trade'[r].partner
                      IN  IF trade'[r].state = "none" THEN trade'[r] = NoTrade
                          ELSE /\ t \in online' /\ r \in online' /\ t # r
                               /\ trade'[t].partner = r
                               /\ trade'[r].item # None \/ trade'[t].item # None
    BY DEF Mutual
  <2>1. CASE r \in {p, q}
    BY <1>1, <2>1 DEF NoTrade
  <2>2. CASE r \notin {p, q} /\ trade[r].state = "none"
    BY <1>1, <2>2 DEF Inv, Mutual, NoTrade
  <2>3. CASE r \notin {p, q} /\ trade[r].state # "none"
    <3> DEFINE t == trade[r].partner
    <3>1. /\ t \in online /\ r \in online /\ t # r /\ trade[t].partner = r
          /\ trade[r].item # None \/ trade[t].item # None
      BY <2>3 DEF Inv, Mutual
    <3>2. t \in Player /\ t \notin {p, q}
      BY <1>1, <2>3, <3>1 DEF Inv, TypeOK, q
    <3>3. trade'[r] = trade[r] /\ trade'[t] = trade[t]
      BY <1>1, <2>3, <3>2
    <3> QED BY <1>3, <2>3, <3>1, <3>3
  <2> QED BY <2>1, <2>2, <2>3
<1>12. \A r \in Player : trade'[r].item = IF r \in {p, q} THEN None ELSE trade[r].item
  BY <1>1 DEF NoTrade
<1>13. \A r \in Player : trade[r].item # None => (trade[r].item \in {i, j} <=> r \in {p, q})
  BY <1>1, <1>4, <1>6 DEF Inv, OffersDisjoint
<1>14. tradeItems' = ItemsOf(Player)'
  <2>1. \A x \in Goods : x # None
    BY TradeAssumption DEF Goods
  <2>2. \A x \in Goods : x \in ItemsOf(Player)' <=> \E r \in Player : trade'[r].item = x
    BY DEF ItemsOf, Goods
  <2>3. \A x \in Goods : x \in ItemsOf(Player) <=> \E r \in Player : trade[r].item = x
    BY DEF ItemsOf, Goods
  <2>4. \A x \in Goods : x \in ItemsOf(Player)' <=> x \in ItemsOf(Player) \ {i, j}
    BY <2>1, <2>2, <2>3, <1>12, <1>13
  <2>5. tradeItems' = ItemsOf(Player) \ {i, j}
    BY <1>3 DEF Inv, OffersDisjoint
  <2> QED BY <2>4, <2>5 DEF ItemsOf, Goods
<1>15. ASSUME NEW r \in Player, trade'[r].item \in Item
       PROVE  /\ trade'[r].item = trade[r].item
              /\ AboveIn(holder', trade[r].item) = AboveIn(holder, trade[r].item)
  <2>1. r \notin {p, q} /\ trade'[r].item = trade[r].item
    BY <1>12, <1>15, TradeAssumption
  <2> DEFINE a == trade[r].item
  <2>2. a # None /\ a \in Item
    BY <1>15, <2>1, TradeAssumption
  <2>3. i \in Item => i \notin AboveIn(holder, a)
    BY <1>1, <1>4, <1>6, <2>1, <2>2 DEF Inv, OffersDisjoint, Overlap, Above
  <2>4. j \in Item => j \notin AboveIn(holder, a)
    BY <1>1, <1>4, <1>6, <2>1, <2>2 DEF Inv, OffersDisjoint, Overlap, Above
  <2>5. AboveIn(h, a) = AboveIn(holder, a)
    BY <1>8, <2>3
  <2>6. AboveIn(holder', a) = AboveIn(h, a)
    BY <1>9, <2>4, <2>5
  <2> QED BY <2>1, <2>5, <2>6
<1>16. OffersDisjoint'
  <2>1. \A r, t \in Player : r # t /\ trade'[r].item # None /\ trade'[t].item # None
          => trade'[r].item # trade'[t].item
    BY <1>12 DEF Inv, OffersDisjoint
  <2>2. \A r, t \in Player :
          r # t /\ {trade'[r].item, trade'[t].item} \subseteq Item
            => trade'[t].item \notin AboveIn(holder', trade'[r].item)
    BY <1>15, TradeAssumption DEF Inv, OffersDisjoint, Overlap, Above
  <2> QED BY <1>14, <2>1, <2>2, OffersStay
<1>17. DeedIsOffered'
  <2>1. Deed # None
    BY TradeAssumption
  <2>2. transferItem <=> \E r \in Player : trade[r].item = Deed
    BY DEF Inv, DeedIsOffered
  <2>3. (\E r \in Player : trade'[r].item = Deed)
          <=> (\E r \in Player : trade[r].item = Deed) /\ Deed \notin {i, j}
    BY <1>12, <1>13, <2>1
  <2> QED BY <1>3, <2>2, <2>3 DEF DeedIsOffered
<1>18. AskedOffersNothing'
  BY <1>1 DEF Inv, AskedOffersNothing, NoTrade
<1>19. OffersNear'
  BY <1>15 DEF Inv, OffersNear, Near, Above
<1> QED BY <1>9, <1>10, <1>11, <1>16, <1>17, <1>18, <1>19 DEF Inv

\* The first item stays with its new owner when the second one moves: Apart.  When
\* the second one does not, it is where its owner offered it.
LEMMA TransferExchanges ==
  ASSUME Inv, NEW p \in Player, Transfer(p)
  PROVE  Exchanged'
<1> DEFINE q == trade[p].partner
           i == trade[p].item
           j == trade[q].item
<1>1. /\ q \in Player /\ q # p
      /\ i \in Goods /\ j \in Goods /\ i # j
      /\ {i, j} \subseteq Item => i \notin AboveIn(holder, j) /\ j \notin AboveIn(holder, i)
  BY TransferParts
<1>d. PICK d \in PlacesFor(holder, i, q) :
        /\ Apart(holder, d, j)
        /\ \E h : /\ h = Moved(holder, i, d)
                  /\ Placed(holder, i, q, h) /\ Follows(h, j, p, holder')
  BY TransferParts
<1>2. PICK h : /\ Apart(holder, d, j) /\ h = Moved(holder, i, d)
               /\ Placed(holder, i, q, h) /\ Follows(h, j, p, holder')
  BY <1>d
<1>3. /\ owner' = IF i = Deed THEN q ELSE IF j = Deed THEN p ELSE owner
      /\ exchange' = [from |-> p, to |-> q, given |-> i, got |-> j]
  BY DEF Transfer
<1> HIDE DEF q, i, j
<1>4. \A x \in Goods : x \notin Item <=> x = Deed
  BY TradeAssumption DEF Goods
<1>5. holder \in [Item -> Place] /\ AcyclicIn(holder)
  BY DEF Inv, TypeOK, Place
<1>6. h \in [Item -> Place] /\ AcyclicIn(h) /\ (i \in Item => q \in AboveIn(h, i))
  BY <1>1, <1>2, <1>5, PlacedKeeps
<1>7. /\ j \in Item => p \in AboveIn(holder', j) \/ (j \in Stackable /\ holder' = h)
      /\ \A a : (j \in Item /\ j \in AboveIn(h, a)) \/ AboveIn(holder', a) = AboveIn(h, a)
  BY <1>1, <1>2, <1>6, FollowsKeeps
<1>8. i \in Item /\ j \in Item => j \notin AboveIn(h, i)
  <2> SUFFICES ASSUME i \in Item, j \in Item PROVE j \notin AboveIn(h, i)
    OBVIOUS
  <2>1. h = [holder EXCEPT ![i] = d]
    BY <1>1, <1>2, <1>4 DEF Moved
  <2>2. i \notin AboveIn(holder, d)
    BY <1>1, <1>2, PlacesAreSafe
  <2>3. AboveIn(h, i) \subseteq {i} \cup AboveIn(holder, d)
    BY <1>5, <2>1, <2>2, PutInto
  <2>4. j \notin AboveIn(holder, d)
    <3>1. CASE d \in Bag
      BY <1>2, <3>1 DEF Apart
    <3>2. CASE d \notin Bag
      <4>1. d = q
        BY <1>2, <3>2 DEF PlacesFor
      <4> QED BY <1>1, <4>1, Outermost, TradeAssumption
    <3> QED BY <3>1, <3>2
  <2> QED BY <1>1, <2>3, <2>4
<1>9. i \in Item => q \in AboveIn(holder', i)
  BY <1>6, <1>7, <1>8
<1>10. j \in Stackable /\ holder' = h => AboveIn(holder', j) \cap {q, Ground} # {}
  <2> SUFFICES ASSUME j \in Stackable, holder' = h
               PROVE  AboveIn(h, j) \cap {q, Ground} # {}
    OBVIOUS
  <2>1. j \in Item
    BY TradeAssumption
  <2>2. AboveIn(holder, j) \cap {q, Ground} # {}
    BY <1>1, <2>1 DEF Inv, OffersNear, Near, Above, j
  <2>3. AboveIn(h, j) = AboveIn(holder, j)
    <3>1. i \in Item => i \notin AboveIn(holder, j)
      BY <1>1, <2>1
    <3>2. Placed(holder, i, q, h)
      BY <1>2
    <3> QED BY <1>1, <1>5, <3>1, <3>2, PlacedKeeps
  <2> QED BY <2>2, <2>3
<1>11. /\ IF i = Deed THEN owner' = q ELSE q \in AboveIn(holder', i)
       /\ \/ IF j = Deed THEN owner' = p ELSE p \in AboveIn(holder', j)
          \/ j \in Stackable /\ AboveIn(holder', j) \cap {q, Ground} # {}
  <2>1. i = Deed => owner' = q
    BY <1>3
  <2>2. j = Deed => owner' = p
    BY <1>1, <1>3
  <2> QED BY <1>1, <1>4, <1>7, <1>9, <1>10, <2>1, <2>2
<1>12. exchange'.to = q /\ exchange'.from = p /\ exchange'.given = i /\ exchange'.got = j
  BY <1>3
<1> QED BY <1>11, <1>12 DEF Exchanged, Has, Near, Above

-----------------------------------------------------------------------------
(* The theorems                                                            *)

LEMMA NextInv ==
  ASSUME Inv, [Next]_vars
  PROVE  Inv'
<1>1. ASSUME NEW p \in Player, NEW q \in Player, SellHouse(p, q) PROVE Inv'
  BY <1>1, SellHouseInv
<1>2. ASSUME NEW p \in Player, NEW q \in Player, NEW i \in Item, RequestTrade(p, q, i)
      PROVE  Inv'
  BY <1>2, RequestTradeInv
<1>3. ASSUME NEW p \in Player, AcceptFirst(p) PROVE Inv'
  BY <1>3, AcceptFirstInv
<1>4. ASSUME NEW p \in Player, AcceptFails(p) \/ CloseTrade(p) PROVE Inv'
  <2>1. {p} \in SUBSET Player /\ online' = online /\ online \in SUBSET Player
    BY <1>4 DEF AcceptFails, CloseTrade, Inv, TypeOK
  <2> QED BY <1>4, <2>1, CloseInv DEF AcceptFails, CloseTrade, Idle
<1>5. ASSUME NEW p \in Player, Transfer(p) PROVE Inv'
  BY <1>5, TransferInv
<1>6. ASSUME NEW p \in Player, Leave(p) PROVE Inv'
  BY <1>6, LeaveInv
<1>7. ASSUME NEW p \in Player, Enter(p) PROVE Inv'
  BY <1>7 DEF Enter, Idle, Inv, TypeOK, Mutual, OffersDisjoint, ItemsOf, Overlap, Above,
              DeedIsOffered, AskedOffersNothing, OffersNear, Near, AcyclicIn
<1>8. ASSUME NEW i \in Item, UpdateItem(i) PROVE Inv'
  <2> DEFINE S == {p \in Player : trade[p].item \in Item /\ trade[p].item \in Above(i)}
  <2>1. S \in SUBSET Player /\ online' = online /\ online \in SUBSET Player /\ CloseTrades(S)
    BY <1>8 DEF UpdateItem, Inv, TypeOK
  <2> HIDE DEF S
  <2> QED BY <1>8, <2>1, CloseInv DEF UpdateItem, Idle
<1>9. ASSUME NEW i \in Item, NEW d \in Player \cup {Ground} \cup Bag, MoveItem(i, d)
      PROVE  Inv'
  BY <1>9, MoveItemInv
<1>10. ASSUME NEW g \in Player \cup {None}, SetOwner(g) PROVE Inv'
  BY <1>10 DEF SetOwner, Idle, Inv, TypeOK, Mutual, OffersDisjoint, ItemsOf, Overlap, Above,
               DeedIsOffered, AskedOffersNothing, OffersNear, Near, AcyclicIn
<1>11. CASE UNCHANGED vars
  BY <1>11 DEF vars, Inv, TypeOK, Mutual, OffersDisjoint, ItemsOf, Overlap, Above,
               DeedIsOffered, AskedOffersNothing, OffersNear, Near, AcyclicIn
<1> QED
  BY <1>1, <1>2, <1>3, <1>4, <1>5, <1>6, <1>7, <1>8, <1>9, <1>10, <1>11 DEF Next

\* The inductive invariant holds in every state of a trade.
THEOREM Invariance == Spec => []Inv
<1>1. Init => Inv
  BY InitInv
<1>2. Inv /\ [Next]_vars => Inv'
  BY NextInv
<1> QED BY <1>1, <1>2, PTL DEF Spec

\* Every variable has its type.
THEOREM TypeCorrect == Spec => []TypeOK
<1>1. Inv => TypeOK
  BY DEF Inv
<1> QED BY <1>1, Invariance, PTL

\* Both sides of a trade agree on it, and both are in the game (tradePartner,
\* tradeState), whatever ends it.
THEOREM TradesAreMutual == Spec => []Mutual
<1>1. Inv => Mutual
  BY DEF Inv
<1> QED BY <1>1, Invariance, PTL

\* No offer contains another one, however deep items are put into each other
\* (Game::tradeItems, Player::checkTradeState).
THEOREM OffersStayDisjoint == Spec => []OffersDisjoint
<1>1. Inv => OffersDisjoint
  BY DEF Inv
<1> QED BY <1>1, Invariance, PTL

\* A house can be sold again whenever no trade offers it (House::transferItem).
THEOREM DeedIsFreed == Spec => []DeedIsOffered
<1>1. Inv => DeedIsOffered
  BY DEF Inv
<1> QED BY <1>1, Invariance, PTL

\* A trade that is completed has given one side what the other offered, and the
\* other what the first offered, but for a stackable item, which may have stayed
\* (playerAcceptTrade ignores the result of the second move).
THEOREM TradesExchange == Spec => []Exchanged
<1>1. Init => Exchanged
  BY DEF Init, Exchanged
<1>2. Inv /\ Exchanged /\ [Next]_vars => Exchanged'
  <2> SUFFICES ASSUME Inv, Exchanged, [Next]_vars PROVE Exchanged'
    OBVIOUS
  <2>1. ASSUME NEW p \in Player, Transfer(p) PROVE Exchanged'
    BY <2>1, TransferExchanges
  <2>2. CASE exchange' = None
    BY <2>2 DEF Exchanged
  <2>3. CASE UNCHANGED vars
    BY <2>3 DEF vars, Exchanged, Has, Near, Above
  <2>4. ASSUME Next PROVE exchange' = None \/ \E p \in Player : Transfer(p)
    BY <2>4 DEF Next, SellHouse, RequestTrade, AcceptFirst, AcceptFails, CloseTrade,
                Leave, Enter, UpdateItem, MoveItem, SetOwner, Idle
  <2> QED BY <2>1, <2>2, <2>3, <2>4
<1> QED BY <1>1, <1>2, Invariance, PTL DEF Spec
=============================================================================
