-------------------------------- MODULE Trade --------------------------------
(***************************************************************************)
(* The trade of two players (src/src/game.cpp, playerRequestTrade to       *)
(* internalCloseTrade), what ends it from outside (player.cpp: an item of  *)
(* it is moved, a player walks away or leaves), and the sale of a house,   *)
(* which trades a document that stands for it (commands.cpp, house.cpp).   *)
(*                                                                         *)
(* All of it runs on the dispatcher thread: a packet's handler, with every *)
(* notification it causes, is one step.  Positions, weights and scripts    *)
(* appear as the answers they give.                                        *)
(***************************************************************************)
CONSTANTS Player,
          Item,    \* items that can be traded
          Bag,     \* those that are containers
          Stackable, \* those that may merge with a stack (AUTO_STACK_ITEMS)
          Deed,    \* the HouseTransferItem of the one house
          Ground,
          None

ASSUME TradeAssumption ==
  /\ Bag \subseteq Item /\ Stackable \subseteq Item \ Bag
  /\ Deed \notin Item /\ None \notin Item \cup {Deed}
  /\ Ground \notin Player \cup Item /\ None \notin Player
  /\ Player \cap Item = {}

VARIABLES trade,        \* tradeState, tradePartner and tradeItem of a Player
          tradeItems,   \* Game::tradeItems
          holder,       \* Item::parent
          online,       \* players in the game
          owner,        \* House::owner
          transferItem, \* House::transferItem
          exchange      \* history: the trade that the last step completed

vars == <<trade, tradeItems, holder, online, owner, transferItem, exchange>>

States == {"none", "initiated", "accept", "acknowledge"}
Goods  == Item \cup {Deed}

NoTrade == [state |-> "none", partner |-> None, item |-> None]

Init ==
  /\ trade = [p \in Player |-> NoTrade]
  /\ tradeItems = {}
  /\ holder \in [Item -> Player \cup {Ground}]
  /\ online = Player
  /\ owner \in Player \cup {None}
  /\ transferItem = FALSE
  /\ exchange = None

\* A set of items that has, with an item, the one that is its parent.
Closed(h, S) == \A y \in S : h[y] \in Item => h[y] \in S

\* i, if it is an item, its parent, the parent of that ... as far as they are items.
ItemsAbove(h, i) ==
  {x \in Item : \A S \in SUBSET Item : Closed(h, S) /\ {i} \cap Item \subseteq S => x \in S}

\* The item i, the containers it is in and who holds them: Item::getParent until
\* there is none, and isHoldingItem read from the other end.
AboveIn(h, i) == {i} \cup ItemsAbove(h, i) \cup {h[x] : x \in ItemsAbove(h, i)}

Above(i) == AboveIn(holder, i)

\* One is the other or contains it.
Overlap(i, j) == i \in Above(j) \/ j \in Above(i)

\* p has the item, or it lies on the ground.
Near(p, i) == Above(i) \cap {p, Ground} # {}

-----------------------------------------------------------------------------
(* Ending trades                                                           *)

PartnersOf(S) == {trade[p].partner : p \in S} \cap Player

\* The items of the players S.
ItemsOf(S) == {trade[p].item : p \in S} \cap Goods

\* A bug: the document of a house is not told.
CloseQuietly(S) ==
  LET both == S \cup PartnersOf(S)
  IN  /\ trade' = [p \in Player |-> IF p \in both THEN NoTrade ELSE trade[p]]
      /\ tradeItems' = tradeItems \ ItemsOf(both)
      /\ UNCHANGED transferItem

\* Game::internalCloseTrade of the players S, on both sides.  onTradeEvent of the
\* document of a house resets the house's transfer item.
CloseTrades(S) ==
  LET both == S \cup PartnersOf(S)
  IN  /\ trade' = [p \in Player |-> IF p \in both THEN NoTrade ELSE trade[p]]
      /\ tradeItems' = tradeItems \ ItemsOf(both)
      /\ transferItem' = (transferItem /\ Deed \notin ItemsOf(both))

\* onRemoveContainerItem, onRemoveInventoryItem and onRemoveTileItem: the item
\* that t's owner trades is moved, something in it is, or something around it; in
\* a container, also something beside a container of it.
SeesRemoval(t, i) ==
  \/ t \in Above(i)
  \/ IF holder[i] \in Bag THEN holder[i] \in Above(t) /\ holder[t] # holder[i]
                          ELSE i \in Above(t)

\* A bug: only the traded item itself is watched.
DisturbedItself(i, h) == {p \in Player : trade[p].item = i}

\* Players whose trade ends when i is moved and h are the new holders:
\* Player::checkTradeState before the removal and after the addition.
Disturbed(i, h) ==
  {p \in Player : /\ trade[p].item \in Item
                  /\ \/ SeesRemoval(trade[p].item, i)
                     \/ h[i] \in Bag /\ trade[p].item \in AboveIn(h, i)}

-----------------------------------------------------------------------------
(* Packets                                                                 *)

Idle == exchange' = None

\* playerRequestTrade: no traded item may contain it, or be in it.
AlreadyTraded(i) == \E j \in tradeItems \ {Deed} : Overlap(i, j)

\* internalStartTrade
MayStart(p, q) ==
  /\ trade[p].state = "none" \/ (trade[p].state = "acknowledge" /\ trade[p].partner = q)
  /\ trade[q].state = "none" \/ trade[q].partner = p

StartTrade(p, q, i) ==
  /\ trade' = [trade EXCEPT
       ![p] = [state |-> "initiated", partner |-> q, item |-> i],
       ![q] = IF @.state = "none" THEN [@ EXCEPT !.state = "acknowledge", !.partner = p]
                                  ELSE @]
  /\ tradeItems' = tradeItems \cup {i}

\* The item is the player's or lies beside him; eventPlayerOnTradeRequest agrees.
RequestTrade(p, q, i) ==
  /\ {p, q} \subseteq online /\ p # q
  /\ Near(p, i)
  /\ ~AlreadyTraded(i) /\ MayStart(p, q)
  /\ StartTrade(p, q, i)
  /\ Idle /\ UNCHANGED <<holder, online, owner, transferItem>>

\* Commands::sellHouse: when the trade cannot start, the transfer item is reset.
SellHouse(p, q) ==
  /\ {p, q} \subseteq online /\ p # q
  /\ owner = p /\ ~transferItem
  /\ MayStart(p, q)
  /\ transferItem' = TRUE
  /\ StartTrade(p, q, Deed)
  /\ Idle /\ UNCHANGED <<holder, online, owner>>

\* A bug: the transfer begins with the first acceptance.
AcceptEarly(p) ==
  LET q == trade[p].partner
  IN  /\ trade[p].state \in {"acknowledge", "initiated"}
      /\ trade[q].state # "accept"
      /\ trade' = [trade EXCEPT ![p].state = "transfer"]
      /\ Idle /\ UNCHANGED <<tradeItems, holder, online, owner, transferItem>>

\* playerAcceptTrade of the first of the two.
AcceptFirst(p) ==
  LET q == trade[p].partner
  IN  /\ trade[p].state \in {"acknowledge", "initiated"}
      /\ trade[q].state # "accept"
      /\ trade' = [trade EXCEPT ![p].state = "accept"]
      /\ Idle /\ UNCHANGED <<tradeItems, holder, online, owner, transferItem>>

SecondAccepts(p) ==
  /\ trade[p].state \in {"acknowledge", "initiated"}
  /\ trade[trade[p].partner].state = "accept"

\* The script says no, a player offers nothing, or an item has no room: both
\* sides are closed, and the events of their items are the same.
AcceptFails(p) ==
  /\ SecondAccepts(p)
  /\ CloseTrades({p})
  /\ Idle /\ UNCHANGED <<holder, online, owner>>

\* Where internalMoveItem may put i for r: in his inventory or in a bag there.
PlacesFor(h, i, r) == {r} \cup {b \in Bag : r \in AboveIn(h, b) /\ i \notin AboveIn(h, b)}

\* A bug: an item may be put into the one that goes the other way.
NotInto(h, d, j) == TRUE

\* The argument tradeItem of internalMoveItem.
Apart(h, d, j) == d \notin Bag \/ j \notin AboveIn(h, d)

Moved(h, i, d) == IF i = Deed THEN h ELSE [h EXCEPT ![i] = d]

\* The second internalMoveItem, of j to p; its result is not looked at.  The tests
\* have found room for j where it may merge with a stack, and the move may not: a
\* stackable j can stay where it is.
SecondMove(h, j, p) ==
  \/ \E e \in PlacesFor(h, j, p) : holder' = Moved(h, j, e)
  \/ j \in Stackable /\ holder' = h

\* playerAcceptTrade of the second: i goes to q, then j to p, while TRADE_TRANSFER
\* keeps both trades open.  Both items are told, and the trade has succeeded,
\* whether or not the second has moved.
Transfer(p) ==
  LET q == trade[p].partner
      i == trade[p].item
      j == trade[q].item
  IN  /\ SecondAccepts(p)
      /\ i # None /\ j # None
      /\ \E d \in PlacesFor(holder, i, q) :
           /\ Apart(holder, d, j)
           /\ LET h == Moved(holder, i, d)
              IN  SecondMove(h, j, p)
      /\ trade' = [trade EXCEPT ![p] = NoTrade, ![q] = NoTrade]
      /\ tradeItems' = tradeItems \ {i, j}
      /\ transferItem' = (transferItem /\ Deed \notin {i, j})
      /\ owner' = IF i = Deed THEN q ELSE IF j = Deed THEN p ELSE owner
      /\ exchange' = [from |-> p, to |-> q, given |-> i, got |-> j]
      /\ UNCHANGED online

\* playerCloseTrade; onCreatureMove when the item or the partner is too far away.
CloseTrade(p) ==
  /\ trade[p].state # "none"
  /\ CloseTrades({p})
  /\ Idle /\ UNCHANGED <<holder, online, owner>>

-----------------------------------------------------------------------------
(* The rest of the game                                                    *)

\* The items of a player who is gone are gone with him.
InGame(x) == AboveIn(holder, x) \cap (online \cup {Ground}) # {}

\* Any move of an item, by a player or by a script.
MoveItem(i, d) ==
  LET h == [holder EXCEPT ![i] = d]
  IN  /\ InGame(i) /\ InGame(d)
      /\ d # holder[i] /\ i \notin Above(d)
      /\ holder' = h
      /\ CloseTrades(Disturbed(i, h))
      /\ Idle /\ UNCHANGED <<online, owner>>

\* Its count or type changes: onUpdateContainerItem and the like.
UpdateItem(i) ==
  /\ InGame(i)
  /\ CloseTrades({p \in Player : trade[p].item \in Item /\ trade[p].item \in Above(i)})
  /\ Idle /\ UNCHANGED <<holder, online, owner>>

\* A bug: a player who leaves without an item of his own does not close the trade.
LeaveWith(p) == IF trade[p].item # None THEN {p} ELSE {}

\* Player::onRemoveCreature
Leaving(p) == IF trade[p].partner # None THEN {p} ELSE {}

Leave(p) ==
  /\ p \in online
  /\ online' = online \ {p}
  /\ CloseTrades(Leaving(p))
  /\ Idle /\ UNCHANGED <<holder, owner>>

Enter(p) ==
  /\ p \notin online
  /\ online' = online \cup {p}
  /\ Idle /\ UNCHANGED <<trade, tradeItems, holder, owner, transferItem>>

\* House::setOwner by a script (leavehouse.lua, buyhouse.lua) or for unpaid rent;
\* a sale that is under way is left alone.
SetOwner(g) ==
  /\ g # owner
  /\ owner' = g
  /\ Idle /\ UNCHANGED <<trade, tradeItems, holder, online, transferItem>>

Next ==
  \/ \E p, q \in Player : SellHouse(p, q) \/ \E i \in Item : RequestTrade(p, q, i)
  \/ \E p \in Player :
       \/ AcceptFirst(p) \/ AcceptFails(p) \/ Transfer(p) \/ CloseTrade(p)
       \/ Leave(p) \/ Enter(p)
  \/ \E i \in Item : UpdateItem(i) \/ \E d \in Player \cup {Ground} \cup Bag : MoveItem(i, d)
  \/ \E g \in Player \cup {None} : SetOwner(g)

Spec == Init /\ [][Next]_vars

-----------------------------------------------------------------------------
(* Properties                                                              *)

\* Every variable has its type; TRADE_TRANSFER exists only within a step.
TypeOK ==
  /\ trade \in [Player -> [state : States, partner : Player \cup {None},
                           item : Goods \cup {None}]]
  /\ tradeItems \in SUBSET Goods
  /\ holder \in [Item -> Player \cup Bag \cup {Ground}]
  /\ online \in SUBSET Player
  /\ owner \in Player \cup {None}
  /\ transferItem \in BOOLEAN
  /\ exchange \in {None} \cup [from : Player, to : Player, given : Goods, got : Goods]

\* tradePartner (a raw pointer) is mutual and never left at a player who is gone:
\* each trade has two players, of whom one at least offers something.
Mutual ==
  \A p \in Player :
    LET q == trade[p].partner
    IN  IF trade[p].state = "none"
          THEN trade[p] = NoTrade
          ELSE /\ q \in online /\ p \in online /\ q # p
               /\ trade[q].partner = p
               /\ trade[p].item # None \/ trade[q].item # None

\* tradeItems holds exactly what the players offer, each thing once, and nothing
\* that is offered contains another offer, wherever items were moved meanwhile:
\* one of them could otherwise leave inside the other.
OffersDisjoint ==
  /\ tradeItems = ItemsOf(Player)
  /\ \A p, q \in Player :
       p # q /\ trade[p].item # None /\ trade[q].item # None
         => /\ trade[p].item # trade[q].item
            /\ {trade[p].item, trade[q].item} \subseteq Item
                 => ~Overlap(trade[p].item, trade[q].item)

\* A completed trade has given one side the other's item or the house, and that
\* side has given its own, unless that is stackable: then it may have kept it.
Has(p, i) == IF i = Deed THEN owner = p ELSE p \in Above(i)

Exchanged ==
  exchange # None =>
    /\ Has(exchange.to, exchange.given)
    /\ \/ Has(exchange.from, exchange.got)
       \/ exchange.got \in Stackable /\ Near(exchange.to, exchange.got)

\* A house has a transfer item exactly while one trade offers it: however the
\* trade ends, the house can be sold again.
DeedIsOffered == transferItem <=> \E p \in Player : trade[p].item = Deed
=============================================================================
