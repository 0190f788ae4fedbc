-------------------------------- MODULE Party --------------------------------
(***************************************************************************)
(* Parties: invitations, membership, leadership, shared experience, and    *)
(* the party's chat channel (src/src/party.cpp, the party handlers of      *)
(* game.cpp, the party channel of chat.cpp, Player::onRemoveCreature).     *)
(*                                                                         *)
(* Party objects are raw pointers: Address is the memory they live in, and *)
(* a deleted one's address may be given to the next.  All of it runs on    *)
(* the dispatcher thread, so that a handler is one step.                   *)
(***************************************************************************)
EXTENDS Naturals, FiniteSets, SequencesExt

CONSTANTS Player, Address, None,
          Exempt,   \* players whose group has PlayerFlag_NotGainInFight
          Vetoes    \* party events whose script may answer false

Events == {"join", "leave", "disband"}

VARIABLES party,      \* the Party at an address, or None
          partyOf,    \* Player::party
          invitedTo,  \* Player::invitePartyList
          channel,    \* Chat::partyChannels: users of the channel kept for an address
          online      \* players in the game

vars == <<party, partyOf, invitedTo, channel, online>>

Parties == [leader : Player, members : Seq(Player), invites : SUBSET Player,
            points : SUBSET Player,    \* keys of ticksMap
            active : BOOLEAN, enabled : BOOLEAN]

ASSUME PartyAssumption ==
  None \notin Player \cup Address /\ None \notin Parties
  /\ Exempt \subseteq Player /\ Vetoes \subseteq Events

World == [party |-> party, partyOf |-> partyOf, invitedTo |-> invitedTo, channel |-> channel]

Becomes(w) ==
  /\ party' = w.party /\ partyOf' = w.partyOf
  /\ invitedTo' = w.invitedTo /\ channel' = w.channel

Init ==
  /\ party = [P \in Address |-> None]
  /\ partyOf = [p \in Player |-> None]
  /\ invitedTo = [p \in Player |-> {}]
  /\ channel = [P \in Address |-> None]
  /\ online = {}

\* What the scripts of a step answer, and whether levels, distances and the age of
\* the points allow sharing.
Answers == {a \in [Events \cup {"near"} -> BOOLEAN] : \A e \in Events \ Vetoes : a[e]}

NewParty(p) == [leader |-> p, members |-> <<>>, invites |-> {}, points |-> {},
                active |-> FALSE, enabled |-> FALSE]

People(g) == {g.leader} \cup ToSet(g.members)
Empty(g)  == g.members = <<>> /\ g.invites = {}

IsInviting(p, q) ==
  /\ partyOf[p] # None
  /\ party[partyOf[p]].leader = p
  /\ q \in party[partyOf[p]].invites

Leads(p) == partyOf[p] # None /\ party[partyOf[p]].leader = p

-----------------------------------------------------------------------------
(* What the handlers are made of: a world and the scripts' answers to a     *)
(* world                                                                    *)

\* Each one has points, but for those who are never given any.
Fought(g) == People(g) \ Exempt \subseteq g.points

\* Party::canEnableSharedExperience.
CanShare(g, a) == a["near"] /\ g.members # <<>> /\ Fought(g)

\* Party::updateSharedExperience.
Update(g, a) == IF g.active THEN [g EXCEPT !.enabled = CanShare(g, a)] ELSE g

\* Party::passPartyLeadership: the old leader becomes the first member.
Pass(g, p, a) ==
  Update([g EXCEPT !.leader = p, !.members = <<g.leader>> \o RemoveFirst(@, p)], a)

\* Party::clearPlayerPoints.
ClearPoints(g, p, a) ==
  IF p \in g.points THEN Update([g EXCEPT !.points = @ \ {p}], a) ELSE g

\* Chat::removeUserFromChannel for the party channel of each of the players S, which
\* is looked up by the user's party.
CloseChannelOf(w, S) ==
  [w EXCEPT !.channel = [P \in Address |->
     IF @[P] = None THEN None ELSE @[P] \ {p \in S : w.partyOf[p] = P}]]

\* setParty(nullptr), then sendClosePrivate(CHANNEL_PARTY): the channel is not found
\* any more, and the player goes on hearing it until he logs out.
SetFree(w, S) ==
  CloseChannelOf([w EXCEPT !.partyOf = [p \in Player |-> IF p \in S THEN None ELSE @[p]]], S)

Members(w, Ps) == UNION {People(w.party[P]) : P \in Ps}
Delete(f, Ps)  == [P \in Address |-> IF P \in Ps THEN None ELSE f[P]]

\* A bug: invited players are not told.
DisbandSilently(w, Ps, a) ==
  [SetFree(w, Members(w, Ps)) EXCEPT !.party = Delete(@, Ps)]

\* Party::disband for each of the parties Ps: none touches what another one keeps.
Disband(w, Ps, a) ==
  IF a["disband"]
    THEN [SetFree(w, Members(w, Ps)) EXCEPT
            !.invitedTo = [p \in Player |->
               {P \in @[p] : P \in Ps => p \notin w.party[P].invites}],
            !.party = Delete(@, Ps)]
    ELSE w

DisbandEmpty(w, Ps, a) == Disband(w, {P \in Ps : Empty(w.party[P])}, a)

\* Whether p leaves nobody behind who could lead.
MissingLeader(g, p) ==
  g.leader = p /\ (g.members = <<>> \/ (Len(g.members) = 1 /\ g.invites = {}))

\* The party after p: led by its first member if p led it.
Without(g, p, a) ==
  LET passed == IF g.leader = p /\ ~MissingLeader(g, p) THEN Pass(g, Head(g.members), a) ELSE g
  IN  ClearPoints(Update([passed EXCEPT !.members = RemoveFirst(@, p)], a), p, a)

\* Party::leaveParty.
LeaveParty(w, P, p, a) ==
  LET alone == SetFree([w EXCEPT !.party[P] = Without(@, p, a)], {p})
  IN  IF ~a["leave"] THEN w
      ELSE IF MissingLeader(w.party[P], p) THEN Disband(alone, {P}, a)
                                           ELSE DisbandEmpty(alone, {P}, a)

\* The invitations of p are taken off both lists.
Uninvite(w, Ps, p) ==
  LET Less(g) == [g EXCEPT !.invites = @ \ {p}]
  IN  [w EXCEPT !.party = [P \in Address |-> IF P \in Ps THEN Less(@[P]) ELSE @[P]],
                !.invitedTo[p] = @ \ Ps]

Inviting(w, Ps, p) == {P \in Ps : p \in w.party[P].invites}

\* A bug: a party that has become empty is kept.
RemoveInviteOnly(w, Ps, p, a) == Uninvite(w, Inviting(w, Ps, p), p)

\* Party::removeInvite for each of the parties Ps.  At logout the invited player's
\* own list is cleared afterwards, with the same result.
RemoveInvite(w, Ps, p, a) ==
  DisbandEmpty(Uninvite(w, Inviting(w, Ps, p), p), Inviting(w, Ps, p), a)

\* Player::clearPartyInvitations.
ClearInvitations(w, p, a) ==
  [RemoveInvite(w, w.invitedTo[p], p, a) EXCEPT !.invitedTo[p] = {}]

\* Chat::removeUserFromAllChannels.
RemoveFromChannels(w, p) ==
  [w EXCEPT !.channel =
     [P \in Address |-> IF w.channel[P] = None THEN None ELSE w.channel[P] \ {p}]]

-----------------------------------------------------------------------------
(* The handlers                                                            *)

\* Game::playerInviteToParty with Party::Party and Party::invitePlayer.  Nothing
\* keeps a player from inviting itself.
Invite(p, q, P) ==
  /\ {p, q} \subseteq online
  /\ ~IsInviting(q, p) /\ partyOf[q] = None
  /\ IF partyOf[p] = None THEN party[P] = None ELSE P = partyOf[p] /\ Leads(p)
  /\ LET g == IF partyOf[p] = None THEN NewParty(p) ELSE party[P]
     IN  /\ q \notin g.invites
         /\ party' = [party EXCEPT ![P] = [g EXCEPT !.invites = @ \cup {q}]]
  /\ partyOf' = [partyOf EXCEPT ![p] = P]
  /\ invitedTo' = [invitedTo EXCEPT ![q] = @ \cup {P}]
  /\ UNCHANGED <<channel, online>>

\* A bug: the newcomer's idleness is not noticed.
JoinUnnoticed(p, leader, a) ==
  LET P == partyOf[leader]
      joined == [party[P] EXCEPT !.invites = @ \ {p}, !.members = Append(@, p)]
  IN  /\ p \in online /\ IsInviting(leader, p) /\ partyOf[p] = None /\ a["join"]
      /\ party' = [party EXCEPT ![P] = joined]
      /\ partyOf' = [partyOf EXCEPT ![p] = P]
      /\ invitedTo' = [invitedTo EXCEPT ![p] = @ \ {P}]
      /\ UNCHANGED <<channel, online>>

\* Game::playerJoinParty with Party::joinParty.
Join(p, leader, a) ==
  LET P == partyOf[leader]
      joined == [party[P] EXCEPT !.invites = @ \ {p}, !.members = Append(@, p)]
  IN  /\ p \in online /\ IsInviting(leader, p) /\ partyOf[p] = None /\ a["join"]
      /\ party' = [party EXCEPT ![P] = Update(joined, a)]
      /\ partyOf' = [partyOf EXCEPT ![p] = P]
      /\ invitedTo' = [invitedTo EXCEPT ![p] = @ \ {P}]
      /\ UNCHANGED <<channel, online>>

\* Game::playerRevokePartyInvitation.
Revoke(p, q, a) ==
  /\ {p, q} \subseteq online /\ IsInviting(p, q)
  /\ Becomes(RemoveInvite(World, {partyOf[p]}, q, a))
  /\ UNCHANGED online

\* Game::playerPassPartyLeadership.
PassLeadership(p, q, a) ==
  /\ {p, q} \subseteq online /\ Leads(p) /\ q # p /\ partyOf[q] = partyOf[p]
  /\ party' = [party EXCEPT ![partyOf[p]] = Pass(@, q, a)]
  /\ UNCHANGED <<partyOf, invitedTo, channel, online>>

\* Game::playerLeaveParty of a player that is not in a fight.
Leave(p, a) ==
  /\ p \in online /\ partyOf[p] # None
  /\ Becomes(LeaveParty(World, partyOf[p], p, a))
  /\ UNCHANGED online

\* Game::playerEnableSharedPartyExperience with Party::setSharedExperience.
EnableShared(p, on, a) ==
  /\ p \in online /\ Leads(p)
  /\ LET g == party[partyOf[p]]
     IN  /\ g.active # on
         /\ party' = [party EXCEPT ![partyOf[p]] =
              [g EXCEPT !.active = on, !.enabled = IF on THEN CanShare(g, a) ELSE @]]
  /\ UNCHANGED <<partyOf, invitedTo, channel, online>>

\* Party::updatePlayerTicks: p hurt a monster or healed a companion.
Fight(p, a) ==
  /\ p \in online /\ p \notin Exempt /\ partyOf[p] # None
  /\ LET g == party[partyOf[p]]
     IN  party' = [party EXCEPT ![partyOf[p]] = Update([g EXCEPT !.points = @ \cup {p}], a)]
  /\ UNCHANGED <<partyOf, invitedTo, channel, online>>

\* Player::onIdleStatus.
GoIdle(p, a) ==
  /\ p \in online /\ partyOf[p] # None
  /\ party' = [party EXCEPT ![partyOf[p]] = ClearPoints(@, p, a)]
  /\ UNCHANGED <<partyOf, invitedTo, channel, online>>

\* Player::onCreatureMove, and addExperience and death when the level changes.
Walk(p, a) ==
  /\ p \in online /\ partyOf[p] # None
  /\ party' = [party EXCEPT ![partyOf[p]] = Update(@, a)]
  /\ UNCHANGED <<partyOf, invitedTo, channel, online>>

\* Game::playerRequestChannels: Chat::getChannelList creates the party's channel,
\* or finds the one of an earlier party at this address.
RequestChannels(p) ==
  /\ p \in online /\ partyOf[p] # None /\ channel[partyOf[p]] = None
  /\ channel' = [channel EXCEPT ![partyOf[p]] = {}]
  /\ UNCHANGED <<party, partyOf, invitedTo, online>>

\* Game::playerOpenChannel.
OpenChannel(p) ==
  /\ p \in online /\ partyOf[p] # None /\ channel[partyOf[p]] # None
  /\ channel' = [channel EXCEPT ![partyOf[p]] = @ \cup {p}]
  /\ UNCHANGED <<party, partyOf, invitedTo, online>>

\* Game::playerCloseChannel.
CloseChannel(p) ==
  /\ p \in online
  /\ Becomes(CloseChannelOf(World, {p}))
  /\ UNCHANGED online

Login(p) ==
  /\ p \notin online
  /\ online' = online \cup {p}
  /\ UNCHANGED <<party, partyOf, invitedTo, channel>>

\* A bug: the invitations of a player that leaves the game are kept.
LogoutInvited(p, a) ==
  /\ p \in online
  /\ LET w == IF partyOf[p] = None THEN World ELSE LeaveParty(World, partyOf[p], p, a)
     IN  Becomes(RemoveFromChannels(w, p))
  /\ online' = online \ {p}

\* Player::onRemoveCreature.
Logout(p, a) ==
  /\ p \in online
  /\ LET uninvited == ClearInvitations(World, p, a)
         P         == uninvited.partyOf[p]
         left      == IF P = None THEN uninvited ELSE LeaveParty(uninvited, P, p, a)
     IN  Becomes(RemoveFromChannels(left, p))
  /\ online' = online \ {p}

Next ==
  \E p \in Player :
    \/ RequestChannels(p) \/ OpenChannel(p) \/ CloseChannel(p) \/ Login(p)
    \/ \E q \in Player, P \in Address : Invite(p, q, P)
    \/ \E a \in Answers :
         \/ \E q \in Player : Join(p, q, a) \/ Revoke(p, q, a) \/ PassLeadership(p, q, a)
         \/ \E on \in BOOLEAN : EnableShared(p, on, a)
         \/ Leave(p, a) \/ Fight(p, a) \/ GoIdle(p, a) \/ Walk(p, a) \/ Logout(p, a)

Spec == Init /\ [][Next]_vars

-----------------------------------------------------------------------------
TypeOK ==
  /\ party \in [Address -> Parties \cup {None}]
  /\ partyOf \in [Player -> Address \cup {None}]
  /\ invitedTo \in [Player -> SUBSET Address]
  /\ channel \in [Address -> (SUBSET Player) \cup {None}]
  /\ online \subseteq Player

\* A player's party and invitations and the lists of the parties tell the same
\* (Player::party, Party::leader and memberList; invitePartyList and inviteList):
\* no player points to a deleted party, and no party to a player it has lost.
Mutual ==
  \A P \in Address, p \in Player :
    /\ partyOf[p] = P <=> party[P] # None /\ p \in People(party[P])
    /\ P \in invitedTo[p] <=> party[P] # None /\ p \in party[P].invites

\* A party and a party channel hold pointers to players in the game only: whoever
\* leaves it has been taken off every list (Player::onRemoveCreature).
InGame ==
  \A P \in Address :
    /\ party[P] # None => People(party[P]) \cup party[P].invites \subseteq online
    /\ channel[P] # None => channel[P] \subseteq online

\* A party has a member besides its leader or an invitation that is not answered
\* (the leader's own, where he has invited himself), and lists each of its people
\* once: the last one who leaves, declines or is revoked takes it down
\* (Party::leaveParty, removeInvite).
NeverAlone ==
  \A P \in Address : party[P] # None =>
    /\ ~Empty(party[P])
    /\ Len(party[P].members) + 1 = Cardinality(People(party[P]))

\* Experience is shared only in a party of two or more of whom each one, unless the
\* flag of his group exempts him, has done something for it: every change of the
\* members or their points reaches the cached sharedExpEnabled, and who leaves
\* loses its points.
SharedByFighters ==
  \A P \in Address : party[P] # None =>
    /\ party[P].points \subseteq People(party[P])
    /\ party[P].active /\ party[P].enabled =>
         party[P].members # <<>> /\ Fought(party[P])
=============================================================================
