----------------------------- MODULE PartyProofs -----------------------------
(***************************************************************************)
(* The safety properties of parties hold for any number of players and     *)
(* addresses, as long as no script keeps a player in a party or a party    *)
(* alive: the events "leave" and "disband" are not vetoed (NoVetoes), as   *)
(* in src/data/events/scripts/party.lua.                                   *)
(*                                                                         *)
(* A handler is a function on worlds.  What holds between handlers is      *)
(* Sound; the lemmas follow the functions from the inside out, and Linked  *)
(* says how much of it the worlds in between have to keep for the disband  *)
(* that ends them to make it whole.                                        *)
(***************************************************************************)
EXTENDS Party, FiniteSetTheorems, TLAPS

-----------------------------------------------------------------------------
(* The member list                                                         *)

Distinct(s) == \A i, j \in DOMAIN s : s[i] = s[j] => i = j

\* What two lists make together.
LEMMA Concatenation ==
  ASSUME NEW S, NEW a \in Seq(S), NEW b \in Seq(S), NEW t, t = a \o b
  PROVE  /\ t \in Seq(S) /\ Len(t) = Len(a) + Len(b)
         /\ \A i \in 1 .. Len(t) : t[i] = IF i <= Len(a) THEN a[i] ELSE b[i - Len(a)]
<1>1. t \in Seq(S) /\ Len(t) = Len(a) + Len(b)
  OBVIOUS
<1>2. ASSUME NEW i \in 1 .. Len(t)  PROVE t[i] = IF i <= Len(a) THEN a[i] ELSE b[i - Len(a)]
  OBVIOUS
<1> QED BY <1>1, <1>2

\* std::find and erase remove one element of a list without duplicates, and it alone.
LEMMA Erase ==
  ASSUME NEW S, NEW s \in Seq(S), NEW x, Distinct(s)
  PROVE  /\ RemoveFirst(s, x) \in Seq(S)
         /\ Distinct(RemoveFirst(s, x))
         /\ ToSet(RemoveFirst(s, x)) = ToSet(s) \ {x}
<1>1. CASE \E i \in 1 .. Len(s) : s[i] = x
  <2>1. PICK k \in 1 .. Len(s) : s[k] = x
    BY <1>1
  <2>2. SelectInSeq(s, LAMBDA v : v = x) = k
    <3>1. {i \in 1 .. Len(s) : s[i] = x} = {k}
       BY <2>1 DEF Distinct
    <3>2. Min({k}) = k
       BY DEF Min
    <3> QED BY <2>1, <3>1, <3>2 DEF SelectInSeq
  <2>3. RemoveFirst(s, x) = SubSeq(s, 1, k - 1) \o SubSeq(s, k + 1, Len(s))
    BY <1>1, <2>2 DEF RemoveFirst, RemoveAt
  <2>t. PICK t : t = RemoveFirst(s, x)
    OBVIOUS
  <2>4. /\ t \in Seq(S) /\ Len(t) = Len(s) - 1
        /\ \A i \in 1 .. Len(s) - 1 : t[i] = IF i < k THEN s[i] ELSE s[i + 1]
    <3>a. PICK a, b : a = SubSeq(s, 1, k - 1) /\ b = SubSeq(s, k + 1, Len(s))
      OBVIOUS
    <3>1. a \in Seq(S) /\ Len(a) = k - 1 /\ \A i \in 1 .. k - 1 : a[i] = s[i]
      BY <3>a
    <3>2. /\ b \in Seq(S) /\ Len(b) = Len(s) - k
          /\ \A i \in 1 .. Len(s) - k : b[i] = s[k + i]
      BY <3>a
    <3>3. t = a \o b
      BY <2>3, <2>t, <3>a
    <3>4. /\ t \in Seq(S) /\ Len(t) = Len(a) + Len(b)
          /\ \A i \in 1 .. Len(t) : t[i] = IF i <= Len(a) THEN a[i] ELSE b[i - Len(a)]
      <4>1. a \in Seq(S) /\ b \in Seq(S)
        BY <3>1, <3>2
      <4>2. t \in Seq(S) /\ Len(t) = Len(a) + Len(b)
        BY <4>1, <3>3, Concatenation
      <4>3. \A i \in 1 .. Len(t) : t[i] = IF i <= Len(a) THEN a[i] ELSE b[i - Len(a)]
        BY <4>1, <3>3, Concatenation
      <4> QED BY <4>2, <4>3
    <3>5. Len(s) \in Nat /\ k \in 1 .. Len(s) /\ Len(t) = Len(s) - 1
      BY <3>1, <3>2, <3>4
    <3>6. ASSUME NEW i \in 1 .. Len(s) - 1  PROVE t[i] = IF i < k THEN s[i] ELSE s[i + 1]
      <4>1. CASE i < k
        <5>1. i \in 1 .. k - 1 /\ i <= Len(a) /\ i \in 1 .. Len(t)
          BY <3>1, <3>5, <4>1
        <5> QED BY <3>1, <3>4, <4>1, <5>1
      <4>2. CASE ~(i < k)
        <5>1. /\ i - Len(a) \in 1 .. Len(s) - k /\ ~(i <= Len(a)) /\ i \in 1 .. Len(t)
              /\ k + (i - Len(a)) = i + 1
          BY <3>1, <3>5, <4>2
        <5>2. b[i - Len(a)] = s[i + 1]
          BY <3>2, <5>1
        <5> QED BY <3>4, <4>2, <5>1, <5>2
      <4> QED BY <4>1, <4>2
    <3> QED BY <3>4, <3>5, <3>6
  <2>5. Distinct(t)
    BY <2>4 DEF Distinct
  <2>6. ToSet(t) \subseteq ToSet(s) \ {x}
    BY <2>1, <2>4 DEF Distinct, ToSet
  <2>7. ASSUME NEW i \in DOMAIN s, s[i] # x  PROVE s[i] \in ToSet(t)
    <3>1. CASE i < k
      <4>1. i \in DOMAIN t /\ t[i] = s[i]
        BY <2>4, <3>1
      <4> QED BY <4>1 DEF ToSet
    <3>2. CASE i > k
      <4>1. i - 1 \in DOMAIN t /\ t[i - 1] = s[i]
        BY <2>4, <3>2
      <4> QED BY <4>1 DEF ToSet
    <3> QED BY <2>1, <2>7, <3>1, <3>2
  <2>8. ToSet(s) \ {x} \subseteq ToSet(t)
    BY <2>7 DEF ToSet
  <2> QED BY <2>t, <2>4, <2>5, <2>6, <2>8
<1>2. CASE ~ \E i \in 1 .. Len(s) : s[i] = x
  <2>1. RemoveFirst(s, x) = s
    BY <1>2 DEF RemoveFirst
  <2>2. x \notin ToSet(s)
    BY <1>2 DEF ToSet
  <2> QED BY <2>1, <2>2
<1> QED BY <1>1, <1>2

\* push_back, and insert at the front.
AtBack(s, x)  == Append(s, x)
AtFront(s, x) == <<x>> \o s

LEMMA PushBack ==
  ASSUME NEW S, NEW s \in Seq(S), NEW x \in S, Distinct(s), x \notin ToSet(s),
         NEW t, t = AtBack(s, x)
  PROVE  /\ t \in Seq(S) /\ Distinct(t) /\ t # <<>>
         /\ \A y : y \in ToSet(t) <=> y \in ToSet(s) \/ y = x
<1>1. /\ t \in Seq(S) /\ t # <<>> /\ DOMAIN t = 1 .. Len(s) + 1 /\ t[Len(s) + 1] = x
      /\ \A i \in 1 .. Len(s) : t[i] = s[i]
  BY DEF AtBack
<1>2. DOMAIN s = 1 .. Len(s) /\ Len(s) \in Nat /\ x \notin {s[i] : i \in 1 .. Len(s)}
  BY DEF ToSet
<1>3. Distinct(t)
  BY <1>1, <1>2 DEF Distinct
<1>4. ToSet(t) = {t[i] : i \in 1 .. Len(s) + 1} /\ ToSet(s) = {s[i] : i \in 1 .. Len(s)}
  BY <1>1, <1>2 DEF ToSet
<1>5. ToSet(t) = ToSet(s) \cup {x}
  BY <1>1, <1>2, <1>4
<1> QED BY <1>1, <1>3, <1>5

LEMMA PushFront ==
  ASSUME NEW S, NEW s \in Seq(S), NEW x \in S, Distinct(s), x \notin ToSet(s),
         NEW t, t = AtFront(s, x)
  PROVE  /\ t \in Seq(S) /\ Distinct(t) /\ t # <<>>
         /\ \A y : y \in ToSet(t) <=> y \in ToSet(s) \/ y = x
<1>1. /\ t \in Seq(S) /\ t # <<>> /\ DOMAIN t = 1 .. Len(s) + 1 /\ t[1] = x
      /\ \A i \in 2 .. Len(s) + 1 : t[i] = s[i - 1]
      /\ \A i \in 1 .. Len(s) : t[i + 1] = s[i]
  BY DEF AtFront
<1>2. DOMAIN s = 1 .. Len(s) /\ Len(s) \in Nat /\ x \notin {s[i] : i \in 1 .. Len(s)}
  BY DEF ToSet
<1>3. Distinct(t)
  <2> SUFFICES ASSUME NEW i \in 1 .. Len(s) + 1, NEW j \in 1 .. Len(s) + 1, t[i] = t[j], i < j
               PROVE  FALSE
    BY <1>1, <1>2 DEF Distinct
  <2>1. t[j] = s[j - 1] /\ j - 1 \in DOMAIN s
    BY <1>1, <1>2
  <2>2. CASE i = 1
    BY <1>1, <1>2, <2>1, <2>2
  <2>3. CASE i # 1
    <3>1. t[i] = s[i - 1] /\ i - 1 \in DOMAIN s
      BY <1>1, <1>2, <2>3
    <3> QED BY <2>1, <3>1, <1>2 DEF Distinct
  <2> QED BY <2>2, <2>3
<1>4. ASSUME NEW i \in 1 .. Len(s) + 1  PROVE t[i] \in ToSet(s) \cup {x}
  <2>1. CASE i = 1
    BY <1>1, <2>1
  <2>2. CASE i # 1
    <3>1. i \in 2 .. Len(s) + 1 /\ i - 1 \in DOMAIN s
      BY <1>2, <2>2
    <3> QED BY <1>1, <3>1 DEF ToSet
  <2> QED BY <2>1, <2>2
<1>5. x \in ToSet(t)
  <2>1. 1 \in DOMAIN t
    BY <1>1, <1>2
  <2> QED BY <1>1, <2>1 DEF ToSet
<1>6. ASSUME NEW i \in 1 .. Len(s)  PROVE s[i] \in ToSet(t)
  <2>1. i + 1 \in DOMAIN t /\ t[i + 1] = s[i]
    BY <1>1, <1>2
  <2> QED BY <2>1 DEF ToSet
<1>7. ToSet(t) = ToSet(s) \cup {x}
  <2>1. ToSet(t) \subseteq ToSet(s) \cup {x}
    BY <1>1, <1>4 DEF ToSet
  <2>2. ToSet(s) \subseteq ToSet(t)
    BY <1>2, <1>6 DEF ToSet
  <2> QED BY <1>5, <2>1, <2>2
<1> QED BY <1>1, <1>3, <1>7

\* A list without duplicates is as long as it has elements.
LEMMA Length ==
  ASSUME NEW S, NEW s \in Seq(S), Distinct(s)
  PROVE  IsFiniteSet(ToSet(s)) /\ Cardinality(ToSet(s)) = Len(s)
<1>1. Len(s) \in Nat /\ DOMAIN s = 1 .. Len(s)
  OBVIOUS
<1>2. s \in Bijection(1 .. Len(s), ToSet(s))
  <2>1. s \in [1 .. Len(s) -> ToSet(s)]
    BY <1>1 DEF ToSet
  <2>2. s \in Injection(1 .. Len(s), ToSet(s))
    BY <1>1, <2>1 DEF Injection, IsInjective, Distinct
  <2>3. s \in Surjection(1 .. Len(s), ToSet(s))
    BY <1>1, <2>1 DEF Surjection, ToSet
  <2> QED BY <2>2, <2>3 DEF Bijection
<1>3. ExistsBijection(1 .. Len(s), ToSet(s))
  BY <1>2 DEF ExistsBijection
<1> QED BY <1>1, <1>3, FS_CountingElements, FS_NatBijection

-----------------------------------------------------------------------------
(* One party                                                               *)

\* The leader and the members are listed once.
Listed(g) == g \in Parties /\ Distinct(g.members) /\ g.leader \notin ToSet(g.members)

\* What the flag sharedExpEnabled says is true.
Fair(g) ==
  g.active /\ g.enabled => g.members # <<>> /\ Fought(g)

GroupOK(g) == Listed(g) /\ g.points \subseteq People(g) /\ Fair(g)

\* Party::updateSharedExperience makes the flag true again and changes nothing else.
LEMMA Updates ==
  ASSUME NEW g, Listed(g), NEW a \in Answers
  PROVE  /\ Listed(Update(g, a)) /\ Fair(Update(g, a))
         /\ Update(g, a).leader = g.leader /\ Update(g, a).members = g.members
         /\ Update(g, a).invites = g.invites /\ Update(g, a).points = g.points
         /\ People(Update(g, a)) = People(g)
<1>1. a["near"] \in BOOLEAN
  BY DEF Answers
<1>2. CanShare(g, a) \in BOOLEAN
  BY <1>1 DEF CanShare, Fought
<1>3. CASE g.active
  <2>1. Update(g, a) = [g EXCEPT !.enabled = CanShare(g, a)]
    BY <1>3 DEF Update
  <2>2. /\ Update(g, a).leader = g.leader /\ Update(g, a).members = g.members
        /\ Update(g, a).invites = g.invites /\ Update(g, a).points = g.points
        /\ Update(g, a) \in Parties
        /\ Update(g, a).enabled = CanShare(g, a)
    BY <1>2, <2>1 DEF Parties, Listed
  <2>3. People(Update(g, a)) = People(g)
    BY <2>2 DEF People
  <2> QED BY <2>2, <2>3 DEF Listed, Fair, CanShare, Fought
<1>4. CASE ~g.active
  BY <1>4 DEF Update, Fair
<1> QED BY <1>3, <1>4

\* Party::passPartyLeadership to a member keeps everybody in the party.
LEMMA Passes ==
  ASSUME NEW g, Listed(g), NEW p \in ToSet(g.members), NEW a \in Answers
  PROVE  /\ Listed(Pass(g, p, a)) /\ Fair(Pass(g, p, a))
         /\ Pass(g, p, a).leader = p /\ Pass(g, p, a).members # <<>>
         /\ Pass(g, p, a).invites = g.invites /\ Pass(g, p, a).points = g.points
         /\ People(Pass(g, p, a)) = People(g)
<1> DEFINE rest == RemoveFirst(g.members, p)
           h == [g EXCEPT !.leader = p, !.members = <<g.leader>> \o rest]
<1>1. /\ g \in Parties /\ g.members \in Seq(Player) /\ g.leader \in Player
      /\ Distinct(g.members) /\ g.leader \notin ToSet(g.members) /\ p \in Player
  BY DEF Listed, Parties, ToSet
<1>2. /\ rest \in Seq(Player) /\ Distinct(rest) /\ ToSet(rest) = ToSet(g.members) \ {p}
  BY <1>1, Erase
<1>3. /\ <<g.leader>> \o rest \in Seq(Player) /\ Distinct(<<g.leader>> \o rest)
      /\ ToSet(<<g.leader>> \o rest) = ToSet(rest) \cup {g.leader}
      /\ <<g.leader>> \o rest # <<>>
  <2>1. g.leader \notin ToSet(rest)
    BY <1>1, <1>2
  <2> HIDE DEF rest
  <2>2. PICK t : t = AtFront(rest, g.leader)
    OBVIOUS
  <2>3. /\ t \in Seq(Player) /\ Distinct(t) /\ ToSet(t) = ToSet(rest) \cup {g.leader} /\ t # <<>>
    <3>1. t \in Seq(Player) /\ Distinct(t) /\ t # <<>>
      BY <1>1, <1>2, <2>1, <2>2, PushFront
    <3>2. \A y : y \in ToSet(t) <=> y \in ToSet(rest) \/ y = g.leader
      BY <1>1, <1>2, <2>1, <2>2, PushFront
    <3> QED BY <3>1, <3>2
  <2> QED BY <2>2, <2>3 DEF AtFront
<1>4. /\ h \in Parties /\ h.leader = p /\ h.members = <<g.leader>> \o rest
      /\ h.invites = g.invites /\ h.points = g.points
  <2> HIDE DEF rest
  <2> QED BY <1>1, <1>3 DEF Parties
<1>5. Listed(h)
  BY <1>1, <1>2, <1>3, <1>4 DEF Listed
<1>6. People(h) = People(g)
  BY <1>1, <1>2, <1>3, <1>4 DEF People
<1>7. Pass(g, p, a) = Update(h, a)
  BY DEF Pass
<1> HIDE DEF h
<1> QED BY <1>3, <1>4, <1>5, <1>6, <1>7, Updates

\* Party::clearPlayerPoints of a player that is not in the party any more, or idle.
LEMMA Clears ==
  ASSUME NEW g, Listed(g), Fair(g), NEW p, g.points \ {p} \subseteq People(g), NEW a \in Answers
  PROVE  /\ GroupOK(ClearPoints(g, p, a))
         /\ ClearPoints(g, p, a).leader = g.leader /\ ClearPoints(g, p, a).members = g.members
         /\ ClearPoints(g, p, a).invites = g.invites
         /\ People(ClearPoints(g, p, a)) = People(g)
<1> DEFINE h == [g EXCEPT !.points = @ \ {p}]
<1>1. CASE p \in g.points
  <2>1. /\ h \in Parties /\ h.leader = g.leader /\ h.members = g.members
        /\ h.invites = g.invites /\ h.points = g.points \ {p}
    BY DEF Listed, Parties
  <2>2. Listed(h) /\ People(h) = People(g)
    BY <2>1 DEF Listed, People
  <2>3. ClearPoints(g, p, a) = Update(h, a)
    BY <1>1 DEF ClearPoints
  <2> HIDE DEF h
  <2> QED BY <2>1, <2>2, <2>3, Updates DEF GroupOK
<1>2. CASE p \notin g.points
  BY <1>2 DEF ClearPoints, GroupOK
<1> QED BY <1>1, <1>2

\* A party goes on without one of its people, unless it has nobody to lead it.
LEMMA Leaves ==
  ASSUME NEW g, GroupOK(g), NEW p \in People(g), NEW a \in Answers
  PROVE  /\ Listed(Without(g, p, a)) /\ Without(g, p, a).invites = g.invites
         /\ MissingLeader(g, p) => People(Without(g, p, a)) = People(g)
         /\ ~MissingLeader(g, p) =>
              GroupOK(Without(g, p, a)) /\ People(Without(g, p, a)) = People(g) \ {p}
<1> DEFINE passes == g.leader = p /\ ~MissingLeader(g, p)
<1>1. PICK h : h = IF passes THEN Pass(g, Head(g.members), a) ELSE g
  OBVIOUS
<1>2. PICK k : k = [h EXCEPT !.members = RemoveFirst(@, p)]
  OBVIOUS
<1>3. Without(g, p, a) = ClearPoints(Update(k, a), p, a)
  BY <1>1, <1>2 DEF Without
<1>4. g.members \in Seq(Player) /\ g.leader \in Player
  BY DEF GroupOK, Listed, Parties
<1>5. passes => Head(g.members) \in ToSet(g.members) /\ Head(g.members) # p
  <2> SUFFICES ASSUME passes  PROVE Head(g.members) \in ToSet(g.members) /\ Head(g.members) # p
    OBVIOUS
  <2>1. g.members # <<>>
    BY DEF MissingLeader
  <2>2. 1 \in DOMAIN g.members /\ Head(g.members) = g.members[1]
    BY <1>4, <2>1
  <2>3. Head(g.members) \in ToSet(g.members)
    BY <2>2 DEF ToSet
  <2> QED BY <2>3 DEF GroupOK, Listed
<1>6. /\ Listed(h) /\ People(h) = People(g) /\ h.invites = g.invites /\ h.points = g.points
      /\ h.leader = IF passes THEN Head(g.members) ELSE g.leader
  BY <1>1, <1>5, Passes DEF GroupOK
<1>7. /\ h.members \in Seq(Player) /\ h.leader \in Player /\ h \in Parties
      /\ Distinct(h.members) /\ h.leader \notin ToSet(h.members)
  BY <1>6 DEF Listed, Parties
<1>8. /\ RemoveFirst(h.members, p) \in Seq(Player) /\ Distinct(RemoveFirst(h.members, p))
      /\ ToSet(RemoveFirst(h.members, p)) = ToSet(h.members) \ {p}
  BY <1>7, Erase
<1>9. /\ k \in Parties /\ k.leader = h.leader /\ k.members = RemoveFirst(h.members, p)
      /\ k.invites = g.invites /\ k.points = g.points
  BY <1>2, <1>6, <1>7, <1>8 DEF Parties
<1>10. Listed(k)
  BY <1>7, <1>8, <1>9 DEF Listed
<1>11. People(k) = IF MissingLeader(g, p) THEN People(g) ELSE People(g) \ {p}
  <2>1. CASE MissingLeader(g, p)
    <3>1. h.leader = p
      BY <1>6, <2>1 DEF MissingLeader
    <3> QED BY <1>6, <1>7, <1>8, <1>9, <2>1, <3>1 DEF People
  <2>2. CASE ~MissingLeader(g, p)
    <3>1. h.leader # p
      BY <1>5, <1>6, <2>2
    <3> QED BY <1>6, <1>8, <1>9, <2>2, <3>1 DEF People
  <2> QED BY <2>1, <2>2
<1>12. PICK u : u = Update(k, a)
  OBVIOUS
<1>13. /\ Listed(u) /\ Fair(u) /\ u.points = g.points /\ u.invites = g.invites
       /\ People(u) = People(k)
  BY <1>9, <1>10, <1>12, Updates
<1>14. u.points \ {p} \subseteq People(u)
  BY <1>11, <1>13 DEF GroupOK
<1>15. /\ GroupOK(ClearPoints(u, p, a)) /\ ClearPoints(u, p, a).invites = g.invites
       /\ People(ClearPoints(u, p, a)) = People(k)
  BY <1>13, <1>14, Clears
<1> QED BY <1>3, <1>11, <1>12, <1>15 DEF GroupOK

-----------------------------------------------------------------------------
(* Worlds                                                                  *)

Worlds == [party : [Address -> Parties \cup {None}], partyOf : [Player -> Address \cup {None}],
           invitedTo : [Player -> SUBSET Address], channel : [Address -> (SUBSET Player) \cup {None}]]

\* Players and parties point to each other; the parties Ps are about to be disbanded,
\* and may already have let somebody go.
Linked(w, Ps) ==
  \A P \in Address, p \in Player :
    /\ w.partyOf[p] = P => w.party[P] # None /\ p \in People(w.party[P])
    /\ w.party[P] # None /\ p \in People(w.party[P]) =>
         w.partyOf[p] = P \/ (P \in Ps /\ w.partyOf[p] = None)
    /\ P \in w.invitedTo[p] <=> w.party[P] # None /\ p \in w.party[P].invites

\* Parties and channels know players of the set S only.
Present(w, S) ==
  \A P \in Address :
    /\ w.party[P] # None => People(w.party[P]) \cup w.party[P].invites \subseteq S
    /\ w.channel[P] # None => w.channel[P] \subseteq S

GroupsOK(w, Ps) ==
  \A P \in Address \ Ps :
    w.party[P] # None => GroupOK(w.party[P]) /\ ~Empty(w.party[P])

\* What holds of the world between two handlers (Ps = {}), and before the parties Ps
\* are disbanded by one.
Sound(w, S, Ps) ==
  w \in Worlds /\ Linked(w, Ps) /\ Present(w, S) /\ GroupsOK(w, Ps)

\* The parties Ps exist, and Es are the empty ones among them.
EmptyOnes(w, Ps, Es) ==
  \A P \in Ps : w.party[P] # None /\ (P \in Es <=> Empty(w.party[P]))

\* From w to v, players have been set free and invitations taken back.
Fewer(w, v) ==
  \A p \in Player : v.partyOf[p] \in {w.partyOf[p], None} /\ v.invitedTo[p] \subseteq w.invitedTo[p]

\* The user's channel loses him, and no channel gains anybody.
LEMMA Closes ==
  ASSUME NEW w \in Worlds, NEW Q \in SUBSET Player, NEW v, v = CloseChannelOf(w, Q)
  PROVE  /\ v \in Worlds /\ v.party = w.party /\ v.partyOf = w.partyOf
         /\ v.invitedTo = w.invitedTo
         /\ \A P \in Address : v.channel[P] # None =>
              w.channel[P] # None /\ v.channel[P] \subseteq w.channel[P]
<1> DEFINE f == [P \in Address |->
     IF w.channel[P] = None THEN None ELSE w.channel[P] \ {p \in Q : w.partyOf[p] = P}]
<1>1. v = [w EXCEPT !.channel = f]
  BY DEF CloseChannelOf
<1>2. f \in [Address -> (SUBSET Player) \cup {None}]
  BY DEF Worlds
<1>3. /\ v.party = w.party /\ v.partyOf = w.partyOf /\ v.invitedTo = w.invitedTo
      /\ v.channel = f /\ v \in Worlds
  <2> HIDE DEF f
  <2> QED BY <1>1, <1>2 DEF Worlds
<1> QED BY <1>3

LEMMA SetsFree ==
  ASSUME NEW w \in Worlds, NEW Q \in SUBSET Player, NEW v, v = SetFree(w, Q)
  PROVE  /\ v \in Worlds /\ v.party = w.party /\ v.invitedTo = w.invitedTo
         /\ v.partyOf = [p \in Player |-> IF p \in Q THEN None ELSE w.partyOf[p]]
         /\ \A P \in Address : v.channel[P] # None =>
              w.channel[P] # None /\ v.channel[P] \subseteq w.channel[P]
<1> DEFINE f == [p \in Player |-> IF p \in Q THEN None ELSE w.partyOf[p]]
<1>1. PICK u : u = [w EXCEPT !.partyOf = f]
  OBVIOUS
<1>2. v = CloseChannelOf(u, Q)
  BY <1>1 DEF SetFree
<1>3. f \in [Player -> Address \cup {None}]
  BY DEF Worlds
<1>4. /\ u \in Worlds /\ u.party = w.party /\ u.invitedTo = w.invitedTo
      /\ u.channel = w.channel /\ u.partyOf = f
  <2> HIDE DEF f
  <2> QED BY <1>1, <1>3 DEF Worlds
<1> HIDE DEF f
<1>5. /\ v \in Worlds /\ v.party = u.party /\ v.partyOf = u.partyOf
      /\ v.invitedTo = u.invitedTo
      /\ \A P \in Address : v.channel[P] # None =>
              u.channel[P] # None /\ v.channel[P] \subseteq u.channel[P]
  BY <1>2, <1>4, Closes
<1> QED BY <1>4, <1>5 DEF f

\* Party::disband makes the world whole again: nobody points to a disbanded party.
LEMMA Disbands ==
  ASSUME NEW w, NEW S, NEW Ps \in SUBSET Address, Sound(w, S, Ps),
         \A P \in Ps : w.party[P] # None,
         NEW a \in Answers, a["disband"], NEW v, v = Disband(w, Ps, a)
  PROVE  Sound(v, S, {}) /\ Fewer(w, v)
<1> DEFINE Q == Members(w, Ps)
           inv == [p \in Player |->
                     {P \in w.invitedTo[p] : P \in Ps => p \notin w.party[P].invites}]
           kept == Delete(w.party, Ps)
<1>1. /\ w \in Worlds /\ w.party \in [Address -> Parties \cup {None}]
      /\ w.partyOf \in [Player -> Address \cup {None}]
      /\ w.invitedTo \in [Player -> SUBSET Address]
  BY DEF Sound, Worlds
<1>2. \A P \in Address : w.party[P] # None => People(w.party[P]) \subseteq Player
  BY <1>1 DEF People, Parties, ToSet
<1>3. Q \in SUBSET Player
  BY <1>2 DEF Members
<1>4. PICK u : u = SetFree(w, Q)
  OBVIOUS
<1>5. /\ u \in Worlds /\ u.party = w.party /\ u.invitedTo = w.invitedTo
      /\ u.partyOf = [p \in Player |-> IF p \in Q THEN None ELSE w.partyOf[p]]
      /\ \A P \in Address : u.channel[P] # None =>
           w.channel[P] # None /\ u.channel[P] \subseteq w.channel[P]
  <2> HIDE DEF Q
  <2> QED BY <1>1, <1>3, <1>4, SetsFree
<1>6. v = [u EXCEPT !.invitedTo = inv, !.party = kept]
  BY <1>4, <1>5 DEF Disband
<1>7. inv \in [Player -> SUBSET Address] /\ kept \in [Address -> Parties \cup {None}]
  BY <1>1 DEF Delete
<1>8. /\ v \in Worlds /\ v.party = kept /\ v.invitedTo = inv /\ v.partyOf = u.partyOf
      /\ v.channel = u.channel
  <2> HIDE DEF inv, kept
  <2> QED BY <1>5, <1>6, <1>7 DEF Worlds
<1>9. \A P \in Address : v.party[P] = IF P \in Ps THEN None ELSE w.party[P]
  BY <1>8 DEF Delete
<1>10. \A p \in Player : /\ v.partyOf[p] = IF p \in Q THEN None ELSE w.partyOf[p]
                         /\ v.invitedTo[p] =
                              {P \in w.invitedTo[p] : P \in Ps => p \notin w.party[P].invites}
  BY <1>5, <1>8
<1>11. \A p : p \in Q <=> \E P \in Ps : p \in People(w.party[P])
  BY DEF Members
<1> HIDE DEF Q, inv, kept
<1>12. Linked(v, {})
  <2> SUFFICES ASSUME NEW P \in Address, NEW p \in Player
      PROVE /\ v.partyOf[p] = P => v.party[P] # None /\ p \in People(v.party[P])
            /\ v.party[P] # None /\ p \in People(v.party[P]) => v.partyOf[p] = P
            /\ P \in v.invitedTo[p] <=> v.party[P] # None /\ p \in v.party[P].invites
    BY DEF Linked
  <2>1. /\ w.partyOf[p] = P => w.party[P] # None /\ p \in People(w.party[P])
        /\ P \in w.invitedTo[p] <=> w.party[P] # None /\ p \in w.party[P].invites
    BY DEF Sound, Linked
  <2>2. \A R \in Address : w.party[R] # None /\ p \in People(w.party[R]) =>
           w.partyOf[p] = R \/ (R \in Ps /\ w.partyOf[p] = None)
    BY DEF Sound, Linked
  <2>3. P # None
    BY PartyAssumption
  <2>4. v.partyOf[p] = P => v.party[P] # None /\ p \in People(v.party[P])
    BY <1>9, <1>10, <1>11, <2>1, <2>3
  <2>5. v.party[P] # None /\ p \in People(v.party[P]) => v.partyOf[p] = P
    <3> SUFFICES ASSUME v.party[P] # None, p \in People(v.party[P])  PROVE v.partyOf[p] = P
      OBVIOUS
    <3>1. P \notin Ps /\ v.party[P] = w.party[P]
      BY <1>9
    <3>2. w.partyOf[p] = P
      BY <2>2, <3>1
    <3>3. ASSUME NEW R \in Ps, p \in People(w.party[R])  PROVE FALSE
      BY <2>2, <2>3, <3>1, <3>2, <3>3
    <3> QED BY <1>10, <1>11, <3>2, <3>3
  <2>6. P \in v.invitedTo[p] <=> v.party[P] # None /\ p \in v.party[P].invites
    BY <1>9, <1>10, <2>1
  <2> QED BY <2>4, <2>5, <2>6
<1>13. Present(v, S)
  BY <1>5, <1>8, <1>9 DEF Sound, Present
<1>14. GroupsOK(v, {})
  BY <1>9 DEF Sound, GroupsOK
<1>15. Fewer(w, v)
  BY <1>10 DEF Fewer
<1> QED BY <1>8, <1>12, <1>13, <1>14, <1>15 DEF Sound

\* Party::removeInvite and Party::leaveParty end with the test for an empty party.
LEMMA DisbandsEmpty ==
  ASSUME NEW w, NEW S, NEW Ps \in SUBSET Address, NEW Es \in SUBSET Ps, EmptyOnes(w, Ps, Es),
         Sound(w, S, Es), NEW a \in Answers, a["disband"], NEW v, v = DisbandEmpty(w, Ps, a)
  PROVE  Sound(v, S, {}) /\ Fewer(w, v)
<1>1. v = Disband(w, Es, a)
  <2>1. {P \in Ps : Empty(w.party[P])} = Es
    BY DEF EmptyOnes
  <2> QED BY <2>1 DEF DisbandEmpty
<1>2. Es \in SUBSET Address /\ \A P \in Es : w.party[P] # None
  BY DEF EmptyOnes
<1> QED BY <1>1, <1>2, Disbands

\* An invitation less does not matter to the people of the party.
LEMMA Uninvites ==
  ASSUME NEW g \in Parties, NEW p, NEW h, h = [g EXCEPT !.invites = @ \ {p}]
  PROVE  /\ h \in Parties /\ h # None /\ h.invites = g.invites \ {p}
         /\ People(h) = People(g) /\ (GroupOK(g) => GroupOK(h))
<1>1. /\ h \in Parties /\ h.invites = g.invites \ {p} /\ h.leader = g.leader
      /\ h.members = g.members /\ h.points = g.points
      /\ h.active = g.active /\ h.enabled = g.enabled
  BY DEF Parties
<1>2. h # None
  BY <1>1, PartyAssumption
<1> QED BY <1>1, <1>2 DEF People, GroupOK, Listed, Fair, Fought

\* Party::removeInvite: the parties Ps that invite p forget about him.
LEMMA RemovesInvites ==
  ASSUME NEW w, NEW S, Sound(w, S, {}), NEW p \in Player, NEW Ps \in SUBSET Address,
         \A P \in Ps : w.party[P] # None,
         NEW a \in Answers, a["disband"], NEW v, v = RemoveInvite(w, Ps, p, a)
  PROVE  /\ Sound(v, S, {})
         /\ v.invitedTo[p] \subseteq w.invitedTo[p] \ Ps
<1> PICK Rs : Rs = Inviting(w, Ps, p)
  OBVIOUS
<1> DEFINE F == [P \in Address |->
                   IF P \in Rs THEN [w.party[P] EXCEPT !.invites = @ \ {p}] ELSE w.party[P]]
<1>1. /\ w \in Worlds /\ w.party \in [Address -> Parties \cup {None}]
      /\ w.invitedTo \in [Player -> SUBSET Address]
  BY DEF Sound, Worlds
<1>2. Rs \in SUBSET Address /\ \A P \in Rs : w.party[P] # None /\ w.party[P] \in Parties
  BY <1>1 DEF Inviting
<1>3. ASSUME NEW P \in Rs
      PROVE  /\ F[P] \in Parties /\ F[P] # None /\ F[P].invites = w.party[P].invites \ {p}
             /\ People(F[P]) = People(w.party[P]) /\ (GroupOK(w.party[P]) => GroupOK(F[P]))
  <2>1. PICK g \in Parties : g = w.party[P]
    BY <1>2
  <2>2. PICK h : h = F[P]
    OBVIOUS
  <2>3. h = [g EXCEPT !.invites = @ \ {p}]
    BY <1>2, <2>1, <2>2
  <2>4. /\ h \in Parties /\ h # None /\ h.invites = g.invites \ {p}
        /\ People(h) = People(g) /\ (GroupOK(g) => GroupOK(h))
    BY <2>3, Uninvites
  <2> HIDE DEF F
  <2> QED BY <2>1, <2>2, <2>4
<1>4. PICK u : u = Uninvite(w, Rs, p)
  OBVIOUS
<1>5. u = [w EXCEPT !.party = F, !.invitedTo[p] = @ \ Rs]
  BY <1>4 DEF Uninvite
<1>6. F \in [Address -> Parties \cup {None}]
  BY <1>1, <1>3
<1>7. /\ u \in Worlds /\ u.party = F /\ u.partyOf = w.partyOf /\ u.channel = w.channel
      /\ u.invitedTo = [w.invitedTo EXCEPT ![p] = @ \ Rs]
  <2> HIDE DEF F
  <2> QED BY <1>1, <1>5, <1>6 DEF Worlds
<1>8. ASSUME NEW P \in Address
      PROVE  /\ u.party[P] = None <=> w.party[P] = None
             /\ w.party[P] # None =>
                  /\ u.party[P].invites = IF P \in Rs THEN w.party[P].invites \ {p}
                                                      ELSE w.party[P].invites
                  /\ People(u.party[P]) = People(w.party[P])
                  /\ GroupOK(w.party[P]) => GroupOK(u.party[P])
                  /\ P \notin Rs => u.party[P] = w.party[P]
  <2>1. CASE P \in Rs
    <3>1. u.party[P] = F[P] /\ w.party[P] # None
      BY <1>2, <1>7, <2>1
    <3> HIDE DEF F
    <3> QED BY <1>3, <2>1, <3>1
  <2>2. CASE P \notin Rs
    <3>1. u.party[P] = w.party[P]
      BY <1>7, <2>2
    <3> QED BY <2>2, <3>1
  <2> QED BY <2>1, <2>2
<1> HIDE DEF F
<1>9. Linked(u, {})
  <2> SUFFICES ASSUME NEW P \in Address, NEW q \in Player
      PROVE /\ u.partyOf[q] = P => u.party[P] # None /\ q \in People(u.party[P])
            /\ u.party[P] # None /\ q \in People(u.party[P]) => u.partyOf[q] = P
            /\ P \in u.invitedTo[q] <=> u.party[P] # None /\ q \in u.party[P].invites
    BY DEF Linked
  <2>1. /\ w.partyOf[q] = P => w.party[P] # None /\ q \in People(w.party[P])
        /\ w.party[P] # None /\ q \in People(w.party[P]) => w.partyOf[q] = P
        /\ P \in w.invitedTo[q] <=> w.party[P] # None /\ q \in w.party[P].invites
    BY DEF Sound, Linked
  <2>2. P \in u.invitedTo[q] <=> P \in w.invitedTo[q] /\ (q = p => P \notin Rs)
    BY <1>1, <1>7
  <2>3. u.partyOf[q] = w.partyOf[q] /\ (u.party[P] = None <=> w.party[P] = None)
    BY <1>7, <1>8
  <2>4. w.party[P] # None => People(u.party[P]) = People(w.party[P])
    BY <1>8
  <2>5. w.party[P] # None =>
          (q \in u.party[P].invites <=> q \in w.party[P].invites /\ (q = p => P \notin Rs))
    BY <1>8
  <2> QED BY <2>1, <2>2, <2>3, <2>4, <2>5
<1>10. Present(u, S)
  BY <1>7, <1>8 DEF Sound, Present
<1>11. PICK Es \in SUBSET Rs : EmptyOnes(u, Rs, Es)
  <2>1. {P \in Rs : Empty(u.party[P])} \in SUBSET Rs
    OBVIOUS
  <2>2. EmptyOnes(u, Rs, {P \in Rs : Empty(u.party[P])})
    BY <1>2, <1>8 DEF EmptyOnes
  <2> QED BY <2>1, <2>2
<1>12. Sound(u, S, Es)
  <2>1. Linked(u, Es)
    BY <1>9 DEF Linked
  <2>2. GroupsOK(u, Es)
    BY <1>8, <1>11 DEF Sound, GroupsOK, EmptyOnes
  <2> QED BY <1>7, <1>10, <2>1, <2>2 DEF Sound
<1>13. v = DisbandEmpty(u, Rs, a)
  BY <1>4 DEF RemoveInvite
<1>14. Sound(v, S, {}) /\ Fewer(u, v)
  BY <1>2, <1>11, <1>12, <1>13, DisbandsEmpty
<1>15. v.invitedTo[p] \subseteq u.invitedTo[p]
  BY <1>14 DEF Fewer
<1>16. u.invitedTo[p] = w.invitedTo[p] \ Rs
  BY <1>1, <1>7
<1>17. w.invitedTo[p] \cap Ps \subseteq Rs
  <2>1. \A P \in Address : P \in w.invitedTo[p] => p \in w.party[P].invites
    BY DEF Sound, Linked
  <2> QED BY <2>1 DEF Inviting
<1> QED BY <1>14, <1>15, <1>16, <1>17

\* Player::clearPartyInvitations: nobody invites p any more.
LEMMA ClearsInvitations ==
  ASSUME NEW w, NEW S, Sound(w, S, {}), NEW p \in Player,
         NEW a \in Answers, a["disband"], NEW v, v = ClearInvitations(w, p, a)
  PROVE  Sound(v, S, {}) /\ v.invitedTo[p] = {}
<1>1. w \in Worlds /\ w.invitedTo[p] \in SUBSET Address
  BY DEF Sound, Worlds
<1>2. \A P \in w.invitedTo[p] : w.party[P] # None
  BY <1>1 DEF Sound, Linked
<1>3. PICK u : u = RemoveInvite(w, w.invitedTo[p], p, a)
  OBVIOUS
<1>4. Sound(u, S, {}) /\ u.invitedTo[p] \subseteq w.invitedTo[p] \ w.invitedTo[p]
  <2>1. PICK Ps : Ps = w.invitedTo[p]
    OBVIOUS
  <2>2. Ps \in SUBSET Address /\ (\A P \in Ps : w.party[P] # None) /\ u = RemoveInvite(w, Ps, p, a)
    BY <1>1, <1>2, <1>3, <2>1
  <2>3. Sound(u, S, {}) /\ u.invitedTo[p] \subseteq w.invitedTo[p] \ Ps
    BY <2>2, RemovesInvites
  <2> QED BY <2>1, <2>3
<1>5. u \in Worlds
  BY <1>4 DEF Sound
<1>6. u.invitedTo \in [Player -> SUBSET Address] /\ u.invitedTo[p] = {}
  BY <1>4, <1>5 DEF Worlds
<1>7. v = [u EXCEPT !.invitedTo[p] = {}]
  BY <1>3 DEF ClearInvitations
<1>8. [u.invitedTo EXCEPT ![p] = {}] = u.invitedTo
  BY <1>6
<1>9. v = u
  BY <1>5, <1>7, <1>8 DEF Worlds
<1> QED BY <1>4, <1>6, <1>9

\* Party::leaveParty.
LEMMA LeavesParty ==
  ASSUME NEW w, NEW S, Sound(w, S, {}), NEW p \in Player, NEW P \in Address,
         w.partyOf[p] = P, NEW a \in Answers, a["leave"], a["disband"],
         NEW v, v = LeaveParty(w, P, p, a)
  PROVE  /\ Sound(v, S, {})
         /\ v.partyOf[p] = None /\ v.invitedTo[p] \subseteq w.invitedTo[p]
<1> PICK g : g = w.party[P]
  OBVIOUS
<1> PICK h : h = Without(g, p, a)
  OBVIOUS
<1>1. /\ w \in Worlds /\ w.party \in [Address -> Parties \cup {None}]
      /\ w.partyOf \in [Player -> Address \cup {None}]
  BY DEF Sound, Worlds
<1>2. g # None /\ p \in People(g) /\ GroupOK(g)
  BY DEF Sound, Linked, GroupsOK
<1>3. /\ Listed(h) /\ h.invites = g.invites
      /\ MissingLeader(g, p) => People(h) = People(g)
      /\ ~MissingLeader(g, p) => GroupOK(h) /\ People(h) = People(g) \ {p}
  BY <1>2, Leaves
<1>4. h \in Parties /\ h # None
  BY <1>3, PartyAssumption DEF Listed
<1>5. PICK x : x = [w EXCEPT !.party[P] = h]
  OBVIOUS
<1>6. PICK u : u = SetFree(x, {p})
  OBVIOUS
<1>7. /\ x \in Worlds /\ x.party = [w.party EXCEPT ![P] = h] /\ x.partyOf = w.partyOf
      /\ x.invitedTo = w.invitedTo /\ x.channel = w.channel
  BY <1>1, <1>4, <1>5 DEF Worlds
<1>8. /\ u \in Worlds /\ u.party = x.party /\ u.invitedTo = w.invitedTo
      /\ u.partyOf = [q \in Player |-> IF q \in {p} THEN None ELSE w.partyOf[q]]
      /\ \A R \in Address : u.channel[R] # None =>
           w.channel[R] # None /\ u.channel[R] \subseteq w.channel[R]
  <2>1. PICK Q : Q = {p}
    OBVIOUS
  <2>2. Q \in SUBSET Player /\ u = SetFree(x, Q)
    BY <1>6, <2>1
  <2>3. /\ u \in Worlds /\ u.party = x.party /\ u.invitedTo = x.invitedTo
        /\ u.partyOf = [q \in Player |-> IF q \in Q THEN None ELSE x.partyOf[q]]
        /\ \A R \in Address : u.channel[R] # None =>
             x.channel[R] # None /\ u.channel[R] \subseteq x.channel[R]
    BY <1>7, <2>2, SetsFree
  <2> QED BY <1>7, <2>1, <2>3
<1>9. \A R \in Address : u.party[R] = IF R = P THEN h ELSE w.party[R]
  BY <1>1, <1>7, <1>8
<1>10. \A q \in Player : u.partyOf[q] = IF q = p THEN None ELSE w.partyOf[q]
  BY <1>8
<1>11. Present(u, S)
  <2> SUFFICES ASSUME NEW R \in Address
      PROVE  /\ u.party[R] # None => People(u.party[R]) \cup u.party[R].invites \subseteq S
             /\ u.channel[R] # None => u.channel[R] \subseteq S
    BY DEF Present
  <2>1. /\ w.party[R] # None => People(w.party[R]) \cup w.party[R].invites \subseteq S
        /\ w.channel[R] # None => w.channel[R] \subseteq S
    BY DEF Sound, Present
  <2> QED BY <1>2, <1>3, <1>8, <1>9, <2>1
<1>12. ASSUME NEW Ps \in SUBSET {P}, MissingLeader(g, p) => Ps = {P}  PROVE Linked(u, Ps)
  <2> SUFFICES ASSUME NEW R \in Address, NEW q \in Player
      PROVE /\ u.partyOf[q] = R => u.party[R] # None /\ q \in People(u.party[R])
            /\ u.party[R] # None /\ q \in People(u.party[R]) =>
                 u.partyOf[q] = R \/ (R \in Ps /\ u.partyOf[q] = None)
            /\ R \in u.invitedTo[q] <=> u.party[R] # None /\ q \in u.party[R].invites
    BY DEF Linked
  <2>1. /\ w.partyOf[q] = R => w.party[R] # None /\ q \in People(w.party[R])
        /\ w.party[R] # None /\ q \in People(w.party[R]) => w.partyOf[q] = R
        /\ R \in w.invitedTo[q] <=> w.party[R] # None /\ q \in w.party[R].invites
    BY DEF Sound, Linked
  <2>2. R # None /\ P # None
    BY PartyAssumption
  <2>3. u.partyOf[q] = R => u.party[R] # None /\ q \in People(u.party[R])
    BY <1>3, <1>4, <1>9, <1>10, <2>1, <2>2
  <2>4. u.party[R] # None /\ q \in People(u.party[R]) =>
          u.partyOf[q] = R \/ (R \in Ps /\ u.partyOf[q] = None)
    <3>1. CASE R = P /\ q = p
      BY <1>3, <1>9, <1>10, <1>12, <3>1
    <3>2. CASE R = P /\ q # p
      BY <1>2, <1>3, <1>9, <1>10, <2>1, <3>2
    <3>3. CASE R # P
      BY <1>9, <1>10, <2>1, <3>3
    <3> QED BY <3>1, <3>2, <3>3
  <2>5. R \in u.invitedTo[q] <=> u.party[R] # None /\ q \in u.party[R].invites
    BY <1>2, <1>3, <1>4, <1>8, <1>9, <2>1
  <2> QED BY <2>3, <2>4, <2>5
<1>13. u.party[P] = h /\ u.party[P] # None
  BY <1>4, <1>9
<1>14. CASE MissingLeader(g, p)
  <2>1. v = Disband(u, {P}, a)
    BY <1>5, <1>6, <1>14 DEF LeaveParty
  <2>2. Sound(u, S, {P})
    <3>1. GroupsOK(u, {P})
      BY <1>9 DEF Sound, GroupsOK
    <3> QED BY <1>8, <1>11, <1>12, <3>1 DEF Sound
  <2>3. PICK Ps : Ps = {P}
    OBVIOUS
  <2>4. Ps \in SUBSET Address /\ (\A R \in Ps : u.party[R] # None)
    BY <1>13, <2>3
  <2>5. v = Disband(u, Ps, a) /\ Sound(u, S, Ps)
    BY <2>1, <2>2, <2>3
  <2>6. Sound(v, S, {}) /\ Fewer(u, v)
    BY <2>4, <2>5, Disbands
  <2> QED BY <1>8, <1>10, <2>6 DEF Fewer
<1>15. CASE ~MissingLeader(g, p)
  <2>1. PICK Ps : Ps = {P}
    OBVIOUS
  <2>2. v = DisbandEmpty(u, Ps, a)
    BY <1>5, <1>6, <1>15, <2>1 DEF LeaveParty
  <2>3. PICK Es \in SUBSET Ps : EmptyOnes(u, Ps, Es)
    <3>1. {R \in Ps : Empty(u.party[R])} \in SUBSET Ps
      OBVIOUS
    <3>2. EmptyOnes(u, Ps, {R \in Ps : Empty(u.party[R])})
      BY <1>13, <2>1 DEF EmptyOnes
    <3> QED BY <3>1, <3>2
  <2>4. Sound(u, S, Es)
    <3>1. Es \in SUBSET {P} /\ (P \in Es <=> Empty(u.party[P]))
      BY <2>1, <2>3 DEF EmptyOnes
    <3>2. GroupsOK(u, Es)
      BY <1>3, <1>9, <1>15, <3>1 DEF Sound, GroupsOK
    <3>3. Linked(u, Es)
      BY <1>12, <1>15, <3>1
    <3> QED BY <1>8, <1>11, <3>2, <3>3 DEF Sound
  <2>5. Ps \in SUBSET Address
    BY <2>1
  <2>6. Sound(v, S, {}) /\ Fewer(u, v)
    BY <2>2, <2>3, <2>4, <2>5, DisbandsEmpty
  <2> QED BY <1>8, <1>10, <2>6 DEF Fewer
<1> QED BY <1>14, <1>15

\* Chat::removeUserFromAllChannels: nothing knows p any more.
LEMMA RemovesFromChannels ==
  ASSUME NEW w, NEW S, Sound(w, S, {}), NEW p \in Player,
         w.partyOf[p] = None, w.invitedTo[p] = {}, NEW v, v = RemoveFromChannels(w, p)
  PROVE  Sound(v, S \ {p}, {})
<1> DEFINE f == [P \in Address |->
                   IF w.channel[P] = None THEN None ELSE w.channel[P] \ {p}]
<1>1. w \in Worlds /\ v = [w EXCEPT !.channel = f]
  BY DEF Sound, RemoveFromChannels
<1>2. f \in [Address -> (SUBSET Player) \cup {None}]
  BY <1>1 DEF Worlds
<1>3. /\ v.party = w.party /\ v.partyOf = w.partyOf /\ v.invitedTo = w.invitedTo
      /\ v.channel = f /\ v \in Worlds
  <2> HIDE DEF f
  <2> QED BY <1>1, <1>2 DEF Worlds
<1>4. Linked(v, {}) /\ GroupsOK(v, {})
  BY <1>3 DEF Sound, Linked, GroupsOK
<1>5. \A P \in Address : w.party[P] # None => People(w.party[P]) \subseteq Player
  BY <1>1 DEF Worlds, People, Parties, ToSet
<1>6. ASSUME NEW P \in Address, w.party[P] # None
      PROVE  p \notin People(w.party[P]) /\ p \notin w.party[P].invites
  <2>1. /\ p \in People(w.party[P]) => w.partyOf[p] = P
        /\ p \in w.party[P].invites => P \in w.invitedTo[p]
    BY <1>6 DEF Sound, Linked
  <2> QED BY <2>1, PartyAssumption
<1>7. Present(v, S \ {p})
  <2> SUFFICES ASSUME NEW P \in Address
      PROVE  /\ v.party[P] # None =>
                  People(v.party[P]) \cup v.party[P].invites \subseteq S \ {p}
             /\ v.channel[P] # None => v.channel[P] \subseteq S \ {p}
    BY DEF Present
  <2>1. /\ w.party[P] # None => People(w.party[P]) \cup w.party[P].invites \subseteq S
        /\ w.channel[P] # None => w.channel[P] \subseteq S
    BY DEF Sound, Present
  <2> QED BY <1>3, <1>6, <2>1
<1> QED BY <1>3, <1>4, <1>7 DEF Sound

\* A handler that changes one party without its people and invitations.
LEMMA Replaces ==
  ASSUME NEW w, NEW S, Sound(w, S, {}), NEW P \in Address, w.party[P] # None,
         NEW h, GroupOK(h), ~Empty(h), People(h) = People(w.party[P]),
         h.invites = w.party[P].invites, NEW v, v = [w EXCEPT !.party[P] = h]
  PROVE  Sound(v, S, {})
<1>1. h \in Parties /\ h # None
  BY PartyAssumption DEF GroupOK, Listed
<1>2. /\ v \in Worlds /\ v.party = [w.party EXCEPT ![P] = h] /\ v.partyOf = w.partyOf
      /\ v.invitedTo = w.invitedTo /\ v.channel = w.channel
  BY <1>1 DEF Sound, Worlds
<1>3. \A R \in Address : v.party[R] = IF R = P THEN h ELSE w.party[R]
  BY <1>2 DEF Sound, Worlds
<1>4. ASSUME NEW R \in Address
      PROVE  /\ v.party[R] = None <=> w.party[R] = None
             /\ w.party[R] # None => /\ People(v.party[R]) = People(w.party[R])
                                     /\ v.party[R].invites = w.party[R].invites
  BY <1>1, <1>3
<1>5. Linked(v, {})
  BY <1>2, <1>4 DEF Sound, Linked
<1>6. Present(v, S)
  BY <1>2, <1>4 DEF Sound, Present
<1>7. GroupsOK(v, {})
  BY <1>3 DEF Sound, GroupsOK
<1> QED BY <1>2, <1>5, <1>6, <1>7 DEF Sound

-----------------------------------------------------------------------------
(* The invariant                                                           *)

Inv == TypeOK /\ Sound(World, online, {})

LEMMA Becoming ==
  ASSUME NEW w, Becomes(w), Sound(w, online', {}), online' \subseteq Player
  PROVE  Inv'
<1>1. w \in Worlds /\ Linked(w, {}) /\ Present(w, online') /\ GroupsOK(w, {})
  BY DEF Sound
<1>2. TypeOK'
  BY <1>1 DEF Becomes, TypeOK, Worlds
<1>3. World' = w
  BY <1>1 DEF Becomes, World, Worlds
<1>4. Sound(World', online', {})
  BY <1>3
<1> QED BY <1>2, <1>4 DEF Inv

\* What the invariant says of a player's own party.
LEMMA OwnParty ==
  ASSUME Inv, NEW p \in Player, partyOf[p] # None
  PROVE  /\ partyOf[p] \in Address /\ party[partyOf[p]] # None
         /\ p \in People(party[partyOf[p]]) /\ GroupOK(party[partyOf[p]])
         /\ ~Empty(party[partyOf[p]]) /\ party[partyOf[p]] \in Parties
<1>1. partyOf[p] \in Address
  BY DEF Inv, TypeOK
<1>2. party[partyOf[p]] # None /\ p \in People(party[partyOf[p]])
  BY <1>1 DEF Inv, Sound, Linked, World
<1>3. GroupOK(party[partyOf[p]]) /\ ~Empty(party[partyOf[p]])
  BY <1>1, <1>2 DEF Inv, Sound, GroupsOK, World
<1> QED BY <1>1, <1>2, <1>3 DEF GroupOK, Listed

LEMMA Regroups ==
  ASSUME Inv, NEW P \in Address, party[P] # None,
         NEW h, GroupOK(h), ~Empty(h), People(h) = People(party[P]),
         h.invites = party[P].invites, party' = [party EXCEPT ![P] = h],
         UNCHANGED <<partyOf, invitedTo, channel, online>>
  PROVE  Inv'
<1>1. PICK w : w = World
  OBVIOUS
<1>2. Sound(w, online, {}) /\ w.party = party /\ online \subseteq Player
  BY <1>1 DEF Inv, TypeOK, World
<1>3. PICK v : v = [w EXCEPT !.party[P] = h]
  OBVIOUS
<1>4. Sound(v, online, {})
  BY <1>2, <1>3, Replaces
<1>5. Becomes(v)
  BY <1>1, <1>3 DEF Becomes, World
<1> QED BY <1>2, <1>4, <1>5, Becoming

-----------------------------------------------------------------------------
(* The handlers                                                            *)

LEMMA PassLeadershipKeeps ==
  ASSUME Inv, NEW p \in Player, NEW q \in Player, NEW a \in Answers, PassLeadership(p, q, a)
  PROVE  Inv'
<1> PICK P : P = partyOf[p]
  OBVIOUS
<1> PICK g : g = party[P]
  OBVIOUS
<1>1. /\ P \in Address /\ g # None /\ GroupOK(g) /\ Listed(g) /\ g.leader = p /\ q # p
      /\ partyOf[q] = P /\ q \in People(g)
  BY OwnParty, PartyAssumption DEF PassLeadership, Leads, GroupOK
<1>2. q \in ToSet(g.members)
  BY <1>1 DEF People
<1>3. PICK h : h = Pass(g, q, a)
  OBVIOUS
<1>4. /\ Listed(h) /\ Fair(h) /\ h.leader = q /\ h.members # <<>>
      /\ h.invites = g.invites /\ h.points = g.points /\ People(h) = People(g)
  BY <1>1, <1>2, <1>3, Passes
<1>5. GroupOK(h) /\ ~Empty(h)
  BY <1>1, <1>4 DEF GroupOK, Empty
<1>6. /\ party' = [party EXCEPT ![P] = h]
      /\ UNCHANGED <<partyOf, invitedTo, channel, online>>
  BY <1>3 DEF PassLeadership
<1> QED BY <1>1, <1>4, <1>5, <1>6, Regroups

LEMMA EnableSharedKeeps ==
  ASSUME Inv, NEW p \in Player, NEW on \in BOOLEAN, NEW a \in Answers, EnableShared(p, on, a)
  PROVE  Inv'
<1> PICK P : P = partyOf[p]
  OBVIOUS
<1> PICK g : g = party[P]
  OBVIOUS
<1>1. P \in Address /\ g # None /\ GroupOK(g) /\ ~Empty(g) /\ g \in Parties
  BY OwnParty DEF EnableShared, Leads
<1>2. PICK h : h = [g EXCEPT !.active = on, !.enabled = IF on THEN CanShare(g, a) ELSE @]
  OBVIOUS
<1>3. CanShare(g, a) \in BOOLEAN
  BY DEF CanShare, Fought, Answers
<1>4. /\ h \in Parties /\ h.leader = g.leader /\ h.members = g.members
      /\ h.invites = g.invites /\ h.points = g.points /\ h.active = on
      /\ on => h.enabled = CanShare(g, a)
  BY <1>1, <1>2, <1>3 DEF Parties
<1>5. People(h) = People(g) /\ ~Empty(h)
  BY <1>1, <1>4 DEF People, Empty
<1>6. GroupOK(h)
  BY <1>1, <1>4, <1>5 DEF GroupOK, Listed, Fair, CanShare, Fought
<1>7. /\ party' = [party EXCEPT ![P] = h]
      /\ UNCHANGED <<partyOf, invitedTo, channel, online>>
  BY <1>2 DEF EnableShared
<1> QED BY <1>1, <1>4, <1>5, <1>6, <1>7, Regroups

LEMMA FightKeeps ==
  ASSUME Inv, NEW p \in Player, NEW a \in Answers, Fight(p, a)
  PROVE  Inv'
<1> PICK P : P = partyOf[p]
  OBVIOUS
<1> PICK g : g = party[P]
  OBVIOUS
<1>1. /\ P \in Address /\ g # None /\ GroupOK(g) /\ ~Empty(g) /\ g \in Parties
      /\ p \in People(g)
  BY OwnParty DEF Fight
<1>2. PICK k : k = [g EXCEPT !.points = @ \cup {p}]
  OBVIOUS
<1>3. /\ k \in Parties /\ k.leader = g.leader /\ k.members = g.members
      /\ k.invites = g.invites /\ k.points = g.points \cup {p}
  BY <1>1, <1>2 DEF Parties
<1>4. Listed(k) /\ People(k) = People(g)
  BY <1>1, <1>3 DEF Listed, GroupOK, People
<1>5. PICK h : h = Update(k, a)
  OBVIOUS
<1>6. /\ Listed(h) /\ Fair(h) /\ h.members = k.members /\ h.invites = k.invites
      /\ h.points = k.points /\ People(h) = People(k)
  BY <1>4, <1>5, Updates
<1>7. GroupOK(h) /\ ~Empty(h)
  BY <1>1, <1>3, <1>4, <1>6 DEF GroupOK, Empty
<1>8. /\ party' = [party EXCEPT ![P] = h]
      /\ UNCHANGED <<partyOf, invitedTo, channel, online>>
  BY <1>2, <1>5 DEF Fight
<1> QED BY <1>1, <1>3, <1>4, <1>6, <1>7, <1>8, Regroups

LEMMA GoIdleKeeps ==
  ASSUME Inv, NEW p \in Player, NEW a \in Answers, GoIdle(p, a)
  PROVE  Inv'
<1> PICK P : P = partyOf[p]
  OBVIOUS
<1> PICK g : g = party[P]
  OBVIOUS
<1>1. P \in Address /\ g # None /\ GroupOK(g) /\ ~Empty(g)
  BY OwnParty DEF GoIdle
<1>2. PICK h : h = ClearPoints(g, p, a)
  OBVIOUS
<1>3. /\ GroupOK(h) /\ h.members = g.members /\ h.invites = g.invites
      /\ People(h) = People(g)
  <2>1. Listed(g) /\ Fair(g) /\ g.points \ {p} \subseteq People(g)
    BY <1>1 DEF GroupOK
  <2> QED BY <1>2, <2>1, Clears
<1>4. ~Empty(h)
  BY <1>1, <1>3 DEF Empty
<1>5. /\ party' = [party EXCEPT ![P] = h]
      /\ UNCHANGED <<partyOf, invitedTo, channel, online>>
  BY <1>2 DEF GoIdle
<1> QED BY <1>1, <1>3, <1>4, <1>5, Regroups

LEMMA WalkKeeps ==
  ASSUME Inv, NEW p \in Player, NEW a \in Answers, Walk(p, a)
  PROVE  Inv'
<1> PICK P : P = partyOf[p]
  OBVIOUS
<1> PICK g : g = party[P]
  OBVIOUS
<1>1. P \in Address /\ g # None /\ GroupOK(g) /\ ~Empty(g) /\ Listed(g)
  BY OwnParty DEF Walk, GroupOK
<1>2. PICK h : h = Update(g, a)
  OBVIOUS
<1>3. /\ Listed(h) /\ Fair(h) /\ h.members = g.members /\ h.invites = g.invites
      /\ h.points = g.points /\ People(h) = People(g)
  BY <1>1, <1>2, Updates
<1>4. GroupOK(h) /\ ~Empty(h)
  BY <1>1, <1>3 DEF GroupOK, Empty
<1>5. /\ party' = [party EXCEPT ![P] = h]
      /\ UNCHANGED <<partyOf, invitedTo, channel, online>>
  BY <1>2 DEF Walk
<1> QED BY <1>1, <1>3, <1>4, <1>5, Regroups

\* The channels gain players in the game only.
LEMMA Channels ==
  ASSUME Inv, channel' \in [Address -> (SUBSET online) \cup {None}],
         UNCHANGED <<party, partyOf, invitedTo, online>>
  PROVE  Inv'
<1>1. PICK w : w = [party |-> party, partyOf |-> partyOf, invitedTo |-> invitedTo, channel |-> channel']
  OBVIOUS
<1>2. Becomes(w) /\ online' \subseteq Player
  BY <1>1 DEF Becomes, Inv, TypeOK
<1>3. w \in Worlds
  BY <1>1 DEF Worlds, Inv, TypeOK
<1>4. Linked(w, {}) /\ GroupsOK(w, {})
  BY <1>1 DEF Inv, Sound, Linked, GroupsOK, World
<1>5. Present(w, online')
  BY <1>1 DEF Inv, Sound, Present, World
<1> QED BY <1>2, <1>3, <1>4, <1>5, Becoming DEF Sound

LEMMA ChannelKeeps ==
  ASSUME Inv, NEW p \in Player, RequestChannels(p) \/ OpenChannel(p) \/ CloseChannel(p)
  PROVE  Inv'
<1>1. channel \in [Address -> (SUBSET online) \cup {None}]
  <2>1. channel \in [Address -> (SUBSET Player) \cup {None}]
    BY DEF Inv, TypeOK
  <2>2. \A P \in Address : channel[P] # None => channel[P] \subseteq online
    BY DEF Inv, Sound, Present, World
  <2> QED BY <2>1, <2>2
<1>2. CASE RequestChannels(p)
  <2>1. channel' \in [Address -> (SUBSET online) \cup {None}]
    BY <1>1, <1>2 DEF RequestChannels
  <2> QED BY <1>2, <2>1, Channels DEF RequestChannels
<1>3. CASE OpenChannel(p)
  <2>1. channel' \in [Address -> (SUBSET online) \cup {None}]
    BY <1>1, <1>3, OwnParty DEF OpenChannel
  <2> QED BY <1>3, <2>1, Channels DEF OpenChannel
<1>4. CASE CloseChannel(p)
  <2>1. PICK w : w = World
    OBVIOUS
  <2>2. PICK v : v = CloseChannelOf(w, {p})
    OBVIOUS
  <2>3. Becomes(v) /\ online' = online
    BY <1>4, <2>1, <2>2 DEF CloseChannel
  <2>4. /\ w \in Worlds /\ w.party = party /\ w.partyOf = partyOf /\ w.invitedTo = invitedTo
        /\ w.channel = channel
    BY <2>1 DEF Inv, Sound, World
  <2>5. /\ v \in Worlds /\ v.party = party /\ v.partyOf = partyOf /\ v.invitedTo = invitedTo
        /\ \A P \in Address : v.channel[P] # None =>
             channel[P] # None /\ v.channel[P] \subseteq channel[P]
    <3>1. PICK Q \in SUBSET Player : Q = {p}
      OBVIOUS
    <3>2. v = CloseChannelOf(w, Q)
      BY <2>2, <3>1
    <3> QED BY <2>4, <3>2, Closes
  <2>6. channel' \in [Address -> (SUBSET online) \cup {None}]
    <3>1. v.channel \in [Address -> (SUBSET Player) \cup {None}]
      BY <2>5 DEF Worlds
    <3>2. \A P \in Address : v.channel[P] # None => v.channel[P] \subseteq online
      BY <1>1, <2>5
    <3> QED BY <2>3, <3>1, <3>2 DEF Becomes
  <2> QED BY <2>3, <2>5, <2>6, Channels DEF Becomes
<1> QED BY <1>2, <1>3, <1>4

LEMMA LoginKeeps ==
  ASSUME Inv, NEW p \in Player, Login(p)
  PROVE  Inv'
<1>1. PICK w : w = World
  OBVIOUS
<1>2. Becomes(w) /\ online' \subseteq Player /\ online \subseteq online'
  BY <1>1 DEF Becomes, World, Inv, TypeOK, Login
<1>3. Sound(w, online, {})
  BY <1>1 DEF Inv
<1>4. Present(w, online')
  BY <1>2, <1>3 DEF Sound, Present
<1>5. Sound(w, online', {})
  BY <1>3, <1>4 DEF Sound
<1> QED BY <1>2, <1>5, Becoming

\* The party h at P has the people of P and p, and the list of invitations that it gets
\* when those of q become X.
Fits(h, P, p, q, X) ==
  /\ GroupOK(h) /\ ~Empty(h) /\ People(h) \cup h.invites \subseteq online
  /\ \A r \in Player : r \in People(h) <=> r = p \/ partyOf[r] = P
  /\ \A r \in Player : r # q => (r \in h.invites <=> P \in invitedTo[r])
  /\ X \in SUBSET Address /\ X \ {P} = invitedTo[q] \ {P}
  /\ P \in X <=> q \in h.invites

\* A party, new or not, that p is in and whose list of invitations gains or loses q.
LEMMA Reshapes ==
  ASSUME Inv, NEW P \in Address, NEW p \in Player, NEW q \in Player, NEW h, NEW X,
         Fits(h, P, p, q, X), partyOf[p] \in {P, None},
         party' = [party EXCEPT ![P] = h], partyOf' = [partyOf EXCEPT ![p] = P],
         invitedTo' = [invitedTo EXCEPT ![q] = X], UNCHANGED <<channel, online>>
  PROVE  Inv'
<1>0. /\ GroupOK(h) /\ ~Empty(h) /\ People(h) \cup h.invites \subseteq online
      /\ \A r \in Player : r \in People(h) <=> r = p \/ partyOf[r] = P
      /\ \A r \in Player : r # q => (r \in h.invites <=> P \in invitedTo[r])
      /\ X \in SUBSET Address /\ X \ {P} = invitedTo[q] \ {P}
      /\ P \in X <=> q \in h.invites
  BY DEF Fits
<1>1. PICK w : w = [party |-> party', partyOf |-> partyOf', invitedTo |-> invitedTo',
                    channel |-> channel]
  OBVIOUS
<1>2. Becomes(w) /\ online' \subseteq Player
  BY <1>1 DEF Becomes, Inv, TypeOK
<1>3. h \in Parties /\ h # None /\ P # None
  BY <1>0, PartyAssumption DEF GroupOK, Listed
<1>4. w \in Worlds
  <2>1. /\ party' \in [Address -> Parties \cup {None}] /\ partyOf' \in [Player -> Address \cup {None}]
        /\ invitedTo' \in [Player -> SUBSET Address]
    BY <1>0, <1>3 DEF Inv, TypeOK
  <2> QED BY <1>1, <2>1 DEF Worlds, Inv, TypeOK
<1>5. \A R \in Address : w.party[R] = IF R = P THEN h ELSE party[R]
  BY <1>1 DEF Inv, TypeOK
<1>6. \A r \in Player : /\ w.partyOf[r] = IF r = p THEN P ELSE partyOf[r]
                        /\ w.invitedTo[r] = IF r = q THEN X ELSE invitedTo[r]
  BY <1>1 DEF Inv, TypeOK
<1>7. Linked(w, {})
  <2> SUFFICES ASSUME NEW R \in Address, NEW r \in Player
      PROVE /\ w.partyOf[r] = R => w.party[R] # None /\ r \in People(w.party[R])
            /\ w.party[R] # None /\ r \in People(w.party[R]) => w.partyOf[r] = R
            /\ R \in w.invitedTo[r] <=> w.party[R] # None /\ r \in w.party[R].invites
    BY DEF Linked
  <2>1. /\ partyOf[r] = R => party[R] # None /\ r \in People(party[R])
        /\ party[R] # None /\ r \in People(party[R]) => partyOf[r] = R
        /\ R \in invitedTo[r] <=> party[R] # None /\ r \in party[R].invites
    BY DEF Inv, Sound, Linked, World
  <2>2. CASE R = P
    <3>1. w.party[R] = h /\ (w.partyOf[r] = R <=> r \in People(h))
      BY <1>0, <1>5, <1>6, <2>2
    <3>2. R \in w.invitedTo[r] <=> r \in h.invites
      BY <1>0, <1>6, <2>2
    <3> QED BY <1>3, <3>1, <3>2
  <2>3. CASE R # P
    <3>1. w.party[R] = party[R] /\ (w.partyOf[r] = R <=> partyOf[r] = R)
      <4>1. R # None
        BY PartyAssumption
      <4> QED BY <1>5, <1>6, <2>3, <4>1
    <3>2. R \in w.invitedTo[r] <=> R \in invitedTo[r]
      BY <1>0, <1>6, <2>3
    <3> QED BY <2>1, <3>1, <3>2
  <2> QED BY <2>2, <2>3
<1>8. Present(w, online')
  <2> SUFFICES ASSUME NEW R \in Address
      PROVE  /\ w.party[R] # None => People(w.party[R]) \cup w.party[R].invites \subseteq online
             /\ w.channel[R] # None => w.channel[R] \subseteq online
    BY DEF Present
  <2>1. /\ party[R] # None => People(party[R]) \cup party[R].invites \subseteq online
        /\ channel[R] # None => channel[R] \subseteq online
    BY DEF Inv, Sound, Present, World
  <2> QED BY <1>0, <1>1, <1>5, <2>1
<1>9. GroupsOK(w, {})
  <2>1. \A R \in Address : party[R] # None => GroupOK(party[R]) /\ ~Empty(party[R])
    BY DEF Inv, Sound, GroupsOK, World
  <2> QED BY <1>0, <1>5, <2>1 DEF GroupsOK
<1> QED BY <1>2, <1>4, <1>7, <1>8, <1>9, Becoming DEF Sound

\* What the invariant says of the people around a party.
LEMMA Around ==
  ASSUME Inv, NEW P \in Address
  PROVE  /\ \A r \in Player : partyOf[r] = P <=> party[P] # None /\ r \in People(party[P])
         /\ \A r \in Player : P \in invitedTo[r] <=> party[P] # None /\ r \in party[P].invites
         /\ party[P] # None => People(party[P]) \cup party[P].invites \subseteq online
<1>1. \A r \in Player : partyOf[r] = P <=> party[P] # None /\ r \in People(party[P])
  BY DEF Inv, Sound, Linked, World
<1>2. \A r \in Player : P \in invitedTo[r] <=> party[P] # None /\ r \in party[P].invites
  BY DEF Inv, Sound, Linked, World
<1>3. party[P] # None => People(party[P]) \cup party[P].invites \subseteq online
  BY DEF Inv, Sound, Present, World
<1> QED BY <1>1, <1>2, <1>3

\* Party::Party.
LEMMA Founds ==
  ASSUME NEW p \in Player, NEW g, g = NewParty(p)
  PROVE  g \in Parties /\ GroupOK(g) /\ People(g) = {p} /\ g.invites = {}
<1>1. PICK s : s = <<>>
  OBVIOUS
<1>2. s \in Seq(Player) /\ DOMAIN s = {}
  BY <1>1
<1>3. g = [leader |-> p, members |-> s, invites |-> {}, points |-> {},
           active |-> FALSE, enabled |-> FALSE]
  BY <1>1 DEF NewParty
<1>4. [leader |-> p, members |-> s, invites |-> {}, points |-> {},
       active |-> FALSE, enabled |-> FALSE] \in Parties
  BY <1>2 DEF Parties
<1>5. g \in Parties
  BY <1>3, <1>4
<1>6. /\ g.leader = p /\ g.members = s /\ g.invites = {} /\ g.points = {}
      /\ g.active = FALSE
  BY <1>3
<1>7. ToSet(s) = {}
  BY <1>2 DEF ToSet
<1>8. People(g) = {p}
  BY <1>6, <1>7 DEF People
<1>9. Listed(g)
  BY <1>2, <1>5, <1>6, <1>7 DEF Listed, Distinct
<1> QED BY <1>5, <1>6, <1>8, <1>9 DEF GroupOK, Fair

LEMMA InviteKeeps ==
  ASSUME Inv, NEW p \in Player, NEW q \in Player, NEW P \in Address, Invite(p, q, P)
  PROVE  Inv'
<1> PICK g : g = IF partyOf[p] = None THEN NewParty(p) ELSE party[P]
  OBVIOUS
<1> PICK h : h = [g EXCEPT !.invites = @ \cup {q}]
  OBVIOUS
<1> PICK X : X = invitedTo[q] \cup {P}
  OBVIOUS
<1>1. /\ p \in online /\ q \in online /\ partyOf[p] \in {P, None}
      /\ partyOf[p] = None => party[P] = None
      /\ party' = [party EXCEPT ![P] = h] /\ partyOf' = [partyOf EXCEPT ![p] = P]
      /\ invitedTo' = [invitedTo EXCEPT ![q] = X] /\ UNCHANGED <<channel, online>>
  <2>1. party' = [party EXCEPT ![P] = h]
    BY DEF Invite
  <2>2. invitedTo' = [invitedTo EXCEPT ![q] = X]
    BY DEF Invite
  <2> QED BY <2>1, <2>2 DEF Invite
<1>2. /\ g \in Parties /\ GroupOK(g) /\ People(g) \cup g.invites \subseteq online
      /\ \A r \in Player : r \in People(g) <=> r = p \/ partyOf[r] = P
      /\ \A r \in Player : r \in g.invites <=> P \in invitedTo[r]
  <2>1. CASE partyOf[p] = None
    <3>1. g = NewParty(p) /\ party[P] = None
      BY <1>1, <2>1
    <3>2. g \in Parties /\ GroupOK(g) /\ People(g) = {p} /\ g.invites = {}
      BY <3>1, Founds
    <3>3. \A r \in Player : r \in People(g) <=> r = p \/ partyOf[r] = P
      BY <3>1, <3>2, Around
    <3>4. \A r \in Player : r \in g.invites <=> P \in invitedTo[r]
      BY <3>1, <3>2, Around
    <3> QED BY <1>1, <3>2, <3>3, <3>4
  <2>2. CASE partyOf[p] # None
    <3>1. g = party[P] /\ partyOf[p] = P
      BY <1>1, <2>2
    <3>2. g # None /\ GroupOK(g) /\ g \in Parties
      BY <2>2, <3>1, OwnParty
    <3>3. People(g) \cup g.invites \subseteq online
      BY <3>1, <3>2, Around
    <3>4. \A r \in Player : r \in People(g) <=> r = p \/ partyOf[r] = P
      BY <3>1, <3>2, Around
    <3>5. \A r \in Player : r \in g.invites <=> P \in invitedTo[r]
      BY <3>1, <3>2, Around
    <3> QED BY <3>2, <3>3, <3>4, <3>5
  <2> QED BY <2>1, <2>2
<1>3. /\ h \in Parties /\ h.leader = g.leader /\ h.members = g.members
      /\ h.invites = g.invites \cup {q} /\ h.points = g.points
      /\ h.active = g.active /\ h.enabled = g.enabled
  BY <1>2 DEF Parties
<1>4. People(h) = People(g) /\ GroupOK(h) /\ ~Empty(h)
  BY <1>2, <1>3 DEF People, GroupOK, Listed, Fair, Fought, Empty
<1>5. People(h) \cup h.invites \subseteq online
  BY <1>1, <1>2, <1>3, <1>4
<1>6. /\ \A r \in Player : r \in People(h) <=> r = p \/ partyOf[r] = P
      /\ \A r \in Player : r # q => (r \in h.invites <=> P \in invitedTo[r])
  BY <1>2, <1>3, <1>4
<1>7. /\ X \in SUBSET Address /\ X \ {P} = invitedTo[q] \ {P}
      /\ P \in X <=> q \in h.invites
  BY <1>3 DEF Inv, TypeOK
<1>8. Fits(h, P, p, q, X)
  BY <1>4, <1>5, <1>6, <1>7 DEF Fits
<1> QED BY <1>1, <1>8, Reshapes

\* The party after Party::joinParty.
Joined(g, p, a) == Update([g EXCEPT !.invites = @ \ {p}, !.members = Append(@, p)], a)

LEMMA Joins ==
  ASSUME NEW g, GroupOK(g), NEW p \in Player, p \notin People(g), NEW a \in Answers,
         NEW h, h = Joined(g, p, a)
  PROVE  /\ GroupOK(h) /\ ~Empty(h) /\ People(h) = People(g) \cup {p}
         /\ h.invites = g.invites \ {p}
<1> PICK m : m = g.members
  OBVIOUS
<1>1. /\ m \in Seq(Player) /\ Distinct(m) /\ g.leader \notin ToSet(m) /\ p # g.leader
      /\ p \notin ToSet(m) /\ g \in Parties
  BY DEF GroupOK, Listed, Parties, People
<1>2. PICK n : n = AtBack(m, p)
  OBVIOUS
<1>3. n \in Seq(Player) /\ Distinct(n) /\ ToSet(n) = ToSet(m) \cup {p} /\ n # <<>>
  <2>1. n \in Seq(Player) /\ Distinct(n) /\ n # <<>>
    BY <1>1, <1>2, PushBack
  <2>2. \A y : y \in ToSet(n) <=> y \in ToSet(m) \/ y = p
    BY <1>1, <1>2, PushBack
  <2> QED BY <2>1, <2>2
<1>k. PICK k : k = [g EXCEPT !.invites = @ \ {p}, !.members = n]
  OBVIOUS
<1>4. /\ k \in Parties /\ k.leader = g.leader /\ k.members = n
      /\ k.invites = g.invites \ {p} /\ k.points = g.points
  BY <1>1, <1>3, <1>k DEF Parties
<1>5. Listed(k) /\ People(k) = People(g) \cup {p}
  BY <1>1, <1>3, <1>4 DEF Listed, People
<1>6. h = Update(k, a)
  BY <1>2, <1>k DEF Joined, AtBack
<1>7. /\ Listed(h) /\ Fair(h) /\ h.members = n /\ h.invites = g.invites \ {p}
      /\ h.points = g.points /\ People(h) = People(g) \cup {p}
  BY <1>4, <1>5, <1>6, Updates
<1> QED BY <1>3, <1>7 DEF GroupOK, Empty

LEMMA JoinKeeps ==
  ASSUME Inv, NEW p \in Player, NEW leader \in Player, NEW a \in Answers, Join(p, leader, a)
  PROVE  Inv'
<1> PICK P : P = partyOf[leader]
  OBVIOUS
<1> PICK g : g = party[P]
  OBVIOUS
<1> PICK h : h = Joined(g, p, a)
  OBVIOUS
<1> PICK X : X = invitedTo[p] \ {P}
  OBVIOUS
<1>1. /\ p \in online /\ partyOf[leader] # None /\ partyOf[p] = None
      /\ party' = [party EXCEPT ![P] = h] /\ partyOf' = [partyOf EXCEPT ![p] = P]
      /\ invitedTo' = [invitedTo EXCEPT ![p] = X] /\ UNCHANGED <<channel, online>>
  <2>1. party' = [party EXCEPT ![P] = h]
    BY DEF Join, Joined
  <2>2. invitedTo' = [invitedTo EXCEPT ![p] = X]
    BY DEF Join
  <2> QED BY <2>1, <2>2 DEF Join, IsInviting
<1>2. P \in Address /\ g # None /\ GroupOK(g) /\ g \in Parties
  BY <1>1, OwnParty
<1>3. /\ \A r \in Player : partyOf[r] = P <=> r \in People(g)
      /\ \A r \in Player : P \in invitedTo[r] <=> r \in g.invites
      /\ People(g) \cup g.invites \subseteq online
  BY <1>2, Around
<1>4. p \notin People(g)
  BY <1>1, <1>2, <1>3, PartyAssumption
<1>5. /\ GroupOK(h) /\ ~Empty(h) /\ People(h) = People(g) \cup {p}
      /\ h.invites = g.invites \ {p}
  BY <1>2, <1>4, Joins
<1>6. People(h) \cup h.invites \subseteq online
  BY <1>1, <1>3, <1>5
<1>7. /\ \A r \in Player : r \in People(h) <=> r = p \/ partyOf[r] = P
      /\ \A r \in Player : r # p => (r \in h.invites <=> P \in invitedTo[r])
  BY <1>3, <1>5
<1>8. /\ X \in SUBSET Address /\ X \ {P} = invitedTo[p] \ {P}
      /\ P \in X <=> p \in h.invites
  BY <1>5 DEF Inv, TypeOK
<1>9. Fits(h, P, p, p, X)
  BY <1>5, <1>6, <1>7, <1>8 DEF Fits
<1> QED BY <1>1, <1>2, <1>9, Reshapes

\* No script keeps a player in a party or a party alive, as in
\* src/data/events/scripts/party.lua.
NoVetoes == Vetoes \subseteq {"join"}

LEMMA Agreed ==
  ASSUME NoVetoes, NEW a \in Answers
  PROVE  a["leave"] /\ a["disband"]
BY DEF NoVetoes, Answers, Events

LEMMA RevokeKeeps ==
  ASSUME Inv, NoVetoes, NEW p \in Player, NEW q \in Player, NEW a \in Answers, Revoke(p, q, a)
  PROVE  Inv'
<1>1. PICK w : w = World
  OBVIOUS
<1>2. Sound(w, online, {}) /\ online \subseteq Player /\ w.party = party
  BY <1>1 DEF Inv, TypeOK, World
<1>3. PICK Ps : Ps = {partyOf[p]}
  OBVIOUS
<1>4. Ps \in SUBSET Address /\ \A P \in Ps : w.party[P] # None
  BY <1>2, <1>3, OwnParty DEF Revoke, IsInviting
<1>5. PICK v : v = RemoveInvite(w, Ps, q, a)
  OBVIOUS
<1>6. Becomes(v) /\ online' = online
  BY <1>1, <1>3, <1>5 DEF Revoke
<1>7. Sound(v, online, {})
  BY <1>2, <1>4, <1>5, Agreed, RemovesInvites
<1> QED BY <1>2, <1>6, <1>7, Becoming

LEMMA LeaveKeeps ==
  ASSUME Inv, NoVetoes, NEW p \in Player, NEW a \in Answers, Leave(p, a)
  PROVE  Inv'
<1>1. PICK w : w = World
  OBVIOUS
<1>2. Sound(w, online, {}) /\ online \subseteq Player /\ w.partyOf = partyOf
  BY <1>1 DEF Inv, TypeOK, World
<1>3. PICK P : P = partyOf[p]
  OBVIOUS
<1>4. P \in Address /\ w.partyOf[p] = P
  BY <1>2, <1>3, OwnParty DEF Leave
<1>5. PICK v : v = LeaveParty(w, P, p, a)
  OBVIOUS
<1>6. Becomes(v) /\ online' = online
  BY <1>1, <1>3, <1>5 DEF Leave
<1>7. Sound(v, online, {})
  BY <1>2, <1>4, <1>5, Agreed, LeavesParty
<1> QED BY <1>2, <1>6, <1>7, Becoming

LEMMA LogoutKeeps ==
  ASSUME Inv, NoVetoes, NEW p \in Player, NEW a \in Answers, Logout(p, a)
  PROVE  Inv'
<1>1. PICK w : w = World
  OBVIOUS
<1>2. Sound(w, online, {}) /\ online \subseteq Player
  BY <1>1 DEF Inv, TypeOK
<1>3. PICK u : u = ClearInvitations(w, p, a)
  OBVIOUS
<1>4. Sound(u, online, {}) /\ u.invitedTo[p] = {}
  BY <1>2, <1>3, Agreed, ClearsInvitations
<1>5. PICK P : P = u.partyOf[p]
  OBVIOUS
<1>6. P \in Address \cup {None}
  BY <1>4, <1>5 DEF Sound, Worlds
<1>7. PICK x : x = IF P = None THEN u ELSE LeaveParty(u, P, p, a)
  OBVIOUS
<1>8. Sound(x, online, {}) /\ x.partyOf[p] = None /\ x.invitedTo[p] = {}
  <2>1. CASE P = None
    BY <1>4, <1>5, <1>7, <2>1
  <2>2. CASE P # None
    <3>1. P \in Address /\ x = LeaveParty(u, P, p, a)
      BY <1>6, <1>7, <2>2
    <3>2. /\ Sound(x, online, {}) /\ x.partyOf[p] = None
          /\ x.invitedTo[p] \subseteq u.invitedTo[p]
      BY <1>4, <1>5, <3>1, Agreed, LeavesParty
    <3> QED BY <1>4, <3>2
  <2> QED BY <2>1, <2>2
<1>9. PICK v : v = RemoveFromChannels(x, p)
  OBVIOUS
<1>10. Becomes(v) /\ online' = online \ {p}
  BY <1>1, <1>3, <1>5, <1>7, <1>9 DEF Logout
<1>11. Sound(v, online \ {p}, {})
  BY <1>8, <1>9, RemovesFromChannels
<1> QED BY <1>2, <1>10, <1>11, Becoming

-----------------------------------------------------------------------------
(* The theorems                                                            *)

LEMMA InitInv ==
  ASSUME Init
  PROVE  Inv
<1>1. World = [party |-> [P \in Address |-> None], partyOf |-> [p \in Player |-> None],
               invitedTo |-> [p \in Player |-> {}], channel |-> [P \in Address |-> None]]
  BY DEF World, Init
<1>2. World \in Worlds /\ TypeOK
  BY <1>1 DEF Init, TypeOK, Worlds
<1>3. Linked(World, {})
  BY <1>1, PartyAssumption DEF Linked
<1>4. Present(World, online) /\ GroupsOK(World, {})
  BY <1>1 DEF Present, GroupsOK
<1> QED BY <1>2, <1>3, <1>4 DEF Inv, Sound

LEMMA NextInv ==
  ASSUME NoVetoes, Inv, [Next]_vars
  PROVE  Inv'
<1>1. CASE Next
  <2>1. PICK p \in Player :
          \/ RequestChannels(p) \/ OpenChannel(p) \/ CloseChannel(p) \/ Login(p)
          \/ \E q \in Player, P \in Address : Invite(p, q, P)
          \/ \E a \in Answers :
               \/ \E q \in Player : Join(p, q, a) \/ Revoke(p, q, a) \/ PassLeadership(p, q, a)
               \/ \E on \in BOOLEAN : EnableShared(p, on, a)
               \/ Leave(p, a) \/ Fight(p, a) \/ GoIdle(p, a) \/ Walk(p, a) \/ Logout(p, a)
    BY <1>1 DEF Next
  <2>2. CASE RequestChannels(p) \/ OpenChannel(p) \/ CloseChannel(p)
    BY <2>2, ChannelKeeps
  <2>3. CASE Login(p)
    BY <2>3, LoginKeeps
  <2>4. ASSUME NEW q \in Player, NEW P \in Address, Invite(p, q, P)  PROVE Inv'
    BY <2>4, InviteKeeps
  <2>5. ASSUME NEW a \in Answers, NEW q \in Player, Join(p, q, a)  PROVE Inv'
    BY <2>5, JoinKeeps
  <2>6. ASSUME NEW a \in Answers, NEW q \in Player, Revoke(p, q, a)  PROVE Inv'
    BY <2>6, RevokeKeeps
  <2>7. ASSUME NEW a \in Answers, NEW q \in Player, PassLeadership(p, q, a)  PROVE Inv'
    BY <2>7, PassLeadershipKeeps
  <2>8. ASSUME NEW a \in Answers, NEW on \in BOOLEAN, EnableShared(p, on, a)  PROVE Inv'
    BY <2>8, EnableSharedKeeps
  <2>9. ASSUME NEW a \in Answers, Leave(p, a)  PROVE Inv'
    BY <2>9, LeaveKeeps
  <2>10. ASSUME NEW a \in Answers, Fight(p, a) \/ GoIdle(p, a) \/ Walk(p, a)  PROVE Inv'
    BY <2>10, FightKeeps, GoIdleKeeps, WalkKeeps
  <2>11. ASSUME NEW a \in Answers, Logout(p, a)  PROVE Inv'
    BY <2>11, LogoutKeeps
  <2> QED BY <2>1, <2>2, <2>3, <2>4, <2>5, <2>6, <2>7, <2>8, <2>9, <2>10, <2>11
<1>2. CASE UNCHANGED vars
  BY <1>2 DEF vars, Inv, TypeOK, World
<1> QED BY <1>1, <1>2

LEMMA Invariance ==
  ASSUME NoVetoes
  PROVE  Spec => []Inv
<1>1. Init => Inv
  BY InitInv
<1>2. Inv /\ [Next]_vars => Inv'
  BY NextInv
<1> QED BY <1>1, <1>2, PTL DEF Spec

\* Pointers, lists and channels stay what they are declared to be.
THEOREM TypeCorrect ==
  ASSUME NoVetoes
  PROVE  Spec => []TypeOK
<1>1. Inv => TypeOK
  BY DEF Inv
<1> QED BY <1>1, Invariance, PTL

\* The players' pointers and the parties' lists agree, whatever order players are
\* invited, join, leave, log out and lose their leader in: no dangling Party pointer.
THEOREM PartiesAreMutual ==
  ASSUME NoVetoes
  PROVE  Spec => []Mutual
<1>1. Inv => Mutual
  BY Around DEF Mutual
<1> QED BY <1>1, Invariance, PTL

\* No party and no party channel keeps a pointer to a player that has left the game.
THEOREM PartiesAreInGame ==
  ASSUME NoVetoes
  PROVE  Spec => []InGame
<1>1. Inv => InGame
  BY DEF Inv, Sound, Present, World, InGame
<1> QED BY <1>1, Invariance, PTL

\* A party that has no member besides its leader and no open invitation is disbanded,
\* and nobody is on its lists twice.
THEOREM PartiesAreNotAlone ==
  ASSUME NoVetoes
  PROVE  Spec => []NeverAlone
<1>1. ASSUME Inv, NEW P \in Address, party[P] # None
      PROVE  /\ ~Empty(party[P])
             /\ Len(party[P].members) + 1 = Cardinality(People(party[P]))
  <2>1. PICK g : g = party[P]
    OBVIOUS
  <2>2. Listed(g) /\ ~Empty(g)
    BY <1>1, <2>1 DEF Inv, Sound, GroupsOK, GroupOK, World
  <2>3. g.members \in Seq(Player) /\ Distinct(g.members) /\ g.leader \notin ToSet(g.members)
    BY <2>2 DEF Listed, Parties
  <2>4. IsFiniteSet(ToSet(g.members)) /\ Cardinality(ToSet(g.members)) = Len(g.members)
    BY <2>3, Length
  <2>5. People(g) = ToSet(g.members) \cup {g.leader}
    BY DEF People
  <2>6. Cardinality(ToSet(g.members) \cup {g.leader}) = Cardinality(ToSet(g.members)) + 1
    BY <2>3, <2>4, FS_AddElement
  <2> QED BY <2>1, <2>2, <2>4, <2>5, <2>6
<1>2. Inv => NeverAlone
  BY <1>1 DEF NeverAlone
<1> QED BY <1>2, Invariance, PTL

\* The cached flag that lets a party share experience is never stale: there are two
\* of them at least, and all who share have fought or healed but for those who gain
\* nothing in a fight (PlayerFlag_NotGainInFight).
THEOREM SharingIsFair ==
  ASSUME NoVetoes
  PROVE  Spec => []SharedByFighters
<1>1. Inv => SharedByFighters
  BY DEF Inv, Sound, GroupsOK, GroupOK, Fair, World, SharedByFighters
<1> QED BY <1>1, Invariance, PTL
=============================================================================
