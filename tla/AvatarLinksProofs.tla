--------------------------- MODULE AvatarLinksProofs ---------------------------
(***************************************************************************)
(* Proofs about AvatarLinks: every script keeps the two directions of the  *)
(* links and the roles in agreement, only links that are being rebuilt     *)
(* when another command touches them can be torn, and an entry that no     *)
(* request is writing and nothing went wrong with shows what the ZODB has. *)
(***************************************************************************)
EXTENDS AvatarLinks, SequenceTheorems, FiniteSetTheorems, TLAPS

-------------------------------------------------------------------------------
(* Single commands *)

\* The members, scores and roles agree about an avatar.
Agree(a) ==
    \A e \in Events : /\ a \in members[e] <=> score[a][e] # None
                      /\ a \in members[e] <=> roles[a][e] # {}

\* They agree but for what command c has still to write.
HalfAgree(a, c) ==
    \A e \in Events :
        IF c.op = "place"
        THEN /\ a \in members[e] <=> score[a][e] # None \/ c.dates[e] # None
             /\ a \in members[e] <=> roles[a][e] # {} \/ c.roles[e] # {}
        ELSE /\ a \in members[e] <=> score[a][e] # None
             /\ a \in members[e] <=> roles[a][e] # {} \/ c.roles[e] # {}

\* What a del writes, entry by entry.
LEMMA DelWrites ==
    ASSUME RedisTypeOK, NEW c \in Commands, Del(c)
    PROVE  /\ c.avatar \in Avatars /\ c.event \in Events /\ c.role \in Roles
           /\ roles' \in [Avatars -> [Events -> SUBSET Roles]]
           /\ score' \in [Avatars -> [Events -> Scores]]
           /\ members' \in [Events -> SUBSET Avatars]
           /\ \A a \in Avatars, e \in Events :
                 IF a = c.avatar /\ e = c.event
                 THEN /\ roles'[a][e] = roles[a][e] \ {c.role}
                      /\ IF roles[a][e] \subseteq {c.role}
                         THEN a \notin members'[e] /\ score'[a][e] = None
                         ELSE /\ a \in members'[e] <=> a \in members[e]
                              /\ score'[a][e] = score[a][e]
                 ELSE /\ roles'[a][e] = roles[a][e]
                      /\ score'[a][e] = score[a][e]
                      /\ a \in members'[e] <=> a \in members[e]
  <1>1. c.avatar \in Avatars /\ c.event \in Events /\ c.role \in Roles
    BY DEF Commands, Del
  <1>2. /\ roles' \in [Avatars -> [Events -> SUBSET Roles]]
        /\ \A a \in Avatars, e \in Events :
              roles'[a][e] = IF a = c.avatar /\ e = c.event
                             THEN roles[a][e] \ {c.role} ELSE roles[a][e]
    BY <1>1 DEF RedisTypeOK, Del
  <1>3. CASE roles[c.avatar][c.event] \subseteq {c.role}
    <2>1. /\ members' = [members EXCEPT ![c.event] = @ \ {c.avatar}]
          /\ score' = [score EXCEPT ![c.avatar][c.event] = None]
      BY <1>3 DEF Del
    <2>2. /\ members' \in [Events -> SUBSET Avatars]
          /\ \A e \in Events : members'[e] = IF e = c.event
                                THEN members[e] \ {c.avatar} ELSE members[e]
      BY <1>1, <2>1 DEF RedisTypeOK
    <2>3. /\ score' \in [Avatars -> [Events -> Scores]]
          /\ \A a \in Avatars, e \in Events :
                score'[a][e] = IF a = c.avatar /\ e = c.event
                               THEN None ELSE score[a][e]
      BY <1>1, <2>1 DEF RedisTypeOK, Scores
    <2>4. \A a \in Avatars, e \in Events :
             a \in members'[e] <=> a \in members[e] /\ ~(a = c.avatar /\ e = c.event)
      BY <2>2
    <2>5. ASSUME NEW a \in Avatars, NEW e \in Events
          PROVE  IF a = c.avatar /\ e = c.event
                 THEN /\ roles'[a][e] = roles[a][e] \ {c.role}
                      /\ IF roles[a][e] \subseteq {c.role}
                         THEN a \notin members'[e] /\ score'[a][e] = None
                         ELSE /\ a \in members'[e] <=> a \in members[e]
                              /\ score'[a][e] = score[a][e]
                 ELSE /\ roles'[a][e] = roles[a][e]
                      /\ score'[a][e] = score[a][e]
                      /\ a \in members'[e] <=> a \in members[e]
      <3>1. CASE a = c.avatar /\ e = c.event
        <4>1. roles[a][e] \subseteq {c.role}
          BY <1>3, <3>1
        <4>2. roles'[a][e] = roles[a][e] \ {c.role}
          BY <1>2, <3>1
        <4>3. a \notin members'[e] /\ score'[a][e] = None
          BY <2>3, <2>4, <3>1
        <4>4. QED
          BY <3>1, <4>1, <4>2, <4>3
      <3>2. CASE ~(a = c.avatar /\ e = c.event)
        <4>1. roles'[a][e] = roles[a][e]
          BY <1>2, <3>2
        <4>2. /\ a \in members'[e] <=> a \in members[e]
              /\ score'[a][e] = score[a][e]
          BY <2>3, <2>4, <3>2
        <4>3. QED
          BY <3>2, <4>1, <4>2
      <3>3. QED
        BY <3>1, <3>2
    <2>6. QED
      BY <1>1, <1>2, <2>2, <2>3, <2>5
  <1>4. CASE ~(roles[c.avatar][c.event] \subseteq {c.role})
    <2>1. members' = members /\ score' = score
      BY <1>4 DEF Del
    <2>2. QED
      BY <1>1, <1>2, <1>4, <2>1 DEF RedisTypeOK
  <1>5. QED
    BY <1>3, <1>4

\* What a merge writes, entry by entry.
LEMMA MergeWrites ==
    ASSUME RedisTypeOK, NEW c \in Commands, Merge(c)
    PROVE  /\ c.avatar \in Avatars /\ c.source \in Avatars
           /\ roles' \in [Avatars -> [Events -> SUBSET Roles]]
           /\ score' \in [Avatars -> [Events -> Scores]]
           /\ members' \in [Events -> SUBSET Avatars]
           /\ \A e \in Events :
                 members'[e] = IF score[c.source][e] # None
                               THEN (members[e] \ {c.source}) \cup {c.avatar}
                               ELSE members[e]
           /\ \A e \in Events :
                 /\ score'[c.source][e] = None
                 /\ roles'[c.source][e] = IF score[c.source][e] # None THEN {}
                                          ELSE roles[c.source][e]
           /\ \A e \in Events :
                 /\ score'[c.avatar][e] =
                       IF score[c.avatar][e] = None /\ score[c.source][e] # None
                       THEN 0 ELSE score[c.avatar][e]
                 /\ roles'[c.avatar][e] =
                       IF score[c.source][e] # None
                       THEN roles[c.avatar][e] \cup roles[c.source][e]
                       ELSE roles[c.avatar][e]
           /\ \A a \in Avatars : a # c.avatar /\ a # c.source =>
                 score'[a] = score[a] /\ roles'[a] = roles[a]
  <1>1. c.avatar \in Avatars /\ c.source \in Avatars /\ c.avatar # c.source
    BY DEF Commands, Merge
  <1>2. \A e \in Events : e \in Listed(c.source) <=> score[c.source][e] # None
    BY DEF Listed
  <1>. DEFINE To == [e \in Events |->
                        IF score[c.avatar][e] = None /\ e \in Listed(c.source) THEN 0
                        ELSE score[c.avatar][e]]
              Given == [e \in Events |->
                        IF e \in Listed(c.source)
                        THEN roles[c.avatar][e] \cup roles[c.source][e]
                        ELSE roles[c.avatar][e]]
              Left == [e \in Events |->
                        IF e \in Listed(c.source) THEN {} ELSE roles[c.source][e]]
  <1>3. /\ To \in [Events -> Scores] /\ NoEvents \in [Events -> Scores]
        /\ Given \in [Events -> SUBSET Roles] /\ Left \in [Events -> SUBSET Roles]
    BY <1>1 DEF RedisTypeOK, Scores, NoEvents
  <1>4. /\ members' \in [Events -> SUBSET Avatars]
        /\ \A e \in Events :
                 members'[e] = IF score[c.source][e] # None
                               THEN (members[e] \ {c.source}) \cup {c.avatar}
                               ELSE members[e]
    BY <1>1, <1>2 DEF RedisTypeOK, Merge
  <1>5. /\ score' = [score EXCEPT ![c.avatar] = To, ![c.source] = NoEvents]
        /\ roles' = [roles EXCEPT ![c.avatar] = Given, ![c.source] = Left]
    BY DEF Merge
  <1>6. /\ score' \in [Avatars -> [Events -> Scores]]
        /\ \A a \in Avatars : score'[a] = IF a = c.source THEN NoEvents
                                          ELSE IF a = c.avatar THEN To ELSE score[a]
    <2>. HIDE DEF To
    <2>. QED BY <1>1, <1>3, <1>5 DEF RedisTypeOK
  <1>7. /\ roles' \in [Avatars -> [Events -> SUBSET Roles]]
        /\ \A a \in Avatars : roles'[a] = IF a = c.source THEN Left
                                          ELSE IF a = c.avatar THEN Given ELSE roles[a]
    <2>. HIDE DEF Given, Left
    <2>. QED BY <1>1, <1>3, <1>5 DEF RedisTypeOK
  <1>8. score'[c.source] = NoEvents /\ roles'[c.source] = Left
    BY <1>1, <1>6, <1>7
  <1>9. score'[c.avatar] = To /\ roles'[c.avatar] = Given
    BY <1>1, <1>6, <1>7
  <1>10. \A a \in Avatars : a # c.avatar /\ a # c.source =>
            score'[a] = score[a] /\ roles'[a] = roles[a]
    BY <1>6, <1>7
  <1>11. \A e \in Events :
            /\ score'[c.source][e] = None
            /\ roles'[c.source][e] = IF score[c.source][e] # None THEN {}
                                     ELSE roles[c.source][e]
    BY <1>2, <1>8 DEF NoEvents
  <1>12. \A e \in Events :
            /\ score'[c.avatar][e] =
                  IF score[c.avatar][e] = None /\ score[c.source][e] # None
                  THEN 0 ELSE score[c.avatar][e]
            /\ roles'[c.avatar][e] =
                  IF score[c.source][e] # None
                  THEN roles[c.avatar][e] \cup roles[c.source][e]
                  ELSE roles[c.avatar][e]
    BY <1>2, <1>9
  <1>13. QED
    BY <1>1, <1>4, <1>6, <1>7, <1>10, <1>11, <1>12

LEMMA RedisTypes ==
    ASSUME RedisTypeOK, NEW c \in Commands, Perform(c)
    PROVE  RedisTypeOK'
  <1>. USE DEF RedisTypeOK, Commands, Scores, NoEvents
  <1>1. CASE Add(c)
    BY <1>1 DEF Add
  <1>2. CASE Del(c)
    BY <1>2, DelWrites
  <1>3. CASE DeleteAvatar(c)
    BY <1>3 DEF DeleteAvatar
  <1>4. CASE RemoveEvent(c)
    BY <1>4 DEF RemoveEvent
  <1>5. CASE UpdateTime(c)
    BY <1>5 DEF UpdateTime
  <1>6. CASE Merge(c)
    BY <1>6, MergeWrites
  <1>7. CASE Enlist(c)
    BY <1>7 DEF Enlist
  <1>8. CASE Place(c)
    BY <1>8 DEF Place
  <1>9. CASE Grant(c)
    BY <1>9 DEF Grant
  <1>10. QED
    BY <1>1, <1>2, <1>3, <1>4, <1>5, <1>6, <1>7, <1>8, <1>9 DEF Perform

\* A command leaves the entries of an avatar outside its scope alone.
LEMMA Frame ==
    ASSUME RedisTypeOK, NEW c \in Commands, Perform(c), NEW a \in Avatars,
           \A e \in Events : <<a, e>> \notin Scope(c)
    PROVE  \A e \in Events : /\ a \in members'[e] <=> a \in members[e]
                             /\ score'[a][e] = score[a][e]
                             /\ roles'[a][e] = roles[a][e]
  <1>. USE DEF RedisTypeOK, Commands, Scores, NoEvents, Scope, Pairs
  <1>1. CASE Add(c)
    BY <1>1 DEF Add
  <1>2. CASE Del(c)
    <2>1. c.op = "del" /\ ~(a = c.avatar /\ c.event \in Events)
      BY <1>2 DEF Del
    <2>2. QED
      BY <1>2, <2>1, DelWrites
  <1>3. CASE DeleteAvatar(c)
    BY <1>3 DEF DeleteAvatar
  <1>4. CASE RemoveEvent(c)
    BY <1>4 DEF RemoveEvent
  <1>5. CASE UpdateTime(c)
    BY <1>5 DEF UpdateTime
  <1>6. CASE Merge(c)
    BY <1>6, MergeWrites DEF Merge
  <1>7. CASE Enlist(c)
    BY <1>7 DEF Enlist
  <1>8. CASE Place(c)
    BY <1>8 DEF Place
  <1>9. CASE Grant(c)
    BY <1>9 DEF Grant
  <1>10. QED
    BY <1>1, <1>2, <1>3, <1>4, <1>5, <1>6, <1>7, <1>8, <1>9 DEF Perform

\* A merge keeps an agreement that its source has too.
LEMMA MergeAgrees ==
    ASSUME RedisTypeOK, NEW c \in Commands, Merge(c), NEW a \in Avatars,
           Agree(a), Agree(c.source)
    PROVE  Agree(a)'
  <1>1. /\ c.avatar \in Avatars /\ c.source \in Avatars
        /\ Agree(a) /\ Agree(c.source)
    BY DEF Merge, Commands
  <1>2. None # 0
    BY LinksAssumption
  <1>3. SUFFICES ASSUME NEW e \in Events
                 PROVE  /\ a \in members'[e] <=> score'[a][e] # None
                        /\ a \in members'[e] <=> roles'[a][e] # {}
    BY DEF Agree
  <1>4. c.avatar # c.source
    BY DEF Merge, Commands
  <1>5. /\ a \in members[e] <=> score[a][e] # None
        /\ a \in members[e] <=> roles[a][e] # {}
        /\ c.source \in members[e] <=> score[c.source][e] # None
        /\ c.source \in members[e] <=> roles[c.source][e] # {}
    BY <1>1 DEF Agree
  <1>6. /\ score[c.source][e] # None
              => (a \in members'[e] <=> a = c.avatar
                                         \/ (a \in members[e] /\ a # c.source))
        /\ score[c.source][e] = None
              => (a \in members'[e] <=> a \in members[e])
    <2>1. members'[e] = IF score[c.source][e] # None
                        THEN (members[e] \ {c.source}) \cup {c.avatar}
                        ELSE members[e]
      BY MergeWrites
    <2>2. CASE score[c.source][e] # None
      BY <2>1, <2>2
    <2>3. CASE score[c.source][e] = None
      BY <2>1, <2>3
    <2>4. QED
      BY <2>2, <2>3
  <1>7. CASE a = c.source
    <2>1. /\ score'[a][e] = None
          /\ roles'[a][e] = IF score[a][e] # None THEN {} ELSE roles[a][e]
      BY <1>7, MergeWrites
    <2>2. a \notin members'[e]
      BY <1>4, <1>5, <1>6, <1>7
    <2>3. roles'[a][e] = {}
      <3>1. CASE score[a][e] # None
        BY <2>1, <3>1
      <3>2. CASE score[a][e] = None
        <4>1. roles'[a][e] = roles[a][e]
          BY <2>1, <3>2
        <4>2. QED
          BY <1>5, <3>2, <4>1
      <3>3. QED
        BY <3>1, <3>2
    <2>4. QED
      BY <2>1, <2>2, <2>3
  <1>8. CASE a = c.avatar /\ a # c.source
    <2>1. /\ score'[a][e] = IF score[a][e] = None /\ score[c.source][e] # None
                            THEN 0 ELSE score[a][e]
          /\ roles'[a][e] = IF score[c.source][e] # None
                            THEN roles[a][e] \cup roles[c.source][e]
                            ELSE roles[a][e]
      BY <1>8, MergeWrites
    <2>2. CASE score[c.source][e] # None
      BY <1>2, <1>5, <1>6, <1>8, <2>1, <2>2
    <2>3. CASE score[c.source][e] = None
      BY <1>5, <1>6, <1>8, <2>1, <2>3
    <2>4. QED
      BY <2>2, <2>3
  <1>9. CASE a # c.avatar /\ a # c.source
    <2>1. /\ score'[a][e] = score[a][e]
          /\ roles'[a][e] = roles[a][e]
      BY <1>9, MergeWrites
    <2>2. QED
      BY <1>5, <1>6, <1>9, <2>1
  <1>10. QED
    BY <1>7, <1>8, <1>9

\* Each script keeps an avatar's entries in agreement; a merge, if those of its
\* source agree too.
LEMMA ScriptsAgree ==
    ASSUME RedisTypeOK, NEW c \in Commands, Perform(c), NEW a \in Avatars,
           c.op \notin {"enlist", "place", "grant"},
           Agree(a), c.op = "merge" => Agree(c.source)
    PROVE  Agree(a)'
  <1>. USE DEF RedisTypeOK, Commands, Scores, NoEvents, Agree
  <1>1. CASE Add(c)
    BY <1>1, LinksAssumption DEF Add
  <1>2. CASE Del(c)
    BY <1>2, DelWrites
  <1>3. CASE DeleteAvatar(c)
    BY <1>3 DEF DeleteAvatar, Listed
  <1>4. CASE RemoveEvent(c)
    BY <1>4 DEF RemoveEvent
  <1>5. CASE UpdateTime(c)
    BY <1>5, LinksAssumption DEF UpdateTime
  <1>6. CASE Merge(c)
    BY <1>6, MergeAgrees DEF Merge
  <1>7. QED
    BY <1>1, <1>2, <1>3, <1>4, <1>5, <1>6 DEF Perform, Enlist, Place, Grant

\* The three parts of init_links, one after the other.
LEMMA RebuildAgrees ==
    ASSUME RedisTypeOK, NEW c \in Commands, Perform(c),
           c.op \in {"enlist", "place", "grant"}
    PROVE  /\ c.op = "enlist" /\ Agree(c.avatar)
                => HalfAgree(c.avatar, [c EXCEPT !.op = "place"])'
           /\ c.op = "place" /\ HalfAgree(c.avatar, c)
                => HalfAgree(c.avatar, [c EXCEPT !.op = "grant"])'
           /\ c.op = "grant" /\ HalfAgree(c.avatar, c) => Agree(c.avatar)'
  <1>0. /\ c.avatar \in Avatars
        /\ c.dates \in [Events -> Scores] /\ c.roles \in [Events -> SUBSET Roles]
        /\ \A e \in Events : c.dates[e] # None <=> c.roles[e] # {}
    BY DEF Commands
  <1>1. CASE c.op = "enlist"
    <2>1. Enlist(c)
      BY <1>1 DEF Perform, Add, Del, DeleteAvatar, RemoveEvent, UpdateTime, Merge,
                  Place, Grant
    <2>2. /\ [c EXCEPT !.op = "place"].op = "place"
          /\ [c EXCEPT !.op = "place"].dates = c.dates
          /\ [c EXCEPT !.op = "place"].roles = c.roles
      BY <1>1 DEF Commands
    <2>3. QED
      BY <1>0, <1>1, <2>1, <2>2
      DEF Enlist, Placed, Agree, HalfAgree, RedisTypeOK
  <1>2. CASE c.op = "place"
    <2>1. Place(c)
      BY <1>2 DEF Perform, Add, Del, DeleteAvatar, RemoveEvent, UpdateTime, Merge,
                  Enlist, Grant
    <2>2. /\ [c EXCEPT !.op = "grant"].op = "grant"
          /\ [c EXCEPT !.op = "grant"].dates = c.dates
          /\ [c EXCEPT !.op = "grant"].roles = c.roles
      BY <1>2 DEF Commands
    <2>3. QED
      BY <1>0, <1>2, <2>1, <2>2 DEF Place, Placed, HalfAgree, RedisTypeOK
  <1>3. CASE c.op = "grant"
    <2>1. Grant(c)
      BY <1>3 DEF Perform, Add, Del, DeleteAvatar, RemoveEvent, UpdateTime, Merge,
                  Enlist, Place
    <2>2. QED
      BY <1>0, <1>3, <2>1 DEF Grant, HalfAgree, Agree, RedisTypeOK
  <1>4. QED
    BY <1>1, <1>2, <1>3

-------------------------------------------------------------------------------
(* Pipelines *)

\* Commands a request sends, as opposed to the parts of init_links.
Whole == {c \in Commands : c.op \notin {"place", "grant"}}

\* Only the first command of a pipeline can be a part of init_links.
Pipes ==
    \A s \in Sessions : /\ pipe[s] \in Seq(Commands)
                        /\ pipe[s] # <<>> => Tail(pipe[s]) \in Seq(Whole)

LEMMA OrderType ==
    ASSUME NEW S, IsFiniteSet(S), NEW order \in SetToSeqs(S)
    PROVE  order \in Seq(S)
  <1>1. Cardinality(S) \in Nat
    BY FS_CardinalityType
  <1>2. order \in [1 .. Cardinality(S) -> S]
    BY DEF SetToSeqs
  <1>3. QED
    BY <1>1, <1>2

LEMMA LinkedFinite ==
    ASSUME ZodbTypeOK
    PROVE  IsFiniteSet(linked)
  <1>1. IsFiniteSet(Avatars \X Objects)
    BY LinksAssumption, FS_Product
  <1>2. QED
    BY <1>1, FS_Subset DEF ZodbTypeOK

LEMMA LinkCommands ==
    ASSUME ZodbTypeOK, NEW a \in Avatars, NEW o \in Objects
    PROVE  /\ EventOf[o] \in Events
           /\ AddLink(a, EventOf[o], RoleOf[o]) \in Whole
           /\ DelLink(a, EventOf[o], RoleOf[o]) \in Whole
  <1>1. EventOf[o] \in Events /\ RoleOf[o] \in Roles /\ date[EventOf[o]] \in Nat
    BY LinksAssumption DEF ZodbTypeOK, Roles
  <1>2. QED
    BY <1>1 DEF Whole, Commands, AddLink, DelLink

LEMMA TimeCommands ==
    ASSUME NEW e \in Events, NEW d \in Dates
    PROVE  <<[op |-> "update_time", event |-> e, date |-> d]>> \in Seq(Whole)
  <1>1. [op |-> "update_time", event |-> e, date |-> d] \in Whole
    BY LinksAssumption DEF Whole, Commands
  <1>2. QED
    BY <1>1

LEMMA DeleteCommands ==
    ASSUME ZodbTypeOK, NEW e \in Events, NEW S \in SUBSET linked,
           \A p \in S : EventOf[p[2]] = e, NEW order \in SetToSeqs(S)
    PROVE  DelCommands(order, e) \o <<[op |-> "delete_event", event |-> e]>>
              \in Seq(Whole)
  <1>1. order \in Seq(S)
    BY LinkedFinite, FS_Subset, OrderType
  <1>2. \A i \in 1 .. Len(order) : DelLink(order[i][1], e, RoleOf[order[i][2]]) \in Whole
    <2>1. TAKE i \in 1 .. Len(order)
    <2>2. order[i] \in S
      BY <1>1
    <2>3. order[i][1] \in Avatars /\ order[i][2] \in Objects /\ EventOf[order[i][2]] = e
      BY <2>2 DEF ZodbTypeOK
    <2>4. QED
      BY <2>3, LinkCommands
  <1>3. DelCommands(order, e) \in Seq(Whole)
    BY <1>1, <1>2 DEF DelCommands
  <1>4. [op |-> "delete_event", event |-> e] \in Whole
    BY DEF Whole, Commands
  <1>5. QED
    BY <1>3, <1>4

LEMMA MergeCommands ==
    ASSUME ZodbTypeOK, NEW a \in Avatars, NEW source \in Avatars, a # source,
           NEW S \in SUBSET Objects, NEW order \in SetToSeqs(S)
    PROVE  MoveCommands(order, a, source)
              \o <<[op |-> "merge", avatar |-> a, source |-> source]>> \in Seq(Whole)
  <1>1. order \in Seq(S)
    BY LinksAssumption, FS_Subset, OrderType
  <1>2. \A i \in 1 .. 2 * Len(order) : order[(i + 1) \div 2] \in Objects
    <2>1. TAKE i \in 1 .. 2 * Len(order)
    <2>2. (i + 1) \div 2 \in 1 .. Len(order)
      BY <1>1
    <2>3. QED
      BY <1>1, <2>2
  <1>3. MoveCommands(order, a, source) \in Seq(Whole)
    <2>1. \A i \in 1 .. 2 * Len(order) :
             LET o == order[(i + 1) \div 2]
             IN  (IF i % 2 = 1 THEN DelLink(source, EventOf[o], RoleOf[o])
                  ELSE AddLink(a, EventOf[o], RoleOf[o])) \in Whole
      BY <1>2, LinkCommands
    <2>2. 2 * Len(order) \in Nat
      BY <1>1
    <2>3. MoveCommands(order, a, source) \in [1 .. 2 * Len(order) -> Whole]
      BY <2>1 DEF MoveCommands
    <2>4. QED
      BY <2>2, <2>3
  <1>4. [op |-> "merge", avatar |-> a, source |-> source] \in Whole
    BY DEF Whole, Commands
  <1>5. QED
    BY <1>3, <1>4

LEMMA RefreshCommands ==
    ASSUME ZodbTypeOK, NEW a \in Avatars
    PROVE  <<[op |-> "delete_avatar", avatar |-> a],
             [op |-> "enlist", avatar |-> a,
              dates |-> [e \in Events |-> IF e \in LinkedEvents(a) THEN date[e]
                                          ELSE None],
              roles |-> [e \in Events |-> LinkedRoles(a, e)]]>> \in Seq(Whole)
  <1>. DEFINE ds == [e \in Events |-> IF e \in LinkedEvents(a) THEN date[e] ELSE None]
              rs == [e \in Events |-> LinkedRoles(a, e)]
  <1>1. ds \in [Events -> Scores] /\ rs \in [Events -> SUBSET Roles]
    BY LinksAssumption DEF ZodbTypeOK, Scores, LinkedRoles, Roles
  <1>2. \A e \in Events : ds[e] # None <=> rs[e] # {}
    <2>1. TAKE e \in Events
    <2>2. ds[e] # None <=> e \in LinkedEvents(a)
      BY LinksAssumption DEF ZodbTypeOK
    <2>3. e \in LinkedEvents(a) <=> LinkedRoles(a, e) # {}
      BY DEF LinkedEvents, LinkedRoles
    <2>4. QED
      BY <2>2, <2>3
  <1>3. [op |-> "enlist", avatar |-> a, dates |-> ds, roles |-> rs] \in Whole
    <2>. HIDE DEF ds, rs
    <2>. QED BY <1>1, <1>2 DEF Whole, Commands
  <1>4. [op |-> "delete_avatar", avatar |-> a] \in Whole
    BY DEF Whole, Commands
  <1>5. QED
    BY <1>3, <1>4

\* What is left of a pipeline after its first command.
LEMMA RestType ==
    ASSUME NEW q \in Seq(Commands), q # <<>>, Tail(q) \in Seq(Whole)
    PROVE  /\ Head(q) \in Commands
           /\ Rest(q) \in Seq(Commands)
           /\ Rest(q) # <<>> => Tail(Rest(q)) \in Seq(Whole)
           /\ Head(q).op \notin {"enlist", "place"} => Rest(q) = Tail(q)
           /\ Head(q).op = "enlist"
                 => Rest(q) # <<>> /\ Head(Rest(q)) = [Head(q) EXCEPT !.op = "place"]
           /\ Head(q).op = "place"
                 => Rest(q) # <<>> /\ Head(Rest(q)) = [Head(q) EXCEPT !.op = "grant"]
  <1>1. Head(q) \in Commands
    BY HeadTailProperties
  <1>2. Whole \subseteq Commands
    BY DEF Whole
  <1>3. Tail(q) \in Seq(Commands)
    BY HeadTailProperties
  <1>4. CASE Head(q).op \notin {"enlist", "place"}
    <2>1. Rest(q) = Tail(q)
      BY <1>4 DEF Rest
    <2>2. Tail(q) # <<>> => Tail(Tail(q)) \in Seq(Whole)
      BY HeadTailProperties
    <2>3. QED
      BY <1>1, <1>3, <1>4, <2>1, <2>2
  <1>5. ASSUME NEW op \in {"place", "grant"}, NEW c, c = [Head(q) EXCEPT !.op = op],
               Head(q).op \in {"enlist", "place"}, Rest(q) = <<c>> \o Tail(q)
        PROVE  /\ Rest(q) \in Seq(Commands) /\ Rest(q) # <<>>
               /\ Head(Rest(q)) = c /\ Tail(Rest(q)) = Tail(q)
    <2>1. c \in Commands
      BY <1>1, <1>5 DEF Commands
    <2>2. QED
      BY <1>3, <1>5, <2>1
  <1>6. CASE Head(q).op = "enlist"
    <2>1. Rest(q) = <<[Head(q) EXCEPT !.op = "place"]>> \o Tail(q)
      BY <1>6 DEF Rest
    <2>2. QED
      BY <1>1, <1>5, <1>6, <2>1
  <1>7. CASE Head(q).op = "place"
    <2>1. Rest(q) = <<[Head(q) EXCEPT !.op = "grant"]>> \o Tail(q)
      BY <1>7 DEF Rest
    <2>2. QED
      BY <1>1, <1>5, <1>7, <2>1
  <1>8. QED
    BY <1>4, <1>6, <1>7

-------------------------------------------------------------------------------
(* The inductive invariant *)

\* Links agree but where they are torn or being rebuilt; links that are being
\* rebuilt lack what is still to come, and only one request rebuilds them.
Built ==
    \A a \in Avatars \ torn :
        /\ a \notin HalfBuilt(Sessions) => Agree(a)
        /\ \A s \in Sessions : Rebuilding(s, a) =>
              /\ HalfAgree(a, Head(pipe[s]))
              /\ \A t \in Sessions \ {s} : ~Rebuilding(t, a)

RestTypeOK == torn \subseteq Avatars /\ excused \subseteq Pairs
              /\ requests \in 0 .. MaxRequests

IInv == /\ ZodbTypeOK /\ RedisTypeOK /\ Pipes /\ RestTypeOK
        /\ pipe \in [Sessions -> Seq(Commands)]
        /\ Built

LEMMA Start ==
    ASSUME Init
    PROVE  IInv
  <1>1. ZodbTypeOK /\ RedisTypeOK /\ RestTypeOK
    BY LinksAssumption
    DEF Init, ZodbTypeOK, RedisTypeOK, RestTypeOK, NoEvents, Scores
  <1>2. Pipes /\ pipe \in [Sessions -> Seq(Commands)]
    BY DEF Init, Pipes
  <1>3. \A a \in Avatars : Agree(a) /\ \A s \in Sessions : ~Rebuilding(s, a)
    BY DEF Init, Agree, NoEvents, Rebuilding
  <1>4. QED
    BY <1>1, <1>2, <1>3 DEF IInv, Built

\* A request that fills its pipeline rebuilds nothing yet.
LEMMA CommitKeeps ==
    ASSUME IInv, NEW s \in Sessions, NEW commands \in Seq(Whole), Commit(s, commands)
    PROVE  /\ Pipes' /\ pipe' \in [Sessions -> Seq(Commands)]
           /\ Built' /\ RedisTypeOK'
           /\ torn' \subseteq Avatars /\ requests' \in 0 .. MaxRequests
  <1>1. /\ pipe[s] = <<>>
        /\ pipe' = [pipe EXCEPT ![s] = commands]
        /\ UNCHANGED <<members, score, roles, torn>>
        /\ requests < MaxRequests /\ requests' = requests + 1
    BY DEF Commit, redis
  <1>2. commands \in Seq(Commands)
    BY DEF Whole
  <1>3. commands # <<>> => /\ Tail(commands) \in Seq(Whole)
                           /\ Head(commands) \in Whole
    BY HeadTailProperties
  <1>4. Pipes' /\ pipe' \in [Sessions -> Seq(Commands)]
    BY <1>1, <1>2, <1>3 DEF IInv, Pipes
  <1>5. \A t \in Sessions, a \in Avatars :
           /\ Rebuilding(t, a)' <=> Rebuilding(t, a)
           /\ Rebuilding(t, a) => pipe'[t] = pipe[t]
    BY <1>1, <1>3 DEF IInv, Rebuilding, Whole
  <1>6. \A a \in Avatars : Agree(a)' <=> Agree(a)
    BY <1>1 DEF Agree
  <1>7. \A t \in Sessions, a \in Avatars :
           Rebuilding(t, a) => (HalfAgree(a, Head(pipe[t]))' <=> HalfAgree(a, Head(pipe[t])))
    BY <1>1, <1>5 DEF HalfAgree
  <1>8. Built'
    BY <1>1, <1>5, <1>6, <1>7 DEF IInv, Built, HalfBuilt
  <1>9. RedisTypeOK' /\ torn' \subseteq Avatars /\ requests' \in 0 .. MaxRequests
    BY <1>1, LinksAssumption DEF IInv, RedisTypeOK, RestTypeOK
  <1>10. QED
    BY <1>4, <1>8, <1>9

LEMMA ScopeType ==
    /\ \A s \in Sessions : \A commands : Raced(s, commands) \subseteq Pairs
    /\ \A s \in Sessions : Pending(s) \subseteq Pairs
  BY DEF Raced, Pending, ScopeOf, Scope

\* A command, whoever it meets.
LEMMA ExecuteKeeps ==
    ASSUME IInv, NEW s \in Sessions, Execute(s)
    PROVE  IInv'
  <1>. DEFINE q == pipe[s]
              c == Head(q)
  <1>1. /\ q \in Seq(Commands) /\ q # <<>> /\ Tail(q) \in Seq(Whole)
        /\ Perform(c) /\ torn' = TornBy(s, c)
        /\ pipe' = [pipe EXCEPT ![s] = Rest(q)]
        /\ UNCHANGED <<linked, date, deleted, gone, excused, requests>>
    BY DEF Execute, IInv, Pipes, zodb
  <1>2. /\ c \in Commands
        /\ Rest(q) \in Seq(Commands)
        /\ Rest(q) # <<>> => Tail(Rest(q)) \in Seq(Whole)
        /\ c.op \notin {"enlist", "place"} => Rest(q) = Tail(q)
        /\ c.op = "enlist"
              => Rest(q) # <<>> /\ Head(Rest(q)) = [c EXCEPT !.op = "place"]
        /\ c.op = "place"
              => Rest(q) # <<>> /\ Head(Rest(q)) = [c EXCEPT !.op = "grant"]
    BY <1>1, RestType
  <1>3. RedisTypeOK'
    BY <1>1, <1>2, RedisTypes DEF IInv
  <1>4. pipe'[s] = Rest(q) /\ \A t \in Sessions \ {s} : pipe'[t] = pipe[t]
    BY <1>1 DEF IInv
  <1>5. Pipes' /\ pipe' \in [Sessions -> Seq(Commands)]
    BY <1>1, <1>2 DEF IInv, Pipes
  <1>6. torn \subseteq torn' /\ torn' \subseteq Avatars
    <2>1. c.op = "merge" => c.avatar \in Avatars
      BY <1>2 DEF Commands
    <2>2. QED
      BY <1>1, <2>1 DEF TornBy, HalfBuilt, IInv, RestTypeOK
  <1>7. \A a \in Avatars :
           Rebuilding(s, a) <=> c.op \in {"place", "grant"} /\ c.avatar = a
    BY <1>1 DEF Rebuilding
  <1>8. \A a \in Avatars :
           Rebuilding(s, a)' <=> c.op \in {"enlist", "place"} /\ c.avatar = a
    <2>1. TAKE a \in Avatars
    <2>2. CASE c.op \notin {"enlist", "place"}
      <3>1. pipe'[s] # <<>> => Head(pipe'[s]) \in Whole
        BY <1>1, <1>2, <1>4, <2>2, HeadTailProperties
      <3>2. QED
        BY <2>2, <3>1 DEF Rebuilding, Whole
    <2>3. CASE c.op = "enlist"
      <3>1. [c EXCEPT !.op = "place"].op = "place"
            /\ [c EXCEPT !.op = "place"].avatar = c.avatar
        BY <1>2, <2>3 DEF Commands
      <3>2. QED
        BY <1>2, <1>4, <2>3, <3>1 DEF Rebuilding
    <2>4. CASE c.op = "place"
      <3>1. [c EXCEPT !.op = "grant"].op = "grant"
            /\ [c EXCEPT !.op = "grant"].avatar = c.avatar
        BY <1>2, <2>4 DEF Commands
      <3>2. QED
        BY <1>2, <1>4, <2>4, <3>1 DEF Rebuilding
    <2>5. QED
      BY <2>2, <2>3, <2>4
  <1>9. \A t \in Sessions \ {s}, a \in Avatars : Rebuilding(t, a)' <=> Rebuilding(t, a)
    BY <1>4 DEF Rebuilding
  <1>10. ASSUME NEW a \in Avatars, a \notin torn',
                \A e \in Events : <<a, e>> \notin Scope(c)
         PROVE  /\ a \notin HalfBuilt(Sessions)' => Agree(a)'
                /\ \A u \in Sessions : Rebuilding(u, a)' =>
                      /\ HalfAgree(a, Head(pipe[u]))'
                      /\ \A t \in Sessions \ {u} : ~Rebuilding(t, a)'
    <2>1. ~(c.op \in {"enlist", "place", "grant"} /\ c.avatar = a)
      BY <1>10, LinksAssumption DEF Scope, Pairs
    <2>2. ~Rebuilding(s, a) /\ ~Rebuilding(s, a)'
      BY <1>7, <1>8, <2>1
    <2>3. \A e \in Events : /\ a \in members'[e] <=> a \in members[e]
                            /\ score'[a][e] = score[a][e]
                            /\ roles'[a][e] = roles[a][e]
      BY <1>1, <1>2, <1>10, Frame DEF IInv
    <2>4. Agree(a)' <=> Agree(a)
      BY <2>3 DEF Agree
    <2>5. \A t \in Sessions \ {s} :
             HalfAgree(a, Head(pipe[t]))' <=> HalfAgree(a, Head(pipe[t]))
      <3>1. TAKE t \in Sessions \ {s}
      <3>2. pipe'[t] = pipe[t]
        BY <1>4
      <3>3. QED
        BY <2>3, <3>2 DEF HalfAgree
    <2>6. a \notin torn
      BY <1>6, <1>10
    <2>7. QED
      BY <1>9, <2>2, <2>4, <2>5, <2>6 DEF IInv, Built, HalfBuilt
  <1>11. ASSUME NEW a \in Avatars, a \notin torn',
                NEW e \in Events, <<a, e>> \in Scope(c)
         PROVE  /\ a \notin HalfBuilt(Sessions)' => Agree(a)'
                /\ \A u \in Sessions : Rebuilding(u, a)' =>
                      /\ HalfAgree(a, Head(pipe[u]))'
                      /\ \A t \in Sessions \ {u} : ~Rebuilding(t, a)'
    <2>1. a \notin torn /\ \A t \in Sessions \ {s} : ~Rebuilding(t, a)
      <3>1. a \notin torn /\ a \notin HalfBuilt(Sessions \ {s})
        BY <1>1, <1>11 DEF TornBy
      <3>2. QED
        BY <3>1 DEF HalfBuilt
    <2>2. ~Rebuilding(s, a) => Agree(a)
      BY <2>1 DEF IInv, Built, HalfBuilt
    <2>3. Rebuilding(s, a) => HalfAgree(a, c)
      BY <2>1 DEF IInv, Built
    <2>4. \A t \in Sessions \ {s} : ~Rebuilding(t, a)'
      BY <1>9, <2>1
    <2>5. CASE c.op \in {"enlist", "place", "grant"}
      <3>1. c.avatar = a
        BY <1>11, <2>5 DEF Scope
      <3>2. /\ c.op = "enlist" /\ Agree(a)
                 => HalfAgree(a, [c EXCEPT !.op = "place"])'
            /\ c.op = "place" /\ HalfAgree(a, c)
                 => HalfAgree(a, [c EXCEPT !.op = "grant"])'
            /\ c.op = "grant" /\ HalfAgree(a, c) => Agree(a)'
        BY <1>1, <1>2, <2>5, <3>1, RebuildAgrees DEF IInv
      <3>3. CASE c.op = "enlist"
        <4>1. HalfAgree(a, Head(pipe[s]))'
          BY <1>2, <1>4, <1>7, <2>2, <3>2, <3>3
        <4>2. Rebuilding(s, a)'
          BY <1>8, <3>1, <3>3
        <4>3. QED
          BY <2>4, <4>1, <4>2 DEF HalfBuilt
      <3>4. CASE c.op = "place"
        <4>1. HalfAgree(a, Head(pipe[s]))'
          BY <1>2, <1>4, <1>7, <2>3, <3>1, <3>2, <3>4
        <4>2. Rebuilding(s, a)'
          BY <1>8, <3>1, <3>4
        <4>3. QED
          BY <2>4, <4>1, <4>2 DEF HalfBuilt
      <3>5. CASE c.op = "grant"
        <4>1. Agree(a)'
          BY <1>7, <2>3, <3>1, <3>2, <3>5
        <4>2. ~Rebuilding(s, a)'
          BY <1>8, <3>5
        <4>3. QED
          BY <2>4, <4>1, <4>2
      <3>6. QED
        BY <2>5, <3>3, <3>4, <3>5
    <2>6. CASE c.op \notin {"enlist", "place", "grant"}
      <3>1. Agree(a) /\ ~Rebuilding(s, a)'
        BY <1>7, <1>8, <2>2, <2>6
      <3>2. Agree(a)'
        <4>1. CASE c.op = "merge"
          <5>1. Agree(c.source)
            <6>1. CASE a = c.source
              BY <3>1, <6>1
            <6>2. CASE a # c.source
              <7>1. a = c.avatar /\ c.source \in Avatars /\ <<c.source, e>> \in Scope(c)
                BY <1>2, <1>11, <4>1, <6>2 DEF Scope, Commands, Pairs
              <7>2. c.source \notin torn /\ c.source \notin HalfBuilt(Sessions \ {s})
                BY <1>1, <1>11, <4>1, <7>1 DEF TornBy
              <7>3. ~Rebuilding(s, c.source)
                BY <1>7, <4>1, <7>1
              <7>4. QED
                BY <7>1, <7>2, <7>3 DEF IInv, Built, HalfBuilt
            <6>3. QED
              BY <6>1, <6>2
          <5>2. QED
            BY <1>1, <1>2, <2>6, <3>1, <5>1, ScriptsAgree DEF IInv
        <4>2. CASE c.op # "merge"
          BY <1>1, <1>2, <2>6, <3>1, <4>2, ScriptsAgree DEF IInv
        <4>3. QED
          BY <4>1, <4>2
      <3>3. QED
        BY <2>4, <3>1, <3>2
    <2>7. QED
      BY <2>5, <2>6
  <1>12. Built'
    BY <1>10, <1>11 DEF Built
  <1>13. ZodbTypeOK' /\ RestTypeOK'
    BY <1>1, <1>6 DEF IInv, ZodbTypeOK, RestTypeOK
  <1>14. QED
    BY <1>3, <1>5, <1>12, <1>13 DEF IInv

\* A pipeline that is lost while it rebuilds links tears them.
LEMMA LoseKeeps ==
    ASSUME IInv, NEW s \in Sessions, LosePipeline(s)
    PROVE  IInv'
  <1>1. /\ pipe' = [pipe EXCEPT ![s] = <<>>]
        /\ excused' = excused \cup Pending(s)
        /\ torn' = torn \cup HalfBuilt({s})
        /\ UNCHANGED <<linked, date, deleted, gone, members, score, roles, requests>>
    BY DEF LosePipeline, zodb, redis
  <1>2. pipe'[s] = <<>> /\ \A t \in Sessions \ {s} : pipe'[t] = pipe[t]
    BY <1>1 DEF IInv
  <1>3. Pipes' /\ pipe' \in [Sessions -> Seq(Commands)]
    BY <1>1, <1>2 DEF IInv, Pipes
  <1>4. ZodbTypeOK' /\ RedisTypeOK' /\ RestTypeOK'
    BY <1>1, ScopeType DEF IInv, ZodbTypeOK, RedisTypeOK, RestTypeOK, HalfBuilt
  <1>5. ASSUME NEW a \in Avatars \ torn'
        PROVE  /\ a \notin HalfBuilt(Sessions)' => Agree(a)'
               /\ \A u \in Sessions : Rebuilding(u, a)' =>
                     /\ HalfAgree(a, Head(pipe[u]))'
                     /\ \A t \in Sessions \ {u} : ~Rebuilding(t, a)'
    <2>1. a \in Avatars \ torn /\ ~Rebuilding(s, a)
      BY <1>1, <1>5 DEF HalfBuilt
    <2>2. ~Rebuilding(s, a)'
      BY <1>2 DEF Rebuilding
    <2>3. \A t \in Sessions \ {s} : Rebuilding(t, a)' <=> Rebuilding(t, a)
      BY <1>2 DEF Rebuilding
    <2>4. Agree(a)' <=> Agree(a)
      BY <1>1 DEF Agree
    <2>5. \A t \in Sessions \ {s} :
             HalfAgree(a, Head(pipe[t]))' <=> HalfAgree(a, Head(pipe[t]))
      BY <1>1, <1>2 DEF HalfAgree
    <2>6. QED
      BY <2>1, <2>2, <2>3, <2>4, <2>5 DEF IInv, Built, HalfBuilt
  <1>6. QED
    BY <1>3, <1>4, <1>5 DEF IInv, Built

\* The requests, each with the commands it sends.
LEMMA RequestKeeps ==
    ASSUME IInv, NEW s \in Sessions, NEW commands \in Seq(Whole),
           Commit(s, commands), ZodbTypeOK', excused' \subseteq Pairs
    PROVE  IInv'
  BY CommitKeeps DEF IInv, RestTypeOK

LEMMA Step ==
    ASSUME IInv, [Next]_vars
    PROVE  IInv'
  <1>1. ASSUME NEW s \in Sessions, NEW a \in Avatars, NEW o \in Objects,
               LinkTo(s, a, o)
        PROVE  IInv'
    <2>1. AddLink(a, EventOf[o], RoleOf[o]) \in Whole
      BY LinkCommands DEF IInv
    <2>2. /\ Commit(s, <<AddLink(a, EventOf[o], RoleOf[o])>>)
          /\ ZodbTypeOK' /\ excused' \subseteq Pairs
      BY <1>1, ScopeType DEF LinkTo, IInv, ZodbTypeOK, RestTypeOK
    <2>3. <<AddLink(a, EventOf[o], RoleOf[o])>> \in Seq(Whole)
      BY <2>1
    <2>4. QED
      BY <2>2, <2>3, RequestKeeps
  <1>2. ASSUME NEW s \in Sessions, NEW a \in Avatars, NEW o \in Objects,
               UnlinkTo(s, a, o)
        PROVE  IInv'
    <2>1. DelLink(a, EventOf[o], RoleOf[o]) \in Whole /\ EventOf[o] \in Events
      BY LinkCommands DEF IInv
    <2>2. Commit(s, <<DelLink(a, EventOf[o], RoleOf[o])>>) /\ ZodbTypeOK'
      BY <1>2 DEF UnlinkTo, IInv, ZodbTypeOK
    <2>3. excused' \subseteq Pairs
      BY <1>2, <2>1, ScopeType DEF UnlinkTo, IInv, RestTypeOK, Pairs
    <2>4. <<DelLink(a, EventOf[o], RoleOf[o])>> \in Seq(Whole)
      BY <2>1
    <2>5. QED
      BY <2>2, <2>3, <2>4, RequestKeeps
  <1>3. ASSUME NEW s \in Sessions, NEW e \in Events, DeleteEvent(s, e)
        PROVE  IInv'
    <2>. DEFINE ended == {p \in linked : p[2] \in Revoked /\ EventOf[p[2]] = e
                                         /\ p[1] \notin gone}
    <2>1. PICK order \in SetToSeqs(ended) :
             LET commands == DelCommands(order, e)
                             \o <<[op |-> "delete_event", event |-> e]>>
             IN  /\ Commit(s, commands)
                 /\ excused' = (excused \ ((Avatars \ torn) \X {e}))
                               \cup Raced(s, commands)
      BY <1>3 DEF DeleteEvent
    <2>2. DelCommands(order, e) \o <<[op |-> "delete_event", event |-> e]>>
             \in Seq(Whole)
      BY <2>1, DeleteCommands DEF IInv
    <2>3. ZodbTypeOK'
      BY <1>3 DEF DeleteEvent, IInv, ZodbTypeOK
    <2>4. excused' \subseteq Pairs
      BY <2>1, ScopeType DEF IInv, RestTypeOK
    <2>5. QED
      BY <2>1, <2>2, <2>3, <2>4, RequestKeeps
  <1>4. ASSUME NEW s \in Sessions, NEW e \in Events, NEW d \in Dates,
               MoveEvent(s, e, d)
        PROVE  IInv'
    <2>1. /\ Commit(s, <<[op |-> "update_time", event |-> e, date |-> d]>>)
          /\ ZodbTypeOK' /\ excused' \subseteq Pairs
      BY <1>4, ScopeType DEF MoveEvent, IInv, ZodbTypeOK, RestTypeOK
    <2>2. QED
      BY <2>1, TimeCommands, RequestKeeps
  <1>5. ASSUME NEW s \in Sessions, NEW a \in Avatars, NEW source \in Avatars,
               MergeAvatar(s, a, source)
        PROVE  IInv'
    <2>. DEFINE moved == Movable(source)
                left == {EventOf[o] : o \in Reachable(source) \ Transferred}
                revived == {EventOf[o] : o \in moved} \cap deleted
    <2>1. PICK order \in SetToSeqs(moved) :
             LET commands == MoveCommands(order, a, source)
                   \o <<[op |-> "merge", avatar |-> a, source |-> source]>>
                 raced == Raced(s, commands)
                 wrong == {e \in Events : <<source, e>> \in excused \cup raced}
             IN  /\ Commit(s, commands)
                 /\ excused' = (IF source \in torn THEN excused
                                ELSE excused \ ({source} \X Events))
                               \cup raced \cup ({a} \X (left \cup revived \cup wrong))
      BY <1>5 DEF MergeAvatar
    <2>2. /\ a # source /\ moved \in SUBSET Objects
          /\ left \subseteq Events /\ revived \subseteq Events
      BY <1>5, LinksAssumption DEF MergeAvatar, Reachable, Movable
    <2>3. MoveCommands(order, a, source)
             \o <<[op |-> "merge", avatar |-> a, source |-> source]>> \in Seq(Whole)
      BY <2>1, <2>2, MergeCommands DEF IInv
    <2>4. ZodbTypeOK'
      BY <1>5, <2>2 DEF MergeAvatar, IInv, ZodbTypeOK
    <2>5. excused' \subseteq Pairs
      <3>. HIDE DEF left, revived, moved
      <3>. QED BY <2>1, <2>2, ScopeType DEF IInv, RestTypeOK, Pairs
    <2>6. QED
      BY <2>1, <2>3, <2>4, <2>5, RequestKeeps
  <1>6. ASSUME NEW s \in Sessions, NEW a \in Avatars, RefreshLinks(s, a)
        PROVE  IInv'
    <2>. DEFINE commands ==
            <<[op |-> "delete_avatar", avatar |-> a],
              [op |-> "enlist", avatar |-> a,
               dates |-> [e \in Events |-> IF e \in LinkedEvents(a) THEN date[e]
                                           ELSE None],
               roles |-> [e \in Events |-> LinkedRoles(a, e)]]>>
    <2>1. commands \in Seq(Whole)
      BY RefreshCommands DEF IInv
    <2>2. /\ Commit(s, commands) /\ UNCHANGED zodb
          /\ excused' = (IF a \in torn THEN excused ELSE excused \ ({a} \X Events))
                        \cup Raced(s, commands)
                        \cup ({a} \X (LinkedEvents(a) \cap deleted))
      BY <1>6 DEF RefreshLinks
    <2>3. ZodbTypeOK'
      BY <2>2 DEF IInv, ZodbTypeOK, zodb
    <2>4. excused' \subseteq Pairs
      <3>. HIDE DEF commands
      <3>. QED BY <2>2, ScopeType DEF IInv, RestTypeOK, ZodbTypeOK, Pairs
    <2>5. QED
      BY <2>1, <2>2, <2>3, <2>4, RequestKeeps
  <1>7. CASE UNCHANGED vars
    <2>1. UNCHANGED <<linked, date, deleted, gone, members, score, roles, pipe, torn,
                      excused, requests>>
      BY <1>7 DEF vars, zodb, redis
    <2>2. /\ ZodbTypeOK' /\ RedisTypeOK' /\ RestTypeOK' /\ Pipes'
          /\ pipe' \in [Sessions -> Seq(Commands)]
      BY <2>1 DEF IInv, ZodbTypeOK, RedisTypeOK, RestTypeOK, Pipes
    <2>3. \A s \in Sessions, a \in Avatars :
             /\ Rebuilding(s, a)' <=> Rebuilding(s, a)
             /\ HalfAgree(a, Head(pipe[s]))' <=> HalfAgree(a, Head(pipe[s]))
      BY <2>1 DEF Rebuilding, HalfAgree
    <2>4. \A a \in Avatars : Agree(a)' <=> Agree(a)
      BY <2>1 DEF Agree
    <2>5. Built'
      BY <2>1, <2>3, <2>4 DEF IInv, Built, HalfBuilt
    <2>6. QED
      BY <2>2, <2>5 DEF IInv
  <1>8. QED
    BY <1>1, <1>2, <1>3, <1>4, <1>5, <1>6, <1>7, ExecuteKeeps, LoseKeeps DEF Next

LEMMA Invariant == Spec => []IInv
  <1>1. Init => IInv
    BY Start
  <1>2. IInv /\ [Next]_vars => IInv'
    BY Step
  <1>3. QED
    BY <1>1, <1>2, PTL DEF Spec

-------------------------------------------------------------------------------
(* What a pipeline will have done: the mirror *)

\* The roles the mirror should show.
Expected(a, e) == IF e \in deleted \/ a \in gone THEN {} ELSE LinkedRoles(a, e)

Dated(a, e) == score[a][e] \in {None, date[e]}

\* The commands of a pipeline before its last one, which says what the request is for.
Earlier(q) == {q[i] : i \in 1 .. Len(q) - 1}

\* Command d comes before c: single unlinks before the script for an event, links
\* taken from one avatar and given to the other before a merge, the removal of an
\* avatar's links before they are built anew.
Leads(d, c) ==
    \/ c.op = "delete_event" /\ d.op = "del" /\ d.event = c.event
    \/ c.op = "merge" /\ d.op = "del" /\ d.avatar = c.source
    \/ c.op = "merge" /\ d.op = "add" /\ d.avatar = c.avatar
    \/ c.op = "enlist" /\ d.op = "delete_avatar" /\ d.avatar = c.avatar

Formed(q) ==
    q # <<>> => /\ Last(q).op # "delete_avatar"
                /\ \A d \in Earlier(q) : Leads(d, Last(q))

RolesOf(S, op, e) == {d.role : d \in {k \in S : k.op = op /\ k.event = e}}

\* Run to its end, pipeline q makes the entry of a and e what it should be.  A merge
\* has nothing left to move once the links it knows of have been moved.
Right(q, a, e) ==
    LET c == Last(q)
    IN  /\ c.op = "add" => /\ Expected(a, e) = roles[a][e] \cup {c.role}
                           /\ c.date = date[e] /\ Dated(a, e)
        /\ c.op = "del" => Expected(a, e) = roles[a][e] \ {c.role} /\ Dated(a, e)
        /\ c.op = "update_time" => Expected(a, e) = roles[a][e] /\ c.date = date[e]
        /\ c.op = "delete_event" => Expected(a, e) = {}
        /\ c.op = "merge" /\ a = c.source => Expected(a, e) = {}
        /\ c.op = "merge" /\ a = c.avatar =>
              /\ Expected(a, e) = roles[a][e] \cup RolesOf(Earlier(q), "add", e)
              /\ Dated(a, e)
              /\ \A d \in Earlier(q) : d.op = "add" /\ d.event = e => d.date = date[e]
              /\ c.source \notin torn =>
                    roles[c.source][e] \subseteq RolesOf(Earlier(q), "del", e)
        /\ c.op \in {"enlist", "place", "grant"} =>
              /\ Expected(a, e) = c.roles[e]
              /\ c.dates[e] \in {None, date[e]}
              /\ Earlier(q) = {} =>
                    /\ roles[a][e] = {}
                    /\ score[a][e] = IF c.op = "grant" THEN c.dates[e] ELSE None

Shaped == \A s \in Sessions : Formed(pipe[s])

\* Two requests that write the same entry make it excused.
Owned ==
    \A p \in Pairs \ excused : \A s, t \in Sessions :
        p \in Pending(s) /\ p \in Pending(t) => s = t

\* The source of a merge is gone, so that nobody spoils what is moved.
Carried ==
    \A s \in Sessions : pipe[s] # <<>> /\ Last(pipe[s]).op = "merge" =>
        /\ Last(pipe[s]).source \in gone
        /\ \A e \in Events : <<Last(pipe[s]).avatar, e>> \notin excused
                                => <<Last(pipe[s]).source, e>> \notin excused

Mirror ==
    \A a \in Avatars \ torn, e \in Events : <<a, e>> \notin excused =>
        /\ (\A s \in Sessions : <<a, e>> \notin Pending(s)) =>
              roles[a][e] = Expected(a, e) /\ Dated(a, e)
        /\ \A s \in Sessions : <<a, e>> \in Pending(s) => Right(pipe[s], a, e)

MInv == IInv /\ Shaped /\ Owned /\ Carried /\ Mirror

-------------------------------------------------------------------------------
(* The shape of a pipeline *)

LEMMA LongPipe ==
    ASSUME NEW q \in Seq(Commands), Len(q) > 1
    PROVE  /\ q # <<>> /\ Tail(q) # <<>> /\ Tail(q) \in Seq(Commands)
           /\ Last(Tail(q)) = Last(q)
           /\ Earlier(q) = Earlier(Tail(q)) \cup {Head(q)}
  <1>1. /\ q # <<>> /\ Tail(q) \in Seq(Commands) /\ Len(Tail(q)) = Len(q) - 1
        /\ \A i \in 1 .. Len(Tail(q)) : Tail(q)[i] = q[i + 1]
        /\ Len(q) \in Nat /\ Head(q) = q[1]
    BY HeadTailProperties
  <1>2. Tail(q) # <<>>
    <2>1. Len(Tail(q)) # 0
      BY <1>1
    <2>2. QED
      BY <1>1, <2>1, EmptySeq
  <1>3. Last(Tail(q)) = Last(q)
    BY <1>1 DEF Last
  <1>4. Earlier(q) \subseteq Earlier(Tail(q)) \cup {Head(q)}
    <2>1. ASSUME NEW i \in 1 .. Len(q) - 1, i # 1
          PROVE  q[i] \in Earlier(Tail(q))
      <3>1. i - 1 \in 1 .. Len(Tail(q)) - 1 /\ Tail(q)[i - 1] = q[i]
        BY <1>1, <2>1
      <3>2. QED
        BY <3>1 DEF Earlier
    <2>2. QED
      BY <1>1, <2>1 DEF Earlier
  <1>5. Earlier(Tail(q)) \cup {Head(q)} \subseteq Earlier(q)
    <2>1. ASSUME NEW i \in 1 .. Len(Tail(q)) - 1
          PROVE  Tail(q)[i] \in Earlier(q)
      <3>1. i + 1 \in 1 .. Len(q) - 1 /\ Tail(q)[i] = q[i + 1]
        BY <1>1, <2>1
      <3>2. QED
        BY <3>1 DEF Earlier
    <2>2. 1 \in 1 .. Len(q) - 1
      BY <1>1
    <2>3. QED
      BY <1>1, <2>1, <2>2 DEF Earlier
  <1>6. QED
    BY <1>1, <1>2, <1>3, <1>4, <1>5

LEMMA ShortPipe ==
    ASSUME NEW q \in Seq(Commands), q # <<>>, ~(Len(q) > 1)
    PROVE  /\ Last(q) = Head(q) /\ Tail(q) = <<>> /\ Earlier(q) = {}
  <1>1. Len(q) \in Nat /\ Len(q) # 0
    BY EmptySeq
  <1>2. Len(q) = 1
    BY <1>1
  <1>3. Tail(q) \in Seq(Commands) /\ Len(Tail(q)) = 0 /\ Head(q) = q[1]
    BY <1>2, HeadTailProperties
  <1>4. Tail(q) = <<>>
    BY <1>3, EmptySeq
  <1>5. QED
    BY <1>2, <1>3, <1>4 DEF Last, Earlier

LEMMA SinglePipe ==
    ASSUME NEW c \in Commands, NEW q, q = <<c>>
    PROVE  /\ q \in Seq(Commands) /\ q # <<>> /\ ~(Len(q) > 1) /\ Last(q) = c
           /\ Earlier(q) = {} /\ (c.op # "delete_avatar" => Formed(q))
  BY DEF Last, Earlier, Formed

\* What is pending is the scope of the last command.
LEMMA ScopeOfShaped ==
    ASSUME NEW q \in Seq(Commands), q # <<>>, Formed(q)
    PROVE  /\ Last(q) \in Commands /\ ScopeOf(q) = Scope(Last(q))
           /\ Earlier(q) \subseteq Commands
           /\ Len(q) > 1 => Leads(Head(q), Last(q))
  <1>1. Len(q) \in Nat /\ Len(q) # 0
    BY EmptySeq
  <1>2. Last(q) \in Commands /\ Earlier(q) \subseteq Commands
    BY <1>1 DEF Last, Earlier
  <1>3. ASSUME NEW d \in Commands, NEW c \in Commands, Leads(d, c)
        PROVE  Scope(d) \subseteq Scope(c)
    BY <1>3 DEF Leads, Scope, Commands
  <1>4. ASSUME NEW i \in DOMAIN q
        PROVE  Scope(q[i]) \subseteq Scope(Last(q))
    <2>1. CASE i = Len(q)
      BY <2>1 DEF Last
    <2>2. CASE i # Len(q)
      <3>1. q[i] \in Earlier(q) /\ q[i] \in Commands
        BY <1>1, <2>2 DEF Earlier
      <3>2. Leads(q[i], Last(q))
        BY <3>1 DEF Formed
      <3>3. QED
        BY <1>2, <1>3, <3>1, <3>2
    <2>3. QED
      BY <2>1, <2>2
  <1>5. Len(q) \in DOMAIN q
    BY <1>1
  <1>6. ScopeOf(q) = Scope(Last(q))
    BY <1>4, <1>5 DEF ScopeOf, Last
  <1>7. Len(q) > 1 => Leads(Head(q), Last(q))
    BY LongPipe DEF Formed
  <1>8. QED
    BY <1>2, <1>6, <1>7

-------------------------------------------------------------------------------
(* Single commands and single entries *)

\* A command leaves the entries outside its scope alone.
LEMMA FrameEntry ==
    ASSUME RedisTypeOK, NEW c \in Commands, Perform(c), NEW a \in Avatars,
           NEW e \in Events, <<a, e>> \notin Scope(c)
    PROVE  score'[a][e] = score[a][e] /\ roles'[a][e] = roles[a][e]
  <1>. USE DEF RedisTypeOK, Commands, Scores, NoEvents, Scope, Pairs
  <1>1. CASE Add(c)
    BY <1>1 DEF Add
  <1>2. CASE Del(c)
    <2>1. c.op = "del" /\ ~(a = c.avatar /\ e = c.event)
      BY <1>2 DEF Del
    <2>2. QED
      BY <1>2, <2>1, DelWrites
  <1>3. CASE DeleteAvatar(c)
    BY <1>3 DEF DeleteAvatar
  <1>4. CASE RemoveEvent(c)
    BY <1>4 DEF RemoveEvent
  <1>5. CASE UpdateTime(c)
    BY <1>5 DEF UpdateTime
  <1>6. CASE Merge(c)
    <2>1. a # c.avatar /\ a # c.source
      BY <1>6 DEF Merge
    <2>2. /\ score'[a][e] = score[a][e]
          /\ roles'[a][e] = roles[a][e]
      <3>. HIDE DEF RedisTypeOK, Commands, Scores, NoEvents, Scope, Pairs
      <3>. QED BY <1>6, <2>1, MergeWrites
    <2>3. QED
      BY <2>2
  <1>7. CASE Enlist(c)
    BY <1>7 DEF Enlist
  <1>8. CASE Place(c)
    BY <1>8 DEF Place
  <1>9. CASE Grant(c)
    BY <1>9 DEF Grant
  <1>10. QED
    BY <1>1, <1>2, <1>3, <1>4, <1>5, <1>6, <1>7, <1>8, <1>9 DEF Perform

\* What each command writes to an entry in its scope.
LEMMA AddEntry ==
    ASSUME RedisTypeOK, NEW c \in Commands, Add(c)
    PROVE  /\ c.avatar \in Avatars /\ c.event \in Events
           /\ roles'[c.avatar][c.event] = roles[c.avatar][c.event] \cup {c.role}
           /\ score'[c.avatar][c.event] = c.date
  BY DEF Add, RedisTypeOK, Commands

LEMMA DelEntry ==
    ASSUME RedisTypeOK, NEW c \in Commands, Del(c)
    PROVE  /\ c.avatar \in Avatars /\ c.event \in Events
           /\ roles'[c.avatar][c.event] = roles[c.avatar][c.event] \ {c.role}
           /\ score'[c.avatar][c.event] \in {None, score[c.avatar][c.event]}
  BY DelWrites

LEMMA DeleteAvatarEntry ==
    ASSUME RedisTypeOK, NEW c \in Commands, DeleteAvatar(c), Agree(c.avatar),
           NEW e \in Events
    PROVE  roles'[c.avatar][e] = {} /\ score'[c.avatar][e] = None
  BY DEF DeleteAvatar, RedisTypeOK, Commands, Agree, Listed, NoEvents

LEMMA RemoveEventEntry ==
    ASSUME RedisTypeOK, NEW c \in Commands, RemoveEvent(c), NEW a \in Avatars, Agree(a)
    PROVE  roles'[a][c.event] = {} /\ score'[a][c.event] = None
  BY DEF RemoveEvent, RedisTypeOK, Commands, Agree

LEMMA UpdateTimeEntry ==
    ASSUME RedisTypeOK, NEW c \in Commands, UpdateTime(c), NEW a \in Avatars, Agree(a)
    PROVE  /\ roles'[a][c.event] = roles[a][c.event]
           /\ score'[a][c.event] \in {None, c.date}
  BY DEF UpdateTime, RedisTypeOK, Commands, Agree

LEMMA MergeEntry ==
    ASSUME RedisTypeOK, NEW c \in Commands, Merge(c), Agree(c.source), NEW e \in Events
    PROVE  /\ roles'[c.source][e] = {} /\ score'[c.source][e] = None
           /\ roles[c.source][e] = {} =>
                 /\ roles'[c.avatar][e] = roles[c.avatar][e]
                 /\ score'[c.avatar][e] = score[c.avatar][e]
  <1>1. c.avatar \in Avatars /\ c.source \in Avatars /\ c.avatar # c.source
    BY DEF Merge, Commands
  <1>2. roles[c.source][e] = {} <=> score[c.source][e] = None
    BY DEF Agree
  <1>3. /\ score'[c.source][e] = None
        /\ roles'[c.source][e] = IF score[c.source][e] # None THEN {}
                                 ELSE roles[c.source][e]
        /\ score[c.source][e] = None =>
              /\ roles'[c.avatar][e] = roles[c.avatar][e]
              /\ score'[c.avatar][e] = score[c.avatar][e]
    BY <1>1, MergeWrites
  <1>4. QED
    BY <1>2, <1>3

LEMMA BuildEntry ==
    ASSUME RedisTypeOK, NEW c \in Commands, NEW e \in Events
    PROVE  /\ Enlist(c) => /\ roles'[c.avatar][e] = roles[c.avatar][e]
                           /\ score'[c.avatar][e] = score[c.avatar][e]
           /\ Place(c) => /\ roles'[c.avatar][e] = roles[c.avatar][e]
                          /\ score'[c.avatar][e] = IF c.dates[e] # None THEN c.dates[e]
                                                   ELSE score[c.avatar][e]
           /\ Grant(c) => /\ roles'[c.avatar][e] = roles[c.avatar][e] \cup c.roles[e]
                          /\ score'[c.avatar][e] = score[c.avatar][e]
  BY DEF Enlist, Place, Grant, Placed, RedisTypeOK, Commands

\* A command of each kind is the script of that kind.
LEMMA Kinds ==
    ASSUME NEW c \in Commands, Perform(c)
    PROVE  /\ c.op \in {"add", "del", "delete_avatar", "delete_event", "update_time",
                        "merge", "enlist", "place", "grant"}
           /\ c.op = "add" => Add(c)
           /\ c.op = "del" => Del(c)
           /\ c.op = "delete_avatar" => DeleteAvatar(c)
           /\ c.op = "delete_event" => RemoveEvent(c)
           /\ c.op = "update_time" => UpdateTime(c)
           /\ c.op = "merge" => Merge(c)
           /\ c.op = "enlist" => Enlist(c)
           /\ c.op = "place" => Place(c)
           /\ c.op = "grant" => Grant(c)
  BY DEF Perform, Add, Del, DeleteAvatar, RemoveEvent, UpdateTime, Merge, Enlist, Place,
         Grant

-------------------------------------------------------------------------------
(* Executing a command *)

\* Avatars in the scope of a whole script agree, if they are not torn afterwards.
LEMMA MetAgrees ==
    ASSUME IInv, NEW s \in Sessions, Execute(s), NEW c, c = Head(pipe[s]),
           c.op \notin {"place", "grant"}
    PROVE  /\ torn \subseteq torn'
           /\ \A a \in Avatars \ torn', e \in Events : <<a, e>> \in Scope(c) => Agree(a)
           /\ c.op = "merge" /\ (c.source \notin torn' \/ c.avatar \notin torn') =>
                 c.source \notin torn /\ Agree(c.source)
  <1>1. /\ torn' = TornBy(s, c) /\ pipe[s] # <<>> /\ c \in Commands
    BY HeadTailProperties DEF Execute, IInv
  <1>2. torn \subseteq torn'
    BY <1>1 DEF TornBy
  <1>3. \A a \in Avatars : ~Rebuilding(s, a)
    BY DEF Rebuilding
  <1>4. ASSUME NEW a \in Avatars \ torn, a \notin HalfBuilt(Sessions \ {s})
        PROVE  Agree(a)
    BY <1>3, <1>4 DEF IInv, Built, HalfBuilt
  <1>5. ASSUME NEW a \in Avatars \ torn', NEW e \in Events, <<a, e>> \in Scope(c)
        PROVE  Agree(a)
    <2>1. a \notin torn /\ a \notin HalfBuilt(Sessions \ {s})
      BY <1>1, <1>5 DEF TornBy
    <2>2. QED
      BY <1>4, <2>1
  <1>6. ASSUME c.op = "merge", c.source \notin torn' \/ c.avatar \notin torn'
        PROVE  c.source \notin torn /\ Agree(c.source)
    <2>1. c.source \in Avatars /\ c.avatar \in Avatars
      BY <1>1, <1>6 DEF Commands
    <2>2. PICK e \in Events : TRUE
      BY LinksAssumption
    <2>3. <<c.source, e>> \in Scope(c)
      BY <1>6, <2>1 DEF Scope, Pairs
    <2>4. c.source \notin torn /\ c.source \notin HalfBuilt(Sessions \ {s})
      BY <1>1, <1>6, <2>1, <2>3 DEF TornBy
    <2>5. QED
      BY <1>4, <2>1, <2>4
  <1>7. QED
    BY <1>2, <1>5, <1>6

\* What a pipeline will do stays right while its entry is left alone.
LEMMA RightKept ==
    ASSUME NEW q, NEW a, NEW e, Right(q, a, e),
           torn \subseteq torn', date'[e] = date[e], Expected(a, e)' = Expected(a, e),
           roles'[a][e] = roles[a][e], score'[a][e] = score[a][e],
           Last(q).op = "merge" /\ a = Last(q).avatar /\ Last(q).source \notin torn' =>
              roles'[Last(q).source][e] = roles[Last(q).source][e]
    PROVE  Right(q, a, e)'
  BY DEF Right, Dated

\* The pipeline after its first command.
LEMMA ShapeOfRest ==
    ASSUME NEW q \in Seq(Commands), q # <<>>, Formed(q)
    PROVE  /\ Len(q) > 1 =>
                 /\ Head(q).op \in {"add", "del", "delete_avatar"}
                 /\ Rest(q) = Tail(q) /\ Tail(q) # <<>> /\ Formed(Tail(q))
                 /\ Last(Tail(q)) = Last(q) /\ ScopeOf(Tail(q)) = ScopeOf(q)
           /\ ~(Len(q) > 1) /\ Head(q).op \notin {"enlist", "place"} => Rest(q) = <<>>
           /\ \A op \in {"place", "grant"} :
                 ~(Len(q) > 1) /\ Head(q).op = (IF op = "place" THEN "enlist" ELSE "place") =>
                    /\ Rest(q) = <<[Head(q) EXCEPT !.op = op]>> /\ Formed(Rest(q))
                    /\ [Head(q) EXCEPT !.op = op] \in Commands
                    /\ ScopeOf(Rest(q)) = ScopeOf(q)
  <1>1. Head(q) \in Commands /\ Last(q) \in Commands /\ ScopeOf(q) = Scope(Last(q))
    BY HeadTailProperties, ScopeOfShaped
  <1>2. ASSUME Len(q) > 1
        PROVE  /\ Head(q).op \in {"add", "del", "delete_avatar"}
               /\ Rest(q) = Tail(q) /\ Tail(q) # <<>> /\ Formed(Tail(q))
               /\ Last(Tail(q)) = Last(q) /\ ScopeOf(Tail(q)) = ScopeOf(q)
    <2>1. /\ Tail(q) # <<>> /\ Tail(q) \in Seq(Commands) /\ Last(Tail(q)) = Last(q)
          /\ Earlier(q) = Earlier(Tail(q)) \cup {Head(q)}
      BY <1>2, LongPipe
    <2>2. Head(q).op \in {"add", "del", "delete_avatar"}
      BY <1>2, ScopeOfShaped DEF Leads
    <2>3. Formed(Tail(q))
      BY <2>1 DEF Formed
    <2>4. ScopeOf(Tail(q)) = ScopeOf(q)
      BY <1>1, <2>1, <2>3, ScopeOfShaped
    <2>5. Rest(q) = Tail(q)
      BY <2>2 DEF Rest
    <2>6. QED
      BY <2>1, <2>2, <2>3, <2>4, <2>5
  <1>3. ASSUME ~(Len(q) > 1), Head(q).op \notin {"enlist", "place"}
        PROVE  Rest(q) = <<>>
    BY <1>3, ShortPipe DEF Rest
  <1>4. ASSUME NEW op \in {"place", "grant"}, ~(Len(q) > 1),
               Head(q).op = (IF op = "place" THEN "enlist" ELSE "place")
        PROVE  /\ Rest(q) = <<[Head(q) EXCEPT !.op = op]>> /\ Formed(Rest(q))
               /\ [Head(q) EXCEPT !.op = op] \in Commands
               /\ ScopeOf(Rest(q)) = ScopeOf(q)
    <2>1. PICK c : c = [Head(q) EXCEPT !.op = op]
      OBVIOUS
    <2>2. c \in Commands /\ c.op = op /\ c.avatar = Head(q).avatar
      BY <1>1, <1>4, <2>1 DEF Commands
    <2>3. Rest(q) = <<c>>
      <3>1. Rest(q) = <<c>> \o <<>>
        BY <1>4, <2>1, ShortPipe DEF Rest
      <3>2. QED
        BY <3>1
    <2>4. Scope(c) = Scope(Head(q)) /\ Last(q) = Head(q)
      BY <1>4, <2>2, ShortPipe DEF Scope
    <2>5. ScopeOf(Rest(q)) = Scope(c) /\ Formed(Rest(q))
      BY <2>2, <2>3, SinglePipe, ScopeOfShaped
    <2>6. QED
      BY <1>1, <2>1, <2>2, <2>3, <2>4, <2>5
  <1>5. QED
    BY <1>2, <1>3, <1>4

\* A command before the last brings the entries nearer to what they should be.
LEMMA LongStep ==
    ASSUME IInv, NEW s \in Sessions, Execute(s), NEW q, q = pipe[s], Formed(q), Len(q) > 1,
           NEW a \in Avatars \ torn', NEW e \in Events, <<a, e>> \in ScopeOf(q),
           Right(q, a, e)
    PROVE  Right(Tail(q), a, e)'
  <1>1. PICK h : h = Head(q)
    OBVIOUS
  <1>2. PICK c : c = Last(q)
    OBVIOUS
  <1>3. /\ q \in Seq(Commands) /\ q # <<>> /\ h \in Commands /\ c \in Commands
        /\ Leads(h, c) /\ <<a, e>> \in Scope(c) /\ RedisTypeOK
        /\ Perform(h) /\ UNCHANGED <<linked, date, deleted, gone>>
    BY <1>1, <1>2, ScopeOfShaped, HeadTailProperties DEF Execute, IInv, zodb
  <1>4. /\ Tail(q) # <<>> /\ Last(Tail(q)) = c
        /\ Earlier(q) = Earlier(Tail(q)) \cup {h}
    BY <1>1, <1>2, LongPipe, <1>3
  <1>5. Expected(a, e)' = Expected(a, e) /\ date'[e] = date[e]
    BY <1>3 DEF Expected, LinkedRoles
  <1>6. /\ torn \subseteq torn' /\ h.op \notin {"place", "grant"}
        /\ <<a, e>> \in Scope(h) => Agree(a)
    <2>1. h.op \notin {"place", "grant"}
      BY <1>3 DEF Leads
    <2>2. QED
      BY <1>1, <2>1, MetAgrees
  <1>7. CASE c.op = "delete_event"
    <2>1. Expected(a, e)' = {}
      BY <1>2, <1>5, <1>7 DEF Right
    <2>2. QED
      BY <1>4, <1>7, <2>1 DEF Right
  <1>8. CASE c.op = "enlist"
    <2>1. /\ h.op = "delete_avatar" /\ h.avatar = c.avatar /\ a = c.avatar
          /\ DeleteAvatar(h) /\ <<a, e>> \in Scope(h)
      BY <1>3, <1>8, Kinds DEF Leads, Scope
    <2>2. roles'[a][e] = {} /\ score'[a][e] = None
      BY <1>3, <1>6, <2>1, DeleteAvatarEntry
    <2>3. Expected(a, e)' = c.roles[e] /\ c.dates[e] \in {None, date'[e]}
      BY <1>2, <1>5, <1>8 DEF Right
    <2>4. QED
      BY <1>4, <1>8, <2>2, <2>3 DEF Right
  <1>9. CASE c.op = "merge" /\ a = c.source
    <2>1. Expected(a, e)' = {} /\ a # c.avatar
      BY <1>2, <1>3, <1>5, <1>9 DEF Right, Commands
    <2>2. QED
      BY <1>4, <1>9, <2>1 DEF Right
  <1>10. CASE c.op = "merge" /\ a = c.avatar
    <2>. DEFINE R(S, op) == RolesOf(S, op, e)
                T == Earlier(Tail(q))
    <2>1. /\ c.source \in Avatars /\ a # c.source
          /\ Expected(a, e) = roles[a][e] \cup R(Earlier(q), "add")
          /\ score[a][e] \in {None, date[e]}
          /\ \A d \in Earlier(q) : d.op = "add" /\ d.event = e => d.date = date[e]
          /\ c.source \notin torn => roles[c.source][e] \subseteq R(Earlier(q), "del")
      BY <1>2, <1>3, <1>10 DEF Right, Commands, Dated
    <2>2. \A op : /\ h.op = op /\ h.event = e => R(Earlier(q), op) = R(T, op) \cup {h.role}
                  /\ ~(h.op = op /\ h.event = e) => R(Earlier(q), op) = R(T, op)
      <3>1. ASSUME NEW op
            PROVE  /\ h.op = op /\ h.event = e =>
                         RolesOf(T \cup {h}, op, e) = RolesOf(T, op, e) \cup {h.role}
                   /\ ~(h.op = op /\ h.event = e) =>
                         RolesOf(T \cup {h}, op, e) = RolesOf(T, op, e)
        BY DEF RolesOf
      <3>2. QED
        BY <1>4, <3>1
    <2>3. SUFFICES /\ Expected(a, e) = roles'[a][e] \cup R(T, "add")
                   /\ score'[a][e] \in {None, date[e]}
                   /\ c.source \notin torn' => roles'[c.source][e] \subseteq R(T, "del")
      <3>1. ASSUME /\ Expected(a, e) = roles'[a][e] \cup R(T, "add")
                   /\ score'[a][e] \in {None, date[e]}
                   /\ c.source \notin torn' => roles'[c.source][e] \subseteq R(T, "del")
            PROVE  Right(Tail(q), a, e)'
        <4>1. \A d \in T : d.op = "add" /\ d.event = e => d.date = date[e]
          BY <1>4, <2>1
        <4>2. QED
          BY <1>4, <1>5, <1>10, <2>1, <3>1, <4>1 DEF Right, Dated
      <3>2. QED
        BY <3>1
    <2>. HIDE DEF R, T
    <2>4. CASE h.op = "del" /\ h.avatar = c.source
      <3>1. <<a, e>> \notin Scope(h) /\ Del(h)
        BY <1>3, <2>1, <2>4, Kinds DEF Scope
      <3>2. roles'[a][e] = roles[a][e] /\ score'[a][e] = score[a][e]
        BY <1>3, <3>1, FrameEntry
      <3>3. R(Earlier(q), "add") = R(T, "add")
        BY <2>2, <2>4
      <3>4. CASE h.event = e
        <4>1. roles'[c.source][e] = roles[c.source][e] \ {h.role}
          BY <1>3, <2>4, <3>1, <3>4, DelEntry
        <4>2. R(Earlier(q), "del") = R(T, "del") \cup {h.role}
          BY <2>2, <2>4, <3>4
        <4>3. QED
          BY <1>6, <2>1, <2>3, <3>2, <3>3, <4>1, <4>2
      <3>5. CASE h.event # e
        <4>1. <<c.source, e>> \notin Scope(h)
          BY <2>4, <3>5 DEF Scope
        <4>2. roles'[c.source][e] = roles[c.source][e]
          BY <1>3, <2>1, <4>1, FrameEntry
        <4>3. R(Earlier(q), "del") = R(T, "del")
          BY <2>2, <3>5
        <4>4. QED
          BY <1>6, <2>1, <2>3, <3>2, <3>3, <4>2, <4>3
      <3>6. QED
        BY <3>4, <3>5
    <2>5. CASE h.op = "add" /\ h.avatar = c.avatar
      <3>1. <<c.source, e>> \notin Scope(h) /\ Add(h)
        BY <1>3, <1>10, <2>1, <2>5, Kinds DEF Scope
      <3>2. roles'[c.source][e] = roles[c.source][e]
        BY <1>3, <2>1, <3>1, FrameEntry
      <3>3. R(Earlier(q), "del") = R(T, "del")
        BY <2>2, <2>5
      <3>4. CASE h.event = e
        <4>1. roles'[a][e] = roles[a][e] \cup {h.role} /\ score'[a][e] = h.date
          BY <1>3, <1>10, <2>5, <3>1, <3>4, AddEntry
        <4>2. R(Earlier(q), "add") = R(T, "add") \cup {h.role} /\ h.date = date[e]
          BY <1>4, <2>1, <2>2, <2>5, <3>4
        <4>3. QED
          BY <1>6, <2>1, <2>3, <3>2, <3>3, <4>1, <4>2
      <3>5. CASE h.event # e
        <4>1. <<a, e>> \notin Scope(h)
          BY <2>5, <3>5 DEF Scope
        <4>2. roles'[a][e] = roles[a][e] /\ score'[a][e] = score[a][e]
          BY <1>3, <4>1, FrameEntry
        <4>3. R(Earlier(q), "add") = R(T, "add")
          BY <2>2, <3>5
        <4>4. QED
          BY <1>6, <2>1, <2>3, <3>2, <3>3, <4>2, <4>3
      <3>6. QED
        BY <3>4, <3>5
    <2>6. QED
      BY <1>3, <1>10, <2>4, <2>5 DEF Leads
  <1>11. c.op = "merge" => a \in {c.avatar, c.source}
    BY <1>3 DEF Scope
  <1>12. QED
    BY <1>3, <1>7, <1>8, <1>9, <1>10, <1>11 DEF Leads

\* The last command leaves the entries as they should be, or rebuilds them further.
LEMMA ShortStep ==
    ASSUME IInv, NEW s \in Sessions, Execute(s), NEW q, q = pipe[s], ~(Len(q) > 1),
           Formed(q), NEW a \in Avatars \ torn', NEW e \in Events, <<a, e>> \in ScopeOf(q),
           Right(q, a, e)
    PROVE  /\ Rest(q) = <<>> => roles'[a][e] = Expected(a, e)' /\ Dated(a, e)'
           /\ Rest(q) # <<>> => Right(Rest(q), a, e)'
  <1>1. PICK c : c = Head(q)
    OBVIOUS
  <1>2. /\ q \in Seq(Commands) /\ q # <<>> /\ c \in Commands /\ c = Last(q)
        /\ <<a, e>> \in Scope(c) /\ RedisTypeOK /\ Earlier(q) = {}
        /\ Perform(c) /\ UNCHANGED <<linked, date, deleted, gone>>
    BY <1>1, ScopeOfShaped, ShortPipe, HeadTailProperties DEF Execute, IInv, zodb
  <1>3. Expected(a, e)' = Expected(a, e) /\ date'[e] = date[e]
    BY <1>2 DEF Expected, LinkedRoles
  <1>4. torn \subseteq torn'
    BY <1>2 DEF Execute, TornBy
  <1>5. c.op \notin {"place", "grant"} =>
           /\ Agree(a)
           /\ c.op = "merge" => c.source \notin torn /\ Agree(c.source)
    <2>1. c.op = "merge" => c.source \notin torn' \/ c.avatar \notin torn'
      BY <1>2 DEF Scope
    <2>2. QED
      BY <1>1, <1>2, <2>1, MetAgrees
  <1>6. CASE c.op \in {"add", "del"}
    <2>1. a = c.avatar /\ e = c.event /\ Rest(q) = <<>>
      <3>1. Rest(q) = <<>>
        BY <1>1, <1>2, <1>6, ShapeOfRest
      <3>2. <<a, e>> = <<c.avatar, c.event>>
        BY <1>2, <1>6 DEF Scope
      <3>3. QED
        BY <3>1, <3>2
    <2>2. CASE c.op = "add"
      <3>1. Expected(a, e) = roles[a][e] \cup {c.role} /\ c.date = date[e]
        BY <1>2, <2>2 DEF Right
      <3>2. roles'[a][e] = roles[a][e] \cup {c.role} /\ score'[a][e] = c.date
        BY <1>2, <2>1, <2>2, Kinds, AddEntry
      <3>3. QED
        BY <1>3, <2>1, <3>1, <3>2 DEF Dated
    <2>3. CASE c.op = "del"
      <3>1. Expected(a, e) = roles[a][e] \ {c.role} /\ score[a][e] \in {None, date[e]}
        BY <1>2, <2>3 DEF Right, Dated
      <3>2. /\ roles'[a][e] = roles[a][e] \ {c.role}
            /\ score'[a][e] \in {None, score[a][e]}
        BY <1>2, <2>1, <2>3, Kinds, DelEntry
      <3>3. QED
        BY <1>3, <2>1, <3>1, <3>2 DEF Dated
    <2>4. QED
      BY <1>6, <2>2, <2>3
  <1>7. CASE c.op \in {"update_time", "delete_event"}
    <2>1. e = c.event /\ Rest(q) = <<>>
      BY <1>1, <1>2, <1>7, ShapeOfRest DEF Scope
    <2>2. CASE c.op = "update_time"
      <3>1. Expected(a, e) = roles[a][e] /\ c.date = date[e]
        BY <1>2, <2>2 DEF Right
      <3>2. roles'[a][e] = roles[a][e] /\ score'[a][e] \in {None, c.date}
        BY <1>2, <1>5, <2>1, <2>2, Kinds, UpdateTimeEntry
      <3>3. QED
        BY <1>3, <2>1, <3>1, <3>2 DEF Dated
    <2>3. CASE c.op = "delete_event"
      <3>1. Expected(a, e) = {}
        BY <1>2, <2>3 DEF Right
      <3>2. roles'[a][e] = {} /\ score'[a][e] = None
        BY <1>2, <1>5, <2>1, <2>3, Kinds, RemoveEventEntry
      <3>3. QED
        BY <1>3, <2>1, <3>1, <3>2 DEF Dated
    <2>4. QED
      BY <1>7, <2>2, <2>3
  <1>8. CASE c.op = "merge"
    <2>1. Rest(q) = <<>> /\ a \in {c.avatar, c.source} /\ c.avatar # c.source
      BY <1>1, <1>2, <1>8, ShapeOfRest DEF Scope, Commands
    <2>2. Merge(c) /\ Agree(c.source) /\ c.source \notin torn
      BY <1>2, <1>5, <1>8, Kinds
    <2>3. CASE a = c.source
      <3>1. Expected(a, e) = {}
        BY <1>2, <1>8, <2>3 DEF Right
      <3>2. roles'[a][e] = {} /\ score'[a][e] = None
        BY <1>2, <2>2, <2>3, MergeEntry
      <3>3. QED
        BY <1>3, <2>1, <3>1, <3>2 DEF Dated
    <2>4. CASE a = c.avatar
      <3>1. RolesOf({}, "add", e) = {} /\ RolesOf({}, "del", e) = {}
        BY DEF RolesOf
      <3>2. /\ Expected(a, e) = roles[a][e] /\ score[a][e] \in {None, date[e]}
            /\ roles[c.source][e] = {}
        BY <1>2, <1>8, <2>2, <2>4, <3>1 DEF Right, Dated
      <3>3. QED
        BY <1>2, <1>3, <2>1, <2>2, <2>4, <3>2, MergeEntry DEF Dated
    <2>5. QED
      BY <2>1, <2>3, <2>4
  <1>9. CASE c.op = "delete_avatar"
    BY <1>2, <1>9 DEF Formed
  <1>10. ASSUME NEW op \in {"place", "grant"},
                c.op = (IF op = "place" THEN "enlist" ELSE "place")
         PROVE  Rest(q) # <<>> /\ Right(Rest(q), a, e)'
    <2>1. PICK d : d = [c EXCEPT !.op = op]
      OBVIOUS
    <2>2. d \in Commands /\ Rest(q) = <<d>>
      BY <1>1, <1>2, <1>10, <2>1, ShapeOfRest
    <2>3. d.op = op /\ d.roles = c.roles /\ d.dates = c.dates /\ a = c.avatar
      BY <1>2, <1>10, <2>1 DEF Commands, Scope
    <2>4. Rest(q) # <<>> /\ Last(Rest(q)) = d /\ Earlier(Rest(q)) = {}
      BY <2>2, SinglePipe
    <2>5. /\ Expected(a, e) = c.roles[e] /\ c.dates[e] \in {None, date[e]}
          /\ roles[a][e] = {} /\ score[a][e] = None
      BY <1>2, <1>10 DEF Right
    <2>6. /\ roles'[a][e] = {}
          /\ score'[a][e] = IF op = "grant" THEN c.dates[e] ELSE None
      BY <1>2, <1>10, <2>3, <2>5, Kinds, BuildEntry
    <2>7. QED
      BY <1>3, <2>3, <2>4, <2>5, <2>6 DEF Right
  <1>11. CASE c.op = "grant"
    <2>1. a = c.avatar /\ Rest(q) = <<>> /\ Grant(c)
      BY <1>1, <1>2, <1>11, ShapeOfRest, Kinds DEF Scope
    <2>2. /\ Expected(a, e) = c.roles[e] /\ c.dates[e] \in {None, date[e]}
          /\ roles[a][e] = {} /\ score[a][e] = c.dates[e]
      BY <1>2, <1>11 DEF Right
    <2>3. roles'[a][e] = roles[a][e] \cup c.roles[e] /\ score'[a][e] = score[a][e]
      BY <1>2, <2>1, BuildEntry
    <2>4. roles'[a][e] = Expected(a, e)' /\ score'[a][e] \in {None, date'[e]}
      BY <1>3, <2>2, <2>3
    <2>5. QED
      BY <2>1, <2>4 DEF Dated
  <1>12. c.op \in {"add", "del", "delete_avatar", "delete_event", "update_time",
                   "merge", "enlist", "place", "grant"}
    BY <1>2, Kinds
  <1>13. QED
    BY <1>6, <1>7, <1>8, <1>9, <1>10, <1>11, <1>12

\* A pipeline that goes on has the scope it had and ends with the same merge.
LEMMA AfterRest ==
    ASSUME NEW q \in Seq(Commands), q # <<>>, Formed(q)
    PROVE  /\ Scope(Head(q)) \subseteq ScopeOf(q)
           /\ ScopeOf(Rest(q)) = IF Rest(q) = <<>> THEN {} ELSE ScopeOf(q)
           /\ Rest(q) # <<>> =>
                 /\ Formed(Rest(q))
                 /\ Last(Rest(q)).op = "merge" => Last(Rest(q)) = Last(q)
  <1>1. Scope(Head(q)) \subseteq ScopeOf(q)
    <2>1. 1 \in DOMAIN q /\ Head(q) = q[1]
      BY HeadTailProperties, EmptySeq
    <2>2. QED
      BY <2>1 DEF ScopeOf
  <1>2. ScopeOf(<<>>) = {}
    BY DEF ScopeOf
  <1>3. CASE Len(q) > 1
    BY <1>1, <1>3, ShapeOfRest
  <1>4. CASE ~(Len(q) > 1) /\ Head(q).op \notin {"enlist", "place"}
    <2>1. Rest(q) = <<>>
      BY <1>4, ShapeOfRest
    <2>2. QED
      BY <1>1, <1>2, <2>1
  <1>5. ASSUME NEW op \in {"place", "grant"}, ~(Len(q) > 1),
               Head(q).op = (IF op = "place" THEN "enlist" ELSE "place")
        PROVE  /\ Rest(q) # <<>> /\ ScopeOf(Rest(q)) = ScopeOf(q) /\ Formed(Rest(q))
               /\ Last(Rest(q)).op # "merge"
    <2>1. PICK d : d = [Head(q) EXCEPT !.op = op]
      OBVIOUS
    <2>2. /\ Rest(q) = <<d>> /\ d \in Commands
          /\ ScopeOf(Rest(q)) = ScopeOf(q) /\ Formed(Rest(q))
      BY <1>5, <2>1, ShapeOfRest
    <2>3. d.op = op
      BY <1>5, <2>1, HeadTailProperties DEF Commands
    <2>4. QED
      BY <2>2, <2>3, SinglePipe
  <1>6. QED
    BY <1>1, <1>3, <1>4, <1>5

\* Nobody else writes the links that a merge moves.
LEMMA SourceOwned ==
    ASSUME MInv, NEW t \in Sessions, NEW k, k = pipe[t], k # <<>>, Last(k).op = "merge",
           NEW e \in Events, <<Last(k).avatar, e>> \notin excused
    PROVE  /\ Last(k).source \in Avatars /\ Last(k).avatar \in Avatars
           /\ <<Last(k).source, e>> \notin excused
           /\ \A s \in Sessions \ {t} : <<Last(k).source, e>> \notin Pending(s)
  <1>1. k \in Seq(Commands) /\ Formed(k)
    BY DEF MInv, IInv, Shaped
  <1>2. Last(k) \in Commands /\ ScopeOf(k) = Scope(Last(k))
    BY <1>1, ScopeOfShaped
  <1>3. Last(k).source \in Avatars /\ Last(k).avatar \in Avatars
    BY <1>2 DEF Commands
  <1>4. <<Last(k).source, e>> \in Pending(t) /\ <<Last(k).source, e>> \in Pairs
    BY <1>2, <1>3 DEF Scope, Pairs, Pending
  <1>5. <<Last(k).source, e>> \notin excused
    BY DEF MInv, Carried
  <1>6. QED
    BY <1>3, <1>4, <1>5 DEF MInv, Owned

\* Executing a command, whatever the other requests are doing.
LEMMA ExecuteMirror ==
    ASSUME MInv, NEW s \in Sessions, Execute(s)
    PROVE  Shaped' /\ Owned' /\ Carried' /\ Mirror'
  <1>1. PICK q : q = pipe[s]
    OBVIOUS
  <1>2. PICK c : c = Head(q)
    OBVIOUS
  <1>3. /\ q \in Seq(Commands) /\ q # <<>> /\ Formed(q) /\ c \in Commands
        /\ RedisTypeOK /\ Perform(c) /\ pipe \in [Sessions -> Seq(Commands)]
        /\ pipe' = [pipe EXCEPT ![s] = Rest(q)]
        /\ UNCHANGED <<linked, date, deleted, gone, excused>>
    BY <1>1, <1>2, HeadTailProperties DEF Execute, MInv, IInv, Shaped, zodb
  <1>4. torn \subseteq torn'
    BY DEF Execute, TornBy
  <1>5. /\ Scope(c) \subseteq Pending(s)
        /\ \A t \in Sessions \ {s} : pipe'[t] = pipe[t] /\ Pending(t)' = Pending(t)
        /\ pipe'[s] = Rest(q)
        /\ Pending(s)' = IF Rest(q) = <<>> THEN {} ELSE Pending(s)
        /\ Rest(q) # <<>> => /\ Formed(Rest(q))
                             /\ Last(Rest(q)).op = "merge" => Last(Rest(q)) = Last(q)
    BY <1>1, <1>2, <1>3, AfterRest DEF Pending
  <1>6. Shaped'
    BY <1>3, <1>5 DEF MInv, Shaped, Formed
  <1>7. Owned'
    <2>1. \A t \in Sessions : Pending(t)' \subseteq Pending(t)
      BY <1>5
    <2>2. QED
      BY <1>3, <2>1 DEF MInv, Owned
  <1>8. Carried'
    <2>1. ASSUME NEW t \in Sessions, pipe'[t] # <<>>, Last(pipe'[t]).op = "merge"
          PROVE  pipe[t] # <<>> /\ Last(pipe'[t]) = Last(pipe[t])
      BY <1>1, <1>3, <1>5, <2>1
    <2>2. QED
      BY <1>3, <2>1 DEF MInv, Carried
  <1>9. ASSUME NEW a \in Avatars \ torn', NEW e \in Events, <<a, e>> \notin excused'
        PROVE  /\ (\A t \in Sessions : <<a, e>> \notin Pending(t)') =>
                     roles'[a][e] = Expected(a, e)' /\ Dated(a, e)'
               /\ \A t \in Sessions : <<a, e>> \in Pending(t)' => Right(pipe[t], a, e)'
    <2>1. a \notin torn /\ <<a, e>> \notin excused /\ <<a, e>> \in Pairs
      BY <1>3, <1>4, <1>9 DEF Pairs
    <2>2. CASE <<a, e>> \in Pending(s)
      <3>1. \A t \in Sessions \ {s} : <<a, e>> \notin Pending(t)'
        BY <1>5, <2>1, <2>2 DEF MInv, Owned
      <3>2. Right(q, a, e) /\ <<a, e>> \in ScopeOf(q)
        BY <1>1, <2>1, <2>2 DEF MInv, Mirror, Pending
      <3>3. CASE Len(q) > 1
        <4>1. Right(Tail(q), a, e)'
          BY <1>1, <1>3, <1>9, <3>2, <3>3, LongStep DEF MInv
        <4>2. pipe'[s] = Tail(q) /\ Pending(s)' = Pending(s)
          BY <1>3, <1>5, <3>3, ShapeOfRest
        <4>3. Right(pipe[s], a, e)'
          BY <4>1, <4>2 DEF Right
        <4>4. QED
          BY <2>2, <3>1, <4>2, <4>3
      <3>4. CASE ~(Len(q) > 1)
        <4>1. /\ Rest(q) = <<>> => roles'[a][e] = Expected(a, e)' /\ Dated(a, e)'
              /\ Rest(q) # <<>> => Right(Rest(q), a, e)'
          BY <1>1, <1>3, <1>9, <3>2, <3>4, ShortStep DEF MInv
        <4>2. Right(Rest(q), a, e)' => Right(pipe[s], a, e)'
          BY <1>1, <1>5 DEF Right
        <4>3. QED
          BY <1>5, <2>2, <3>1, <4>1, <4>2
      <3>5. QED
        BY <3>3, <3>4
    <2>3. CASE <<a, e>> \notin Pending(s)
      <3>1. \A b \in Avatars : <<b, e>> \notin Pending(s) =>
               score'[b][e] = score[b][e] /\ roles'[b][e] = roles[b][e]
        BY <1>3, <1>5, FrameEntry
      <3>2. Expected(a, e)' = Expected(a, e) /\ (Dated(a, e)' <=> Dated(a, e))
        BY <1>3, <1>9, <2>3, <3>1 DEF Expected, LinkedRoles, Dated
      <3>3. ASSUME \A t \in Sessions : <<a, e>> \notin Pending(t)'
            PROVE  roles'[a][e] = Expected(a, e)' /\ Dated(a, e)'
        <4>1. \A t \in Sessions : <<a, e>> \notin Pending(t)
          BY <1>5, <2>3, <3>3
        <4>2. roles[a][e] = Expected(a, e) /\ Dated(a, e)
          BY <1>9, <2>1, <4>1 DEF MInv, Mirror
        <4>3. QED
          BY <1>9, <2>3, <3>1, <3>2, <4>2
      <3>4. ASSUME NEW t \in Sessions, <<a, e>> \in Pending(t)'
            PROVE  Right(pipe[t], a, e)'
        <4>1. t # s /\ pipe'[t] = pipe[t] /\ <<a, e>> \in Pending(t)
          BY <1>5, <2>3, <3>4
        <4>2. PICK k : k = pipe[t]
          OBVIOUS
        <4>3. Right(k, a, e)
          BY <1>9, <2>1, <4>1, <4>2 DEF MInv, Mirror
        <4>4. ASSUME Last(k).op = "merge", a = Last(k).avatar
              PROVE  roles'[Last(k).source][e] = roles[Last(k).source][e]
          <5>1. k # <<>>
            <6>1. <<a, e>> \notin ScopeOf(<<>>)
              BY DEF ScopeOf
            <6>2. QED
              BY <4>1, <4>2, <6>1 DEF Pending
          <5>2. Last(k).source \in Avatars /\ <<Last(k).source, e>> \notin Pending(s)
            BY <2>1, <4>1, <4>2, <4>4, <5>1, SourceOwned
          <5>3. QED
            BY <3>1, <5>2
        <4>5. Right(k, a, e)'
          BY <1>3, <1>4, <1>9, <2>3, <3>1, <3>2, <4>3, <4>4, RightKept
        <4>6. QED
          BY <4>1, <4>2, <4>5 DEF Right
      <3>5. QED
        BY <3>3, <3>4
    <2>4. QED
      BY <2>2, <2>3
  <1>10. Mirror'
    BY <1>9 DEF Mirror
  <1>11. QED
    BY <1>6, <1>7, <1>8, <1>10

\* Losing a pipeline excuses what it had still to write.
LEMMA LoseMirror ==
    ASSUME MInv, NEW s \in Sessions, LosePipeline(s)
    PROVE  Shaped' /\ Owned' /\ Carried' /\ Mirror'
  <1>1. /\ pipe \in [Sessions -> Seq(Commands)] /\ torn \subseteq torn'
        /\ pipe' = [pipe EXCEPT ![s] = <<>>] /\ excused' = excused \cup Pending(s)
        /\ UNCHANGED <<linked, date, deleted, gone, members, score, roles>>
    BY DEF LosePipeline, MInv, IInv, zodb, redis
  <1>2. /\ pipe'[s] = <<>> /\ Pending(s)' = {}
        /\ \A t \in Sessions \ {s} : pipe'[t] = pipe[t] /\ Pending(t)' = Pending(t)
    BY <1>1 DEF Pending, ScopeOf
  <1>3. Shaped'
    BY <1>2 DEF MInv, Shaped, Formed
  <1>4. Owned'
    <2>1. \A t \in Sessions : Pending(t)' \subseteq Pending(t)
      BY <1>2
    <2>2. QED
      BY <1>1, <2>1 DEF MInv, Owned
  <1>5. Carried'
    <2>1. SUFFICES ASSUME NEW t \in Sessions, pipe'[t] # <<>>, Last(pipe'[t]).op = "merge"
                   PROVE  /\ Last(pipe'[t]).source \in gone'
                          /\ \A e \in Events : <<Last(pipe'[t]).avatar, e>> \notin excused'
                                => <<Last(pipe'[t]).source, e>> \notin excused'
      BY DEF Carried
    <2>2. t # s /\ pipe'[t] = pipe[t]
      BY <1>2, <2>1
    <2>3. PICK k : k = pipe[t]
      OBVIOUS
    <2>4. ASSUME NEW e \in Events, <<Last(k).avatar, e>> \notin excused'
          PROVE  <<Last(k).source, e>> \notin excused'
      BY <1>1, <2>1, <2>2, <2>3, <2>4, SourceOwned
    <2>5. Last(k).source \in gone'
      BY <1>1, <2>1, <2>2, <2>3 DEF MInv, Carried
    <2>6. QED
      BY <2>2, <2>3, <2>4, <2>5
  <1>6. ASSUME NEW a \in Avatars \ torn', NEW e \in Events, <<a, e>> \notin excused'
        PROVE  /\ (\A t \in Sessions : <<a, e>> \notin Pending(t)') =>
                     roles'[a][e] = Expected(a, e)' /\ Dated(a, e)'
               /\ \A t \in Sessions : <<a, e>> \in Pending(t)' => Right(pipe[t], a, e)'
    <2>1. a \notin torn /\ <<a, e>> \notin excused /\ <<a, e>> \notin Pending(s)
      BY <1>1, <1>6
    <2>2. Expected(a, e)' = Expected(a, e) /\ (Dated(a, e)' <=> Dated(a, e))
      BY <1>1 DEF Expected, LinkedRoles, Dated
    <2>3. ASSUME \A t \in Sessions : <<a, e>> \notin Pending(t)'
          PROVE  roles'[a][e] = Expected(a, e)' /\ Dated(a, e)'
      <3>1. \A t \in Sessions : <<a, e>> \notin Pending(t)
        BY <1>2, <2>1, <2>3
      <3>2. roles[a][e] = Expected(a, e) /\ Dated(a, e)
        BY <1>6, <2>1, <3>1 DEF MInv, Mirror
      <3>3. QED
        BY <1>1, <2>2, <3>2
    <2>4. ASSUME NEW t \in Sessions, <<a, e>> \in Pending(t)'
          PROVE  Right(pipe[t], a, e)'
      <3>1. pipe'[t] = pipe[t] /\ <<a, e>> \in Pending(t)
        BY <1>2, <2>4
      <3>2. PICK k : k = pipe[t]
        OBVIOUS
      <3>3. Right(k, a, e)
        BY <1>6, <2>1, <3>1, <3>2 DEF MInv, Mirror
      <3>4. Right(k, a, e)'
        BY <1>1, <1>6, <2>2, <3>3, RightKept
      <3>5. QED
        BY <3>1, <3>2, <3>4 DEF Right
    <2>5. QED
      BY <2>3, <2>4
  <1>7. Mirror'
    BY <1>6 DEF Mirror
  <1>8. QED
    BY <1>3, <1>4, <1>5, <1>7

-------------------------------------------------------------------------------
(* Committing a request *)

\* A request keeps the mirror when it excuses what it races with, when its pipeline
\* is right for the entries it will write, and when it leaves the rest alone.
Sane(s, K) ==
    /\ K \in Seq(Commands) /\ K # <<>> /\ Formed(K)
    /\ Commit(s, K) /\ gone \subseteq gone'
    /\ Raced(s, K) \subseteq excused'
    /\ \A a \in Avatars, e \in Events : <<a, e>> \notin excused' /\ <<a, e>> \notin ScopeOf(K) =>
          /\ <<a, e>> \notin excused
          /\ Expected(a, e)' = Expected(a, e) /\ date'[e] = date[e]
    /\ \A a \in Avatars \ torn, e \in Events :
          <<a, e>> \notin excused' /\ <<a, e>> \in ScopeOf(K) => Right(K, a, e)'
    /\ Last(K).op = "merge" =>
          /\ Last(K).source \in gone'
          /\ \A e \in Events : <<Last(K).avatar, e>> \notin excused'
                                  => <<Last(K).source, e>> \notin excused'
    /\ \A a \in gone, e \in Events : <<a, e>> \in ScopeOf(K) =>
          \A b \in Avatars : <<b, e>> \in ScopeOf(K)
    /\ \A a \in gone, e \in Events :
          <<a, e>> \in excused' => <<a, e>> \in excused \cup Raced(s, K)

LEMMA RequestMirrors ==
    ASSUME MInv, NEW s \in Sessions, NEW K, Sane(s, K)
    PROVE  Shaped' /\ Owned' /\ Carried' /\ Mirror'
  <1>1. /\ K \in Seq(Commands) /\ K # <<>> /\ Formed(K)
        /\ pipe \in [Sessions -> Seq(Commands)] /\ pipe[s] = <<>>
        /\ pipe' = [pipe EXCEPT ![s] = K]
        /\ UNCHANGED <<members, score, roles, torn>>
        /\ gone \subseteq gone' /\ gone \subseteq Avatars
    BY DEF Sane, Commit, redis, MInv, IInv, ZodbTypeOK
  <1>2. /\ pipe'[s] = K /\ Pending(s)' = ScopeOf(K) /\ Pending(s) = {}
        /\ \A t \in Sessions \ {s} : pipe'[t] = pipe[t] /\ Pending(t)' = Pending(t)
    <2>1. ScopeOf(<<>>) = {}
      BY DEF ScopeOf
    <2>2. QED
      BY <1>1, <2>1 DEF Pending
  <1>3. ASSUME NEW a \in Avatars, NEW e \in Events, <<a, e>> \notin excused',
               NEW t \in Sessions \ {s}, <<a, e>> \in Pending(t)
        PROVE  <<a, e>> \notin ScopeOf(K) /\ <<a, e>> \notin excused
    <2>1. <<a, e>> \notin Raced(s, K)
      BY <1>3 DEF Sane
    <2>2. <<a, e>> \notin ScopeOf(K)
      BY <1>3, <2>1 DEF Raced
    <2>3. QED
      BY <1>3, <2>2 DEF Sane
  <1>4. Shaped'
    BY <1>1, <1>2 DEF MInv, Shaped, Formed
  <1>5. Owned'
    <2>1. SUFFICES ASSUME NEW p \in Pairs, p \notin excused', NEW t \in Sessions,
                          NEW u \in Sessions, p \in Pending(t)', p \in Pending(u)'
                   PROVE  t = u
      BY DEF Owned
    <2>2. PICK a \in Avatars, e \in Events : p = <<a, e>>
      BY DEF Pairs
    <2>3. CASE t = s \/ u = s
      BY <1>2, <1>3, <2>1, <2>2, <2>3
    <2>4. CASE t # s /\ u # s
      BY <1>2, <1>3, <2>1, <2>2, <2>4 DEF MInv, Owned
    <2>5. QED
      BY <2>3, <2>4
  <1>6. Carried'
    <2>1. SUFFICES ASSUME NEW t \in Sessions, pipe'[t] # <<>>, Last(pipe'[t]).op = "merge"
                   PROVE  /\ Last(pipe'[t]).source \in gone'
                          /\ \A e \in Events : <<Last(pipe'[t]).avatar, e>> \notin excused'
                                => <<Last(pipe'[t]).source, e>> \notin excused'
      BY DEF Carried
    <2>2. CASE t = s
      BY <1>2, <2>1, <2>2 DEF Sane
    <2>3. CASE t # s
      <3>1. PICK k : k = pipe[t]
        OBVIOUS
      <3>2. k # <<>> /\ Last(k).op = "merge" /\ pipe'[t] = k
        BY <1>2, <2>1, <2>3, <3>1
      <3>3. k \in Seq(Commands) /\ Formed(k)
        BY <3>1 DEF MInv, IInv, Shaped
      <3>4. /\ Last(k) \in Commands /\ ScopeOf(k) = Scope(Last(k))
        BY <3>2, <3>3, ScopeOfShaped
      <3>5. Last(k).source \in Avatars /\ Last(k).avatar \in Avatars
        BY <3>2, <3>4 DEF Commands
      <3>6. Last(k).source \in gone
        BY <3>1, <3>2 DEF MInv, Carried
      <3>7. ASSUME NEW e \in Events, <<Last(k).avatar, e>> \notin excused'
            PROVE  <<Last(k).source, e>> \notin excused'
        <4>1. <<Last(k).avatar, e>> \in Pending(t)
          BY <3>1, <3>2, <3>4, <3>5 DEF Scope, Pairs, Pending
        <4>2. <<Last(k).avatar, e>> \notin ScopeOf(K) /\ <<Last(k).avatar, e>> \notin excused
          BY <1>3, <2>3, <3>5, <3>7, <4>1
        <4>3. <<Last(k).source, e>> \notin excused
          BY <3>1, <3>2, <4>2, SourceOwned
        <4>4. <<Last(k).source, e>> \notin ScopeOf(K)
          BY <3>5, <3>6, <4>2 DEF Sane
        <4>5. <<Last(k).source, e>> \notin Raced(s, K)
          BY <4>4 DEF Raced
        <4>6. QED
          BY <3>6, <4>3, <4>5 DEF Sane
      <3>8. QED
        BY <1>1, <3>2, <3>6, <3>7
    <2>4. QED
      BY <2>2, <2>3
  <1>7. ASSUME NEW a \in Avatars \ torn', NEW e \in Events, <<a, e>> \notin excused'
        PROVE  /\ (\A t \in Sessions : <<a, e>> \notin Pending(t)') =>
                     roles'[a][e] = Expected(a, e)' /\ Dated(a, e)'
               /\ \A t \in Sessions : <<a, e>> \in Pending(t)' => Right(pipe[t], a, e)'
    <2>1. CASE <<a, e>> \in ScopeOf(K)
      <3>1. \A t \in Sessions \ {s} : <<a, e>> \notin Pending(t)'
        BY <1>2, <1>3, <1>7, <2>1
      <3>2. Right(K, a, e)'
        BY <1>1, <1>7, <2>1 DEF Sane
      <3>3. Right(pipe[s], a, e)'
        BY <1>2, <3>2 DEF Right
      <3>4. QED
        BY <1>2, <2>1, <3>1, <3>3
    <2>2. CASE <<a, e>> \notin ScopeOf(K)
      <3>1. /\ <<a, e>> \notin excused /\ a \notin torn
            /\ Expected(a, e)' = Expected(a, e) /\ date'[e] = date[e]
        BY <1>1, <1>7, <2>2 DEF Sane
      <3>2. Dated(a, e)' <=> Dated(a, e)
        BY <1>1, <3>1 DEF Dated
      <3>3. ASSUME \A t \in Sessions : <<a, e>> \notin Pending(t)'
            PROVE  roles'[a][e] = Expected(a, e)' /\ Dated(a, e)'
        <4>1. \A t \in Sessions : <<a, e>> \notin Pending(t)
          BY <1>2, <3>3
        <4>2. roles[a][e] = Expected(a, e) /\ Dated(a, e)
          BY <1>7, <3>1, <4>1 DEF MInv, Mirror
        <4>3. QED
          BY <1>1, <3>1, <3>2, <4>2
      <3>4. ASSUME NEW t \in Sessions, <<a, e>> \in Pending(t)'
            PROVE  Right(pipe[t], a, e)'
        <4>1. pipe'[t] = pipe[t] /\ <<a, e>> \in Pending(t)
          BY <1>2, <2>2, <3>4
        <4>2. PICK k : k = pipe[t]
          OBVIOUS
        <4>3. Right(k, a, e)
          BY <1>7, <3>1, <4>1, <4>2 DEF MInv, Mirror
        <4>4. Right(k, a, e)'
          BY <1>1, <1>7, <3>1, <4>3, RightKept
        <4>5. QED
          BY <4>1, <4>2, <4>4 DEF Right
      <3>5. QED
        BY <3>3, <3>4
    <2>3. QED
      BY <2>1, <2>2
  <1>8. Mirror'
    BY <1>7 DEF Mirror
  <1>9. QED
    BY <1>4, <1>5, <1>6, <1>8

\* Where nothing is pending, torn or excused before a request, Redis is right.
LEMMA Quiet ==
    ASSUME MInv, NEW s \in Sessions, pipe[s] = <<>>, NEW K,
           NEW a \in Avatars \ torn, NEW e \in Events, <<a, e>> \in ScopeOf(K),
           <<a, e>> \notin Raced(s, K), <<a, e>> \notin excused
    PROVE  roles[a][e] = Expected(a, e) /\ Dated(a, e)
  <1>1. ScopeOf(<<>>) = {}
    BY DEF ScopeOf
  <1>2. \A t \in Sessions : <<a, e>> \notin Pending(t)
    BY <1>1 DEF Raced, Pending
  <1>3. QED
    BY <1>2 DEF MInv, Mirror

\* A request of one command.
LEMMA OneCommand ==
    ASSUME NEW c \in Commands, c.op # "delete_avatar"
    PROVE  /\ <<c>> \in Seq(Commands) /\ <<c>> # <<>> /\ Last(<<c>>) = c
           /\ Earlier(<<c>>) = {} /\ Formed(<<c>>) /\ ScopeOf(<<c>>) = Scope(c)
  <1>1. PICK q : q = <<c>>
    OBVIOUS
  <1>2. /\ q \in Seq(Commands) /\ q # <<>> /\ Last(q) = c
        /\ Earlier(q) = {} /\ Formed(q)
    BY <1>1, SinglePipe
  <1>3. ScopeOf(q) = Scope(c)
    BY <1>2, ScopeOfShaped
  <1>4. QED
    BY <1>1, <1>2, <1>3

LEMMA LinkSane ==
    ASSUME MInv, NEW s \in Sessions, NEW a \in Avatars, NEW o \in Objects, LinkTo(s, a, o)
    PROVE  Sane(s, <<AddLink(a, EventOf[o], RoleOf[o])>>)
  <1>1. PICK E : E = EventOf[o]
    OBVIOUS
  <1>2. PICK c : c = AddLink(a, E, RoleOf[o])
    OBVIOUS
  <1>3. PICK K : K = <<c>>
    OBVIOUS
  <1>4. /\ a \notin gone /\ E \notin deleted /\ linked' = linked \cup {<<a, o>>}
        /\ Commit(s, K) /\ excused' = excused \cup Raced(s, K)
        /\ UNCHANGED <<date, deleted, gone>>
    BY <1>1, <1>2, <1>3 DEF LinkTo
  <1>5. /\ c \in Commands /\ E \in Events /\ c.op = "add" /\ c.avatar = a /\ c.event = E
        /\ c.role = RoleOf[o] /\ c.date = date[E]
    BY <1>1, <1>2, LinkCommands DEF MInv, IInv, Whole, AddLink
  <1>6. /\ K \in Seq(Commands) /\ K # <<>> /\ Last(K) = c /\ Earlier(K) = {} /\ Formed(K)
        /\ ScopeOf(K) = Scope(c)
    BY <1>3, <1>5, OneCommand
  <1>7. ScopeOf(K) = {<<a, E>>}
    BY <1>5, <1>6 DEF Scope, Pairs
  <1>8. \A b \in Avatars, e \in Events : <<b, e>> \notin ScopeOf(K) =>
           Expected(b, e)' = Expected(b, e)
    BY <1>1, <1>4, <1>7 DEF Expected, LinkedRoles
  <1>9. ASSUME NEW b \in Avatars \ torn, NEW e \in Events,
               <<b, e>> \notin excused', <<b, e>> \in ScopeOf(K)
        PROVE  Right(K, b, e)'
    <2>1. b = a /\ e = E
      BY <1>7, <1>9
    <2>2. roles[a][E] = Expected(a, E) /\ Dated(a, E)
      BY <1>4, <1>9, <2>1, Quiet DEF Commit
    <2>3. LinkedRoles(a, E)' = LinkedRoles(a, E) \cup {RoleOf[o]}
      BY <1>1, <1>4 DEF LinkedRoles
    <2>4. Expected(a, E)' = roles'[a][E] \cup {c.role} /\ Dated(a, E)'
      BY <1>4, <1>5, <2>2, <2>3 DEF Expected, Dated, Commit, redis
    <2>5. QED
      BY <1>4, <1>5, <1>6, <2>1, <2>4 DEF Right
  <1>10. /\ \A b \in Avatars, e \in Events :
               <<b, e>> \notin excused' /\ <<b, e>> \notin ScopeOf(K) => <<b, e>> \notin excused
         /\ \A b \in gone, e \in Events : <<b, e>> \notin ScopeOf(K)
    BY <1>4, <1>7
  <1>11. Sane(s, K)
    BY <1>4, <1>5, <1>6, <1>8, <1>9, <1>10 DEF Sane
  <1>12. QED
    BY <1>1, <1>2, <1>3, <1>11

LEMMA UnlinkSane ==
    ASSUME MInv, NEW s \in Sessions, NEW a \in Avatars, NEW o \in Objects, UnlinkTo(s, a, o)
    PROVE  Sane(s, <<DelLink(a, EventOf[o], RoleOf[o])>>)
  <1>1. PICK E : E = EventOf[o]
    OBVIOUS
  <1>2. PICK c : c = DelLink(a, E, RoleOf[o])
    OBVIOUS
  <1>3. PICK K : K = <<c>>
    OBVIOUS
  <1>4. /\ a \notin gone /\ E \notin deleted /\ linked' = linked \ {<<a, o>>}
        /\ <<a, o>> \in linked /\ Commit(s, K)
        /\ excused' = excused \cup Raced(s, K)
                         \cup (IF Sibling(a, o) THEN {<<a, E>>} ELSE {})
        /\ UNCHANGED <<date, deleted, gone>>
    BY <1>1, <1>2, <1>3 DEF UnlinkTo
  <1>5. /\ c \in Commands /\ E \in Events /\ c.op = "del" /\ c.avatar = a /\ c.event = E
        /\ c.role = RoleOf[o]
    BY <1>1, <1>2, LinkCommands DEF MInv, IInv, Whole, DelLink
  <1>6. /\ K \in Seq(Commands) /\ K # <<>> /\ Last(K) = c /\ Earlier(K) = {} /\ Formed(K)
        /\ ScopeOf(K) = Scope(c)
    BY <1>3, <1>5, OneCommand
  <1>7. ScopeOf(K) = {<<a, E>>}
    BY <1>5, <1>6 DEF Scope, Pairs
  <1>8. \A b \in Avatars, e \in Events : <<b, e>> \notin ScopeOf(K) =>
           Expected(b, e)' = Expected(b, e)
    BY <1>1, <1>4, <1>7 DEF Expected, LinkedRoles
  <1>9. ASSUME NEW b \in Avatars \ torn, NEW e \in Events,
               <<b, e>> \notin excused', <<b, e>> \in ScopeOf(K)
        PROVE  Right(K, b, e)'
    <2>1. b = a /\ e = E
      BY <1>7, <1>9
    <2>2. roles[a][E] = Expected(a, E) /\ Dated(a, E)
      BY <1>4, <1>9, <2>1, Quiet DEF Commit
    <2>3. ~Sibling(a, o)
      BY <1>4, <1>9, <2>1
    <2>4. LinkedRoles(a, E)' = LinkedRoles(a, E) \ {RoleOf[o]}
      <3>1. \A x \in Objects \ {o} :
               <<a, x>> \in linked /\ EventOf[x] = E => RoleOf[x] # RoleOf[o]
        BY <1>1, <2>3 DEF Sibling
      <3>2. \A x \in Objects : <<a, x>> \in linked' <=> <<a, x>> \in linked /\ x # o
        BY <1>4
      <3>3. \A r : r \in LinkedRoles(a, E)' <=>
                     \E x \in Objects : <<a, x>> \in linked' /\ EventOf[x] = E /\ r = RoleOf[x]
        BY DEF LinkedRoles
      <3>4. \A r : r \in LinkedRoles(a, E) <=>
                     \E x \in Objects : <<a, x>> \in linked /\ EventOf[x] = E /\ r = RoleOf[x]
        BY DEF LinkedRoles
      <3>5. \A r : r \in LinkedRoles(a, E)' <=> r \in LinkedRoles(a, E) /\ r # RoleOf[o]
        BY <3>1, <3>2, <3>3, <3>4
      <3>6. QED
        BY <3>5
    <2>5. Expected(a, E)' = roles'[a][E] \ {c.role} /\ Dated(a, E)'
      BY <1>4, <1>5, <2>2, <2>4 DEF Expected, Dated, Commit, redis
    <2>6. QED
      BY <1>4, <1>5, <1>6, <2>1, <2>5 DEF Right
  <1>10. QED
    BY <1>1, <1>2, <1>3, <1>4, <1>5, <1>6, <1>7, <1>8, <1>9 DEF Sane

LEMMA MoveSane ==
    ASSUME MInv, NEW s \in Sessions, NEW E \in Events, NEW d \in Dates, MoveEvent(s, E, d)
    PROVE  Sane(s, <<[op |-> "update_time", event |-> E, date |-> d]>>)
  <1>1. PICK c : c = [op |-> "update_time", event |-> E, date |-> d]
    OBVIOUS
  <1>2. PICK K : K = <<c>>
    OBVIOUS
  <1>3. /\ date' = [date EXCEPT ![E] = d] /\ Commit(s, K)
        /\ excused' = excused \cup Raced(s, K) /\ UNCHANGED <<linked, deleted, gone>>
    BY <1>1, <1>2 DEF MoveEvent
  <1>4. c \in Commands /\ c.op = "update_time" /\ c.event = E /\ c.date = d /\ date'[E] = d
    BY <1>1, <1>3, LinksAssumption DEF Commands, MInv, IInv, ZodbTypeOK
  <1>5. /\ K \in Seq(Commands) /\ K # <<>> /\ Last(K) = c /\ Earlier(K) = {} /\ Formed(K)
        /\ ScopeOf(K) = Scope(c)
    BY <1>2, <1>4, OneCommand
  <1>6. ScopeOf(K) = Avatars \X {E}
    BY <1>4, <1>5 DEF Scope, Pairs
  <1>7. \A b \in Avatars, e \in Events :
           /\ Expected(b, e)' = Expected(b, e)
           /\ <<b, e>> \notin ScopeOf(K) => date'[e] = date[e]
    BY <1>3, <1>6 DEF Expected, LinkedRoles, MInv, IInv, ZodbTypeOK
  <1>8. ASSUME NEW b \in Avatars \ torn, NEW e \in Events,
               <<b, e>> \notin excused', <<b, e>> \in ScopeOf(K)
        PROVE  Right(K, b, e)'
    <2>1. e = E
      BY <1>6, <1>8
    <2>2. roles[b][E] = Expected(b, E)
      BY <1>3, <1>8, <2>1, Quiet DEF Commit
    <2>3. Expected(b, E)' = roles'[b][E]
      BY <1>3, <1>7, <2>2 DEF Commit, redis
    <2>4. QED
      BY <1>3, <1>4, <1>5, <2>1, <2>3 DEF Right
  <1>9. QED
    BY <1>1, <1>2, <1>3, <1>4, <1>5, <1>6, <1>7, <1>8 DEF Sane

LEMMA RefreshSane ==
    ASSUME MInv, NEW s \in Sessions, NEW a \in Avatars, RefreshLinks(s, a)
    PROVE  \E K : Sane(s, K)
  <1>1. PICK c : c = [op |-> "enlist", avatar |-> a,
                      dates |-> [e \in Events |-> IF e \in LinkedEvents(a) THEN date[e]
                                                  ELSE None],
                      roles |-> [e \in Events |-> LinkedRoles(a, e)]]
    OBVIOUS
  <1>2. PICK h : h = [op |-> "delete_avatar", avatar |-> a]
    OBVIOUS
  <1>3. PICK K : K = <<h, c>>
    OBVIOUS
  <1>4. /\ a \notin gone /\ Commit(s, K) /\ UNCHANGED <<linked, date, deleted, gone>>
        /\ excused' = (IF a \in torn THEN excused ELSE excused \ ({a} \X Events))
                         \cup Raced(s, K) \cup ({a} \X (LinkedEvents(a) \cap deleted))
    BY <1>1, <1>2, <1>3 DEF RefreshLinks, zodb
  <1>5. /\ c.op = "enlist" /\ c.avatar = a /\ h.op = "delete_avatar" /\ h.avatar = a
        /\ \A e \in Events : /\ c.roles[e] = LinkedRoles(a, e)
                             /\ c.dates[e] \in {None, date[e]}
    BY <1>1, <1>2
  <1>6. K \in Seq(Commands)
    <2>1. K \in Seq(Whole)
      BY <1>1, <1>2, <1>3, RefreshCommands DEF MInv, IInv
    <2>2. Whole \subseteq Commands
      BY DEF Whole
    <2>3. QED
      BY <2>1, <2>2
  <1>7. /\ K # <<>> /\ Last(K) = c /\ Earlier(K) = {h}
    <2>1. Len(K) = 2 /\ K[1] = h /\ K[2] = c
      BY <1>3
    <2>2. K # <<>> /\ Last(K) = c
      BY <1>3, <2>1 DEF Last
    <2>3. 1 .. Len(K) - 1 = {1}
      BY <2>1
    <2>4. Earlier(K) = {h}
      BY <2>1, <2>3 DEF Earlier
    <2>5. QED
      BY <2>2, <2>4
  <1>8. Formed(K)
    BY <1>5, <1>7 DEF Formed, Leads
  <1>9. ScopeOf(K) = {a} \X Events
    <2>1. ScopeOf(K) = Scope(c)
      BY <1>6, <1>7, <1>8, ScopeOfShaped
    <2>2. QED
      BY <1>5, <2>1 DEF Scope, Pairs
  <1>10. \A b \in Avatars, e \in Events : Expected(b, e)' = Expected(b, e)
    BY <1>4 DEF Expected, LinkedRoles
  <1>11. ASSUME NEW b \in Avatars \ torn, NEW e \in Events,
                <<b, e>> \notin excused', <<b, e>> \in ScopeOf(K)
         PROVE  Right(K, b, e)'
    <2>1. b = a
      BY <1>9, <1>11
    <2>2. e \notin LinkedEvents(a) \cap deleted
      BY <1>4, <1>11, <2>1
    <2>3. e \in deleted => LinkedRoles(a, e) = {}
      BY <2>2 DEF LinkedRoles, LinkedEvents
    <2>4. Expected(a, e)' = c.roles[e] /\ c.dates[e] \in {None, date'[e]}
      BY <1>4, <1>5, <1>10, <2>3 DEF Expected
    <2>5. QED
      BY <1>5, <1>7, <2>1, <2>4 DEF Right
  <1>12. \A b \in Avatars, e \in Events :
            <<b, e>> \notin excused' /\ <<b, e>> \notin ScopeOf(K) => <<b, e>> \notin excused
    BY <1>4, <1>9
  <1>13. /\ Raced(s, K) \subseteq excused'
         /\ \A b \in gone, e \in Events :
               /\ <<b, e>> \notin ScopeOf(K)
               /\ <<b, e>> \in excused' => <<b, e>> \in excused \cup Raced(s, K)
    BY <1>4, <1>9
  <1>14. Sane(s, K)
    BY <1>4, <1>5, <1>6, <1>7, <1>8, <1>10, <1>11, <1>12, <1>13 DEF Sane
  <1>15. QED
    BY <1>14

\* A set put in some order is all there.
LEMMA OrderRange ==
    ASSUME NEW S, IsFiniteSet(S), NEW order \in SetToSeqs(S)
    PROVE  /\ order \in Seq(S)
           /\ \A x \in S : \E i \in 1 .. Len(order) : order[i] = x
  <1>1. PICK n \in Nat : n = Cardinality(S)
    BY FS_CardinalityType
  <1>2. order \in [1 .. n -> S] /\ \A i, j \in 1 .. n : i # j => order[i] # order[j]
    BY <1>1 DEF SetToSeqs
  <1>3. order \in Injection(1 .. n, S)
    BY <1>2 DEF Injection, IsInjective
  <1>4. IsFiniteSet(1 .. n) /\ Cardinality(1 .. n) = n
    BY FS_Interval
  <1>5. order \in Surjection(1 .. n, S)
    BY <1>1, <1>3, <1>4, FS_Injection
  <1>6. order \in Seq(S) /\ Len(order) = n
    BY <1>2
  <1>7. QED
    BY <1>5, <1>6 DEF Surjection

Items(q) == {q[i] : i \in 1 .. Len(q)}

\* A pipeline of some commands and a last one.
LEMMA AppendPipe ==
    ASSUME NEW q \in Seq(Commands), NEW c \in Commands, NEW K, K = q \o <<c>>
    PROVE  /\ K \in Seq(Commands) /\ K # <<>> /\ Last(K) = c
           /\ Earlier(K) = Items(q)
  <1>1. /\ K \in Seq(Commands) /\ Len(K) = Len(q) + 1 /\ Len(q) \in Nat
        /\ K[Len(K)] = c /\ \A i \in 1 .. Len(q) : K[i] = q[i]
    BY ConcatProperties
  <1>2. K # <<>> /\ Last(K) = c
    BY <1>1 DEF Last
  <1>3. Len(K) - 1 = Len(q)
    BY <1>1
  <1>4. Earlier(K) = Items(q)
    BY <1>1, <1>3 DEF Earlier, Items
  <1>5. QED
    BY <1>1, <1>2, <1>4

LEMMA DeleteSane ==
    ASSUME MInv, NEW s \in Sessions, NEW E \in Events, DeleteEvent(s, E)
    PROVE  \E K : Sane(s, K)
  <1>1. PICK ended : ended = {p \in linked : p[2] \in Revoked /\ EventOf[p[2]] = E
                                             /\ p[1] \notin gone}
    OBVIOUS
  <1>2. PICK order \in SetToSeqs(ended) :
           LET commands == DelCommands(order, E)
                           \o <<[op |-> "delete_event", event |-> E]>>
           IN  /\ Commit(s, commands)
               /\ excused' = (excused \ ((Avatars \ torn) \X {E}))
                             \cup Raced(s, commands)
    BY <1>1 DEF DeleteEvent
  <1>3. /\ deleted' = deleted \cup {E} /\ linked' = linked \ ended
        /\ UNCHANGED <<date, gone>>
    BY <1>1 DEF DeleteEvent
  <1>4. PICK c : c = [op |-> "delete_event", event |-> E]
    OBVIOUS
  <1>5. PICK q : q = DelCommands(order, E)
    OBVIOUS
  <1>6. PICK K : K = q \o <<c>>
    OBVIOUS
  <1>7. /\ Commit(s, K)
        /\ excused' = (excused \ ((Avatars \ torn) \X {E})) \cup Raced(s, K)
    BY <1>2, <1>4, <1>5, <1>6
  <1>8. c \in Commands /\ c.op = "delete_event" /\ c.event = E
    BY <1>4 DEF Commands
  <1>9. /\ ended \subseteq linked /\ IsFiniteSet(linked)
        /\ linked \subseteq Avatars \X Objects
        /\ \A p \in ended : EventOf[p[2]] = E
    BY <1>1, LinkedFinite DEF MInv, IInv, ZodbTypeOK
  <1>10. order \in Seq(ended)
    BY <1>9, FS_Subset, OrderType
  <1>11. \A i \in 1 .. Len(order) :
            /\ DelLink(order[i][1], E, RoleOf[order[i][2]]) \in Commands
            /\ DelLink(order[i][1], E, RoleOf[order[i][2]]).op = "del"
            /\ DelLink(order[i][1], E, RoleOf[order[i][2]]).event = E
    <2>1. TAKE i \in 1 .. Len(order)
    <2>2. order[i][1] \in Avatars /\ order[i][2] \in Objects /\ EventOf[order[i][2]] = E
      BY <1>9, <1>10
    <2>3. QED
      BY <2>2, LinkCommands DEF MInv, IInv, Whole, DelLink
  <1>12. /\ q \in Seq(Commands) /\ Len(q) = Len(order)
         /\ \A i \in 1 .. Len(q) : q[i].op = "del" /\ q[i].event = E
    BY <1>5, <1>10, <1>11 DEF DelCommands
  <1>13. /\ K \in Seq(Commands) /\ K # <<>> /\ Last(K) = c
         /\ Earlier(K) = Items(q)
    BY <1>6, <1>8, <1>12, AppendPipe
  <1>14. Formed(K)
    BY <1>8, <1>12, <1>13 DEF Formed, Leads, Items
  <1>15. ScopeOf(K) = Avatars \X {E}
    <2>1. ScopeOf(K) = Scope(c)
      BY <1>13, <1>14, ScopeOfShaped
    <2>2. QED
      BY <1>8, <2>1 DEF Scope, Pairs
  <1>16. ASSUME NEW b \in Avatars, NEW e \in Events
         PROVE  IF e = E THEN Expected(b, e)' = {} ELSE Expected(b, e)' = Expected(b, e)
    <2>1. CASE e = E
      BY <1>3, <2>1 DEF Expected
    <2>2. CASE e # E
      <3>1. \A x \in Objects : EventOf[x] = e => (<<b, x>> \in linked' <=> <<b, x>> \in linked)
        BY <1>3, <1>9, <2>2
      <3>2. LinkedRoles(b, e)' = LinkedRoles(b, e)
        BY <3>1 DEF LinkedRoles
      <3>3. QED
        BY <1>3, <2>2, <3>2 DEF Expected
    <2>3. QED
      BY <2>1, <2>2
  <1>17. \A b \in Avatars, e \in Events : <<b, e>> \in ScopeOf(K) => Right(K, b, e)'
    BY <1>8, <1>13, <1>15, <1>16 DEF Right
  <1>18. /\ Raced(s, K) \subseteq excused'
         /\ \A b \in Avatars, e \in Events :
               /\ <<b, e>> \in excused' => <<b, e>> \in excused \cup Raced(s, K)
               /\ <<b, e>> \notin excused' /\ <<b, e>> \notin ScopeOf(K) =>
                     /\ <<b, e>> \notin excused
                     /\ Expected(b, e)' = Expected(b, e) /\ date'[e] = date[e]
    BY <1>3, <1>7, <1>15, <1>16
  <1>19. \A b \in gone, e \in Events :
            /\ <<b, e>> \in ScopeOf(K) => \A x \in Avatars : <<x, e>> \in ScopeOf(K)
            /\ <<b, e>> \in excused' => <<b, e>> \in excused \cup Raced(s, K)
    BY <1>15, <1>18 DEF MInv, IInv, ZodbTypeOK
  <1>20. Sane(s, K)
    BY <1>3, <1>7, <1>8, <1>13, <1>14, <1>17, <1>18, <1>19 DEF Sane
  <1>21. QED
    BY <1>20

\* The commands of a merge: every object moved is taken from the one avatar and
\* given to the other, and nothing else.
LEMMA MovedCommands ==
    ASSUME ZodbTypeOK, NEW a \in Avatars, NEW source \in Avatars, a # source,
           NEW S, S \subseteq Objects, NEW order \in SetToSeqs(S),
           NEW q, q = MoveCommands(order, a, source), NEW C, C = Items(q)
    PROVE  /\ q \in Seq(Commands)
           /\ \A d \in C : \E o \in S : \/ d = DelLink(source, EventOf[o], RoleOf[o])
                                        \/ d = AddLink(a, EventOf[o], RoleOf[o])
           /\ \A o \in S : /\ DelLink(source, EventOf[o], RoleOf[o]) \in C
                           /\ AddLink(a, EventOf[o], RoleOf[o]) \in C
  <1>. DEFINE del(o) == DelLink(source, EventOf[o], RoleOf[o])
              add(o) == AddLink(a, EventOf[o], RoleOf[o])
  <1>1. /\ order \in Seq(S) /\ Len(order) \in Nat
        /\ \A x \in S : \E i \in 1 .. Len(order) : order[i] = x
    BY LinksAssumption, FS_Subset, OrderRange
  <1>2. \A i \in 1 .. 2 * Len(order) : order[(i + 1) \div 2] \in S
    <2>1. TAKE i \in 1 .. 2 * Len(order)
    <2>2. (i + 1) \div 2 \in 1 .. Len(order)
      BY <1>1
    <2>3. QED
      BY <1>1, <2>2
  <1>3. \A o \in S : del(o) \in Commands /\ add(o) \in Commands
    BY LinkCommands DEF Whole
  <1>. HIDE DEF del, add
  <1>4. q = [i \in 1 .. 2 * Len(order) |-> IF i % 2 = 1 THEN del(order[(i + 1) \div 2])
                                           ELSE add(order[(i + 1) \div 2])]
    BY DEF MoveCommands, del, add
  <1>5. 2 * Len(order) \in Nat
    BY <1>1
  <1>6. q \in [1 .. 2 * Len(order) -> Commands]
    BY <1>2, <1>3, <1>4
  <1>7. q \in Seq(Commands) /\ Len(q) = 2 * Len(order)
    BY <1>5, <1>6
  <1>8. \A d \in C : \E o \in S : d = del(o) \/ d = add(o)
    BY <1>2, <1>4, <1>7 DEF Items
  <1>9. ASSUME NEW o \in S
        PROVE  del(o) \in C /\ add(o) \in C
    <2>1. PICK j \in 1 .. Len(order) : order[j] = o
      BY <1>1
    <2>2. /\ 2 * j - 1 \in 1 .. 2 * Len(order) /\ (2 * j - 1) % 2 = 1
          /\ ((2 * j - 1) + 1) \div 2 = j
          /\ 2 * j \in 1 .. 2 * Len(order) /\ (2 * j) % 2 = 0 /\ (2 * j + 1) \div 2 = j
      BY <1>1
    <2>3. q[2 * j - 1] = del(o) /\ q[2 * j] = add(o)
      BY <1>4, <2>1, <2>2
    <2>4. QED
      BY <1>7, <2>2, <2>3 DEF Items
  <1>10. QED
    BY <1>7, <1>8, <1>9 DEF del, add

LEMMA MergeSane ==
    ASSUME MInv, NEW s \in Sessions, NEW a \in Avatars, NEW source \in Avatars,
           MergeAvatar(s, a, source)
    PROVE  \E K : Sane(s, K)
  <1>1. PICK moved : moved = Movable(source)
    OBVIOUS
  <1>2. PICK left, revived :
           /\ left = {EventOf[o] : o \in Reachable(source) \ Transferred}
           /\ revived = {EventOf[o] : o \in moved} \cap deleted
    OBVIOUS
  <1>3. PICK order \in SetToSeqs(moved) :
           LET commands == MoveCommands(order, a, source)
                 \o <<[op |-> "merge", avatar |-> a, source |-> source]>>
               raced == Raced(s, commands)
               wrong == {e \in Events : <<source, e>> \in excused \cup raced}
           IN  /\ Commit(s, commands)
               /\ excused' = (IF source \in torn THEN excused
                              ELSE excused \ ({source} \X Events))
                             \cup raced \cup ({a} \X (left \cup revived \cup wrong))
    BY <1>1, <1>2 DEF MergeAvatar
  <1>4. /\ a # source /\ a \notin gone /\ source \notin gone
        /\ gone' = gone \cup {source} /\ UNCHANGED <<date, deleted>>
        /\ linked' = (linked \ ({source} \X moved)) \cup ({a} \X moved)
    BY <1>1 DEF MergeAvatar
  <1>5. PICK c : c = [op |-> "merge", avatar |-> a, source |-> source]
    OBVIOUS
  <1>6. PICK q : q = MoveCommands(order, a, source)
    OBVIOUS
  <1>7. PICK K : K = q \o <<c>>
    OBVIOUS
  <1>8. PICK wrong : wrong = {e \in Events : <<source, e>> \in excused \cup Raced(s, K)}
    OBVIOUS
  <1>9. /\ Commit(s, K)
        /\ excused' = (IF source \in torn THEN excused
                       ELSE excused \ ({source} \X Events))
                      \cup Raced(s, K) \cup ({a} \X (left \cup revived \cup wrong))
    BY <1>3, <1>5, <1>6, <1>7, <1>8
  <1>10. c \in Commands /\ c.op = "merge" /\ c.avatar = a /\ c.source = source
    BY <1>4, <1>5 DEF Commands
  <1>11. moved \subseteq Objects /\ ZodbTypeOK
    BY <1>1, LinksAssumption DEF Movable, MInv, IInv
  <1>12. PICK C : C = Items(q)
    OBVIOUS
  <1>13. /\ q \in Seq(Commands)
         /\ \A d \in C : \E o \in moved : \/ d = DelLink(source, EventOf[o], RoleOf[o])
                                          \/ d = AddLink(a, EventOf[o], RoleOf[o])
         /\ \A o \in moved : /\ DelLink(source, EventOf[o], RoleOf[o]) \in C
                             /\ AddLink(a, EventOf[o], RoleOf[o]) \in C
    BY <1>4, <1>6, <1>11, <1>12, MovedCommands
  <1>14. K \in Seq(Commands) /\ K # <<>> /\ Last(K) = c /\ Earlier(K) = C
    BY <1>7, <1>10, <1>12, <1>13, AppendPipe
  <1>15. Formed(K)
    <2>1. \A d \in C : Leads(d, c)
      BY <1>10, <1>13 DEF Leads, DelLink, AddLink
    <2>2. QED
      BY <1>10, <1>14, <2>1 DEF Formed
  <1>16. ScopeOf(K) = {a, source} \X Events
    <2>1. ScopeOf(K) = Scope(c)
      BY <1>14, <1>15, ScopeOfShaped
    <2>2. QED
      BY <1>10, <2>1 DEF Scope, Pairs
  <1>17. \A e \in Events : /\ RolesOf(C, "add", e) = {RoleOf[o] : o \in {x \in moved : EventOf[x] = e}}
                           /\ RolesOf(C, "del", e) = {RoleOf[o] : o \in {x \in moved : EventOf[x] = e}}
                           /\ \A d \in C : d.op = "add" /\ d.event = e => d.date = date[e]
    <2>1. TAKE e \in Events
    <2>2. \A o : /\ DelLink(source, EventOf[o], RoleOf[o]).op = "del"
                 /\ DelLink(source, EventOf[o], RoleOf[o]).event = EventOf[o]
                 /\ DelLink(source, EventOf[o], RoleOf[o]).role = RoleOf[o]
                 /\ AddLink(a, EventOf[o], RoleOf[o]).op = "add"
                 /\ AddLink(a, EventOf[o], RoleOf[o]).event = EventOf[o]
                 /\ AddLink(a, EventOf[o], RoleOf[o]).role = RoleOf[o]
                 /\ AddLink(a, EventOf[o], RoleOf[o]).date = date[EventOf[o]]
      BY DEF DelLink, AddLink
    <2>3. ASSUME NEW op \in {"add", "del"}, NEW r \in RolesOf(C, op, e)
          PROVE  \E o \in moved : EventOf[o] = e /\ r = RoleOf[o]
      <3>1. PICK d \in C : d.op = op /\ d.event = e /\ r = d.role
        BY DEF RolesOf
      <3>2. PICK o \in moved : \/ d = DelLink(source, EventOf[o], RoleOf[o])
                               \/ d = AddLink(a, EventOf[o], RoleOf[o])
        BY <1>13
      <3>3. QED
        BY <2>2, <3>1, <3>2
    <2>4. ASSUME NEW o \in moved, EventOf[o] = e
          PROVE  RoleOf[o] \in RolesOf(C, "add", e) /\ RoleOf[o] \in RolesOf(C, "del", e)
      <3>1. PICK d \in C : d = DelLink(source, EventOf[o], RoleOf[o])
        BY <1>13
      <3>2. PICK b \in C : b = AddLink(a, EventOf[o], RoleOf[o])
        BY <1>13
      <3>3. /\ d.op = "del" /\ d.event = e /\ d.role = RoleOf[o]
            /\ b.op = "add" /\ b.event = e /\ b.role = RoleOf[o]
        BY <2>2, <2>4, <3>1, <3>2
      <3>4. QED
        BY <3>3 DEF RolesOf
    <2>5. \A d \in C : d.op = "add" /\ d.event = e => d.date = date[e]
      BY <1>13, <2>2
    <2>6. QED
      BY <2>3, <2>4, <2>5
  <1>18. ASSUME NEW b \in Avatars, NEW e \in Events
         PROVE  /\ b = source => Expected(b, e)' = {}
                /\ b # source /\ b # a => Expected(b, e)' = Expected(b, e)
                /\ b = a /\ e \notin revived =>
                      Expected(b, e)' = Expected(b, e) \cup RolesOf(C, "add", e)
    <2>1. CASE b = source
      BY <1>4, <2>1 DEF Expected
    <2>2. CASE b # source /\ b # a
      <3>1. LinkedRoles(b, e)' = LinkedRoles(b, e)
        BY <1>4, <2>2 DEF LinkedRoles
      <3>2. QED
        BY <1>4, <2>2, <3>1 DEF Expected
    <2>3. CASE b = a /\ e \notin revived
      <3>1. CASE e \in deleted
        <4>1. \A o \in moved : EventOf[o] # e
          BY <1>2, <2>3, <3>1
        <4>2. RolesOf(C, "add", e) = {}
          BY <1>17, <4>1
        <4>3. QED
          BY <1>4, <2>3, <3>1, <4>2 DEF Expected
      <3>2. CASE e \notin deleted
        <4>1. \A o : <<a, o>> \in linked' <=> <<a, o>> \in linked \/ o \in moved
          BY <1>4
        <4>2. \A r : r \in LinkedRoles(a, e)' <=>
                 \E o \in Objects : <<a, o>> \in linked' /\ EventOf[o] = e /\ r = RoleOf[o]
          BY DEF LinkedRoles
        <4>3. \A r : r \in LinkedRoles(a, e) <=>
                 \E o \in Objects : <<a, o>> \in linked /\ EventOf[o] = e /\ r = RoleOf[o]
          BY DEF LinkedRoles
        <4>4. \A r : r \in RolesOf(C, "add", e) <=>
                 \E o \in moved : EventOf[o] = e /\ r = RoleOf[o]
          BY <1>17
        <4>5. \A r : r \in LinkedRoles(a, e)' <=>
                 r \in LinkedRoles(a, e) \/ r \in RolesOf(C, "add", e)
          BY <1>11, <4>1, <4>2, <4>3, <4>4
        <4>6. LinkedRoles(a, e)' = LinkedRoles(a, e) \cup RolesOf(C, "add", e)
          BY <4>5
        <4>7. QED
          BY <1>4, <2>3, <3>2, <4>6 DEF Expected
      <3>3. QED
        BY <3>1, <3>2
    <2>4. QED
      BY <2>1, <2>2, <2>3
  <1>19. ASSUME NEW b \in Avatars \ torn, NEW e \in Events,
                <<b, e>> \notin excused', <<b, e>> \in ScopeOf(K)
         PROVE  Right(K, b, e)'
    <2>1. CASE b = source
      <3>1. Expected(b, e)' = {}
        BY <1>18, <2>1
      <3>2. QED
        BY <1>4, <1>10, <1>14, <2>1, <3>1 DEF Right
    <2>2. CASE b = a
      <3>1. /\ e \notin left /\ e \notin revived /\ e \notin wrong
            /\ <<a, e>> \notin excused /\ <<a, e>> \notin Raced(s, K)
        BY <1>4, <1>9, <1>19, <2>2
      <3>2. roles[a][e] = Expected(a, e) /\ Dated(a, e)
        BY <1>9, <1>19, <2>2, <3>1, Quiet DEF Commit
      <3>3. UNCHANGED <<score, roles, torn, date>>
        BY <1>4, <1>9 DEF Commit, redis
      <3>4. Expected(a, e)' = roles'[a][e] \cup RolesOf(C, "add", e) /\ Dated(a, e)'
        BY <1>18, <3>1, <3>2, <3>3 DEF Dated
      <3>5. ASSUME source \notin torn
            PROVE  roles[source][e] \subseteq RolesOf(C, "del", e)
        <4>1. <<source, e>> \notin excused /\ <<source, e>> \notin Raced(s, K)
              /\ <<source, e>> \in ScopeOf(K)
          BY <1>8, <1>16, <3>1
        <4>2. roles[source][e] = Expected(source, e)
          BY <1>9, <3>5, <4>1, Quiet DEF Commit
        <4>3. \A o \in Objects : <<source, o>> \in linked /\ EventOf[o] = e /\ e \notin deleted
                                    => o \in moved
          BY <1>1, <1>2, <3>1 DEF Reachable, Movable
        <4>4. Expected(source, e) \subseteq {RoleOf[o] : o \in {x \in moved : EventOf[x] = e}}
          BY <4>3 DEF Expected, LinkedRoles
        <4>5. QED
          BY <1>17, <4>2, <4>4
      <3>6. \A d \in C : d.op = "add" /\ d.event = e => d.date = date'[e]
        BY <1>17, <3>3
      <3>7. source \notin torn' => roles'[source][e] \subseteq RolesOf(C, "del", e)
        BY <3>3, <3>5
      <3>8. QED
        BY <1>4, <1>10, <1>14, <2>2, <3>4, <3>6, <3>7 DEF Right
    <2>3. QED
      BY <1>16, <1>19, <2>1, <2>2
  <1>20. Raced(s, K) \subseteq excused'
    BY <1>9
  <1>21. \A b \in Avatars, e \in Events : <<b, e>> \notin excused' /\ <<b, e>> \notin ScopeOf(K) =>
            /\ <<b, e>> \notin excused
            /\ Expected(b, e)' = Expected(b, e) /\ date'[e] = date[e]
    BY <1>4, <1>9, <1>16, <1>18
  <1>22. \A e \in Events : <<a, e>> \notin excused' => <<source, e>> \notin excused'
    <2>1. ASSUME NEW e \in Events, <<a, e>> \notin excused'
          PROVE  <<source, e>> \notin excused'
      <3>1. <<source, e>> \notin excused /\ <<source, e>> \notin Raced(s, K)
        BY <1>8, <1>9, <2>1
      <3>2. QED
        BY <1>4, <1>9, <3>1
    <2>2. QED
      BY <2>1
  <1>23. \A b \in gone, e \in Events :
            /\ <<b, e>> \notin ScopeOf(K)
            /\ <<b, e>> \in excused' => <<b, e>> \in excused \cup Raced(s, K)
    BY <1>4, <1>9, <1>16
  <1>24. gone \subseteq gone' /\ source \in gone'
    BY <1>4
  <1>25. Sane(s, K)
    BY <1>9, <1>10, <1>14, <1>15, <1>19, <1>20, <1>21, <1>22, <1>23, <1>24 DEF Sane
  <1>26. QED
    BY <1>25

-------------------------------------------------------------------------------
(* The mirror is inductive *)

LEMMA MirrorStart ==
    ASSUME Init
    PROVE  MInv
  <1>1. \A s \in Sessions : pipe[s] = <<>> /\ Pending(s) = {}
    BY DEF Init, Pending, ScopeOf
  <1>2. Shaped /\ Owned /\ Carried
    BY <1>1 DEF Shaped, Formed, Owned, Carried
  <1>3. \A a \in Avatars, e \in Events :
           roles[a][e] = {} /\ Expected(a, e) = {} /\ Dated(a, e)
    BY DEF Init, Expected, LinkedRoles, Dated, NoEvents
  <1>4. Mirror
    BY <1>1, <1>3 DEF Mirror
  <1>5. QED
    BY <1>2, <1>4, Start DEF MInv

LEMMA MirrorStep ==
    ASSUME MInv, [Next]_vars
    PROVE  MInv'
  <1>1. IInv'
    BY Step DEF MInv
  <1>2. CASE UNCHANGED vars
    <2>1. UNCHANGED <<linked, date, deleted, gone, members, score, roles, pipe, torn, excused>>
      BY <1>2 DEF vars, zodb, redis
    <2>2. \A s \in Sessions : Pending(s)' = Pending(s)
      BY <2>1 DEF Pending
    <2>3. \A a \in Avatars, e \in Events :
             Expected(a, e)' = Expected(a, e) /\ (Dated(a, e)' <=> Dated(a, e))
      BY <2>1 DEF Expected, LinkedRoles, Dated
    <2>4. Shaped' /\ Owned' /\ Carried'
      BY <2>1, <2>2 DEF MInv, Shaped, Formed, Owned, Carried
    <2>5. \A a \in Avatars, e \in Events, s \in Sessions :
             Right(pipe[s], a, e) => Right(pipe[s], a, e)'
      <3>1. TAKE a \in Avatars, e \in Events, s \in Sessions
      <3>2. PICK q : q = pipe[s]
        OBVIOUS
      <3>3. Right(q, a, e) => Right(q, a, e)'
        BY <2>1, <2>3, RightKept
      <3>4. QED
        BY <2>1, <3>2, <3>3 DEF Right
    <2>6. Mirror'
      BY <2>1, <2>2, <2>3, <2>5 DEF MInv, Mirror
    <2>7. QED
      BY <1>1, <2>4, <2>6 DEF MInv
  <1>3. ASSUME NEW s \in Sessions, \E K : Sane(s, K)
        PROVE  MInv'
    BY <1>1, <1>3, RequestMirrors DEF MInv
  <1>4. ASSUME NEW s \in Sessions, NEW a \in Avatars, NEW o \in Objects,
               LinkTo(s, a, o) \/ UnlinkTo(s, a, o)
        PROVE  MInv'
    BY <1>3, <1>4, LinkSane, UnlinkSane
  <1>5. ASSUME NEW s \in Sessions, NEW e \in Events,
               DeleteEvent(s, e) \/ \E t \in Dates : MoveEvent(s, e, t)
        PROVE  MInv'
    BY <1>3, <1>5, DeleteSane, MoveSane
  <1>6. ASSUME NEW s \in Sessions, NEW a \in Avatars, NEW source \in Avatars,
               MergeAvatar(s, a, source)
        PROVE  MInv'
    BY <1>3, <1>6, MergeSane
  <1>7. ASSUME NEW s \in Sessions, NEW a \in Avatars, RefreshLinks(s, a)
        PROVE  MInv'
    BY <1>3, <1>7, RefreshSane
  <1>8. ASSUME NEW s \in Sessions, Execute(s) \/ LosePipeline(s)
        PROVE  MInv'
    BY <1>1, <1>8, ExecuteMirror, LoseMirror DEF MInv
  <1>9. QED
    BY <1>2, <1>4, <1>5, <1>6, <1>7, <1>8 DEF Next

LEMMA MirrorInvariant == Spec => []MInv
  <1>1. Init => MInv
    BY MirrorStart
  <1>2. MInv /\ [Next]_vars => MInv'
    BY MirrorStep
  <1>3. QED
    BY <1>1, <1>2, PTL DEF Spec

-------------------------------------------------------------------------------
(* Theorems *)

\* Every state of the links is of its type: the scripts write sets, scores and
\* roles only (avatar_links.py and its Lua scripts).
THEOREM LinksTypes == Spec => []TypeOK
  <1>1. IInv => TypeOK
    BY DEF IInv, TypeOK, RestTypeOK, PipeTypeOK
  <1>2. QED
    BY <1>1, Invariant, PTL

\* For any number of avatars, events and requests, the two directions of the links
\* and the roles agree, but for links that were touched while init_links rebuilt
\* them by plain commands.
THEOREM SymmetricCorrect == Spec => []Symmetric
  <1>1. IInv => Symmetric
    BY DEF IInv, Built, Symmetric, Agree
  <1>2. QED
    BY <1>1, Invariant, PTL

\* Where nothing is under way and nothing went wrong, the roles Redis shows for an
\* avatar and an event are those of the ZODB (avatar_links.py after
\* MaKaC/user.py linkTo, unlinkTo and mergeAvatar, Conference.delete and the
\* refresh of the links), for any number of requests in any order.
THEOREM RolesMirroredCorrect == Spec => []RolesMirrored
  <1>1. MInv => RolesMirrored
    BY DEF MInv, Mirror, RolesMirrored, Settled, Expected
  <1>2. QED
    BY <1>1, MirrorInvariant, PTL

\* The score of a linked event is its start date, however often it was moved
\* (avatar_links.update_event_time), where nothing is under way or went wrong.
THEOREM DatesMirroredCorrect == Spec => []DatesMirrored
  <1>1. MInv => DatesMirrored
    BY DEF MInv, Mirror, DatesMirrored, Settled, Dated
  <1>2. QED
    BY <1>1, MirrorInvariant, PTL
===============================================================================
