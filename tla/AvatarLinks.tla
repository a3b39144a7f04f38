------------------------------ MODULE AvatarLinks ------------------------------
(***************************************************************************)
(* The links between avatars and events that Redis mirrors from the        *)
(* linkedTo sets of the ZODB.  A request changes the ZODB and fills a      *)
(* pipeline; the pipeline runs after the commit, command by command and    *)
(* interleaved with those of other requests, or is lost.  Each Lua script  *)
(* is one atomic command.                                                  *)
(***************************************************************************)
EXTENDS Integers, FiniteSets, Sequences, SequencesExt

CONSTANTS
  Avatars, Events,
  Objects,       \* what an avatar has a role in: an event or something inside it
  EventOf,       \* the event of an object
  RoleOf,        \* the key_role string of a link to an object
  Transferred,   \* objects whose links mergeAvatar moves
  Checked,       \* those of them it leaves alone when their event was deleted
  Revoked,       \* objects whose links an event's deletion removes
  Dates,
  Sessions,      \* requests at a time
  MaxRequests,   \* bound on the requests
  None           \* no score

Roles == {RoleOf[o] : o \in Objects}

ASSUME LinksAssumption ==
    /\ IsFiniteSet(Avatars) /\ IsFiniteSet(Objects) /\ Events # {}
    /\ EventOf \in [Objects -> Events]
    /\ Transferred \subseteq Objects /\ Revoked \subseteq Objects
    /\ Checked \subseteq Transferred
    /\ Dates \subseteq Nat
    /\ MaxRequests \in Nat
    /\ None \notin Nat

VARIABLES
  linked,     \* linkedTo: the pairs of an avatar and an object
  date,       \* start dates of the events
  deleted,    \* events that are gone
  gone,       \* avatars that were merged into another
  members,    \* event_avatars:e
  score,      \* avatar_events:a, the score of each event or None
  roles,      \* avatar_event_roles:a:e
  pipe,       \* the commands each request has still to send
  torn,       \* avatars another command touched while their links were rebuilt
  excused,    \* pairs of an avatar and an event whose entry may be wrong
  requests    \* number of requests so far

zodb == <<linked, date, deleted, gone>>
redis == <<members, score, roles>>
vars == <<zodb, redis, pipe, torn, excused, requests>>

Pairs == Avatars \X Events
NoEvents == [e \in Events |-> None]
Scores == Nat \cup {None}

Commands ==
    [op : {"add"}, avatar : Avatars, event : Events, date : Nat, role : Roles]
    \cup [op : {"del"}, avatar : Avatars, event : Events, role : Roles]
    \cup [op : {"delete_avatar"}, avatar : Avatars]
    \cup [op : {"delete_event"}, event : Events]
    \cup [op : {"update_time"}, event : Events, date : Nat]
    \cup {c \in [op : {"merge"}, avatar : Avatars, source : Avatars] :
              c.avatar # c.source}
    \cup {c \in [op : {"enlist", "place", "grant"}, avatar : Avatars,
                 dates : [Events -> Scores], roles : [Events -> SUBSET Roles]] :
              \A e \in Events : c.dates[e] # None <=> c.roles[e] # {}}

ZodbTypeOK ==
    /\ linked \subseteq Avatars \X Objects
    /\ date \in [Events -> Dates]
    /\ deleted \subseteq Events /\ gone \subseteq Avatars

RedisTypeOK ==
    /\ members \in [Events -> SUBSET Avatars]
    /\ score \in [Avatars -> [Events -> Scores]]
    /\ roles \in [Avatars -> [Events -> SUBSET Roles]]

PipeTypeOK == pipe \in [Sessions -> Seq(Commands)]

TypeOK ==
    /\ ZodbTypeOK /\ RedisTypeOK /\ PipeTypeOK
    /\ torn \subseteq Avatars /\ excused \subseteq Pairs
    /\ requests \in 0 .. MaxRequests

Init ==
    /\ linked = {}
    /\ date \in [Events -> Dates]
    /\ deleted = {} /\ gone = {}
    /\ members = [e \in Events |-> {}]
    /\ score = [a \in Avatars |-> NoEvents]
    /\ roles = [a \in Avatars |-> [e \in Events |-> {}]]
    /\ pipe = [s \in Sessions |-> <<>>]
    /\ torn = {} /\ excused = {}
    /\ requests = 0

-------------------------------------------------------------------------------
(* Commands *)

AddLink(a, e, role) ==
    [op |-> "add", avatar |-> a, event |-> e, date |-> date[e], role |-> role]

DelLink(a, e, role) == [op |-> "del", avatar |-> a, event |-> e, role |-> role]

\* The pairs a command may change.
Scope(c) ==
    {p \in Pairs :
        \/ c.op \in {"add", "del"} /\ p = <<c.avatar, c.event>>
        \/ c.op \in {"delete_event", "update_time"} /\ p[2] = c.event
        \/ c.op = "merge" /\ p[1] \in {c.avatar, c.source}
        \/ c.op \in {"delete_avatar", "enlist", "place", "grant"} /\ p[1] = c.avatar}

ScopeOf(commands) == UNION {Scope(commands[i]) : i \in DOMAIN commands}

Pending(s) == ScopeOf(pipe[s])

\* A request of s commits to the ZODB: its commands come next.  What requests
\* that are under way touch as well may be written in either order.
Commit(s, commands) ==
    /\ pipe[s] = <<>> /\ requests < MaxRequests
    /\ requests' = requests + 1
    /\ pipe' = [pipe EXCEPT ![s] = commands]
    /\ UNCHANGED <<redis, torn>>

Raced(s, commands) ==
    ScopeOf(commands) \cap UNION {Pending(t) : t \in Sessions \ {s}}

-------------------------------------------------------------------------------
(* Requests *)

LinkTo(s, a, o) ==
    /\ a \notin gone /\ EventOf[o] \notin deleted
    /\ linked' = linked \cup {<<a, o>>}
    /\ LET commands == <<AddLink(a, EventOf[o], RoleOf[o])>>
       IN  Commit(s, commands) /\ excused' = excused \cup Raced(s, commands)
    /\ UNCHANGED <<date, deleted, gone>>

\* Another object of the event that gives the avatar the same role: Redis has
\* one entry for the two.
Sibling(a, o) ==
    \E other \in Objects \ {o} : /\ <<a, other>> \in linked
                                 /\ EventOf[other] = EventOf[o]
                                 /\ RoleOf[other] = RoleOf[o]

UnlinkTo(s, a, o) ==
    /\ a \notin gone /\ EventOf[o] \notin deleted /\ <<a, o>> \in linked
    /\ linked' = linked \ {<<a, o>>}
    /\ LET commands == <<DelLink(a, EventOf[o], RoleOf[o])>>
       IN  /\ Commit(s, commands)
           /\ excused' = excused \cup Raced(s, commands)
                \cup (IF Sibling(a, o) THEN {<<a, EventOf[o]>>} ELSE {})
    /\ UNCHANGED <<date, deleted, gone>>

MoveEventToOldDate(s, e, t) ==
    /\ e \notin deleted
    /\ date' = [date EXCEPT ![e] = t]
    /\ LET commands == <<[op |-> "update_time", event |-> e, date |-> date[e]]>>
       IN  Commit(s, commands) /\ excused' = excused \cup Raced(s, commands)
    /\ UNCHANGED <<linked, deleted, gone>>

MoveEvent(s, e, t) ==
    /\ e \notin deleted
    /\ date' = [date EXCEPT ![e] = t]
    /\ LET commands == <<[op |-> "update_time", event |-> e, date |-> t]>>
       IN  Commit(s, commands) /\ excused' = excused \cup Raced(s, commands)
    /\ UNCHANGED <<linked, deleted, gone>>

DelCommands(order, e) ==
    [i \in 1 .. Len(order) |-> DelLink(order[i][1], e, RoleOf[order[i][2]])]

\* Conference.delete: managers and creator are unlinked, in any order, the others
\* keep links to an event that is gone.  The script removes whatever is there.
DeleteEvent(s, e) ==
    LET ended == {p \in linked : p[2] \in Revoked /\ EventOf[p[2]] = e
                                 /\ p[1] \notin gone}
    IN  /\ e \notin deleted
        /\ deleted' = deleted \cup {e}
        /\ linked' = linked \ ended
        /\ \E order \in SetToSeqs(ended) :
              LET commands == DelCommands(order, e)
                              \o <<[op |-> "delete_event", event |-> e]>>
              IN  /\ Commit(s, commands)
                  /\ excused' = (excused \ ((Avatars \ torn) \X {e}))
                                \cup Raced(s, commands)
        /\ UNCHANGED <<date, gone>>

\* Objects of events that still exist.
Reachable(a) == {o \in Objects : <<a, o>> \in linked /\ EventOf[o] \notin deleted}

\* What mergeAvatar takes from a: it looks for deleted events when it comes to
\* conferences and sessions, and not when it comes to what else is in an event.
Movable(a) == {o \in Transferred : /\ <<a, o>> \in linked
                                   /\ o \in Checked => EventOf[o] \notin deleted}

\* Each object is taken from one avatar and given to the other.
MoveCommands(order, a, source) ==
    [i \in 1 .. 2 * Len(order) |->
        LET o == order[(i + 1) \div 2]
        IN  IF i % 2 = 1 THEN DelLink(source, EventOf[o], RoleOf[o])
            ELSE AddLink(a, EventOf[o], RoleOf[o])]

\* AvatarHolder.mergeAvatar moves the roles it knows of, in any order, and then
\* lets the script move what is left in Redis.  A role that is moved inside a
\* deleted event is a link in Redis again.
MergeAvatar(s, a, source) ==
    LET moved == Movable(source)
        left == {EventOf[o] : o \in Reachable(source) \ Transferred}
        revived == {EventOf[o] : o \in moved} \cap deleted
    IN  /\ a # source /\ {a, source} \cap gone = {}
        /\ gone' = gone \cup {source}
        /\ linked' = (linked \ ({source} \X moved)) \cup ({a} \X moved)
        /\ \E order \in SetToSeqs(moved) :
              LET commands == MoveCommands(order, a, source)
                    \o <<[op |-> "merge", avatar |-> a, source |-> source]>>
                  raced == Raced(s, commands)
                  wrong == {e \in Events : <<source, e>> \in excused \cup raced}
              IN  /\ Commit(s, commands)
                  /\ excused' = (IF source \in torn THEN excused
                                 ELSE excused \ ({source} \X Events))
                                \cup raced \cup ({a} \X (left \cup revived \cup wrong))
        /\ UNCHANGED <<date, deleted>>

\* init_links: dates and roles of the events in linkedTo, deleted ones included.
LinkedEvents(a) == {EventOf[o] : o \in {x \in Objects : <<a, x>> \in linked}}

LinkedRoles(a, e) ==
    {RoleOf[o] : o \in {x \in Objects : <<a, x>> \in linked /\ EventOf[x] = e}}

\* UserRefreshRedisLinks: delete_avatar, then init_links, whose commands are no
\* script: all SADDs to events, one ZADD, all SADDs of roles.
RefreshLinks(s, a) ==
    LET init == [op |-> "enlist", avatar |-> a,
                 dates |-> [e \in Events |-> IF e \in LinkedEvents(a) THEN date[e]
                                             ELSE None],
                 roles |-> [e \in Events |-> LinkedRoles(a, e)]]
        commands == <<[op |-> "delete_avatar", avatar |-> a], init>>
    IN  /\ a \notin gone
        /\ Commit(s, commands)
        /\ excused' = (IF a \in torn THEN excused ELSE excused \ ({a} \X Events))
                      \cup Raced(s, commands)
                      \cup ({a} \X (LinkedEvents(a) \cap deleted))
        /\ UNCHANGED zodb

-------------------------------------------------------------------------------
(* Redis *)

Listed(a) == {e \in Events : score[a][e] # None}

AddSwapped(c) ==
    /\ c.op = "add"
    /\ members' = [members EXCEPT ![c.event] = @ \cup {c.avatar}]
    /\ score' = [score EXCEPT ![c.avatar][c.event] = c.event]
    /\ roles' = [roles EXCEPT ![c.avatar][c.event] = @ \cup {c.role}]

Add(c) ==
    /\ c.op = "add"
    /\ members' = [members EXCEPT ![c.event] = @ \cup {c.avatar}]
    /\ score' = [score EXCEPT ![c.avatar][c.event] = c.date]
    /\ roles' = [roles EXCEPT ![c.avatar][c.event] = @ \cup {c.role}]

DelWholeLink(c) ==
    /\ c.op = "del"
    /\ roles' = [roles EXCEPT ![c.avatar][c.event] = {}]
    /\ members' = [members EXCEPT ![c.event] = @ \ {c.avatar}]
    /\ score' = [score EXCEPT ![c.avatar][c.event] = None]

\* With the last role the avatar and the event are no longer linked.
Del(c) ==
    /\ c.op = "del"
    /\ roles' = [roles EXCEPT ![c.avatar][c.event] = @ \ {c.role}]
    /\ IF roles[c.avatar][c.event] \subseteq {c.role}
       THEN /\ members' = [members EXCEPT ![c.event] = @ \ {c.avatar}]
            /\ score' = [score EXCEPT ![c.avatar][c.event] = None]
       ELSE UNCHANGED <<members, score>>

DeleteAvatar(c) ==
    /\ c.op = "delete_avatar"
    /\ members' = [e \in Events |-> IF e \in Listed(c.avatar)
                                    THEN members[e] \ {c.avatar} ELSE members[e]]
    /\ roles' = [roles EXCEPT ![c.avatar] =
                    [e \in Events |-> IF e \in Listed(c.avatar) THEN {}
                                      ELSE roles[c.avatar][e]]]
    /\ score' = [score EXCEPT ![c.avatar] = NoEvents]

RemoveEventKeepingRoles(c) ==
    /\ c.op = "delete_event"
    /\ score' = [a \in Avatars |-> IF a \in members[c.event]
                                   THEN [score[a] EXCEPT ![c.event] = None]
                                   ELSE score[a]]
    /\ members' = [members EXCEPT ![c.event] = {}]
    /\ UNCHANGED roles

RemoveEvent(c) ==
    /\ c.op = "delete_event"
    /\ score' = [a \in Avatars |-> IF a \in members[c.event]
                                   THEN [score[a] EXCEPT ![c.event] = None]
                                   ELSE score[a]]
    /\ roles' = [a \in Avatars |-> IF a \in members[c.event]
                                   THEN [roles[a] EXCEPT ![c.event] = {}]
                                   ELSE roles[a]]
    /\ members' = [members EXCEPT ![c.event] = {}]

UpdateTime(c) ==
    /\ c.op = "update_time"
    /\ score' = [a \in Avatars |->
                    IF a \in members[c.event] /\ score[a][c.event] # None
                    THEN [score[a] EXCEPT ![c.event] = c.date]
                    ELSE score[a]]
    /\ UNCHANGED <<members, roles>>

\* The union of the two mappings weighs the source with 0: an event that only the
\* source was linked to gets the score 0.
Merge(c) ==
    /\ c.op = "merge"
    /\ members' = [e \in Events |-> IF e \in Listed(c.source)
                                    THEN (members[e] \ {c.source}) \cup {c.avatar}
                                    ELSE members[e]]
    /\ roles' = [roles EXCEPT
            ![c.avatar] = [e \in Events |->
                IF e \in Listed(c.source)
                THEN roles[c.avatar][e] \cup roles[c.source][e]
                ELSE roles[c.avatar][e]],
            ![c.source] = [e \in Events |->
                IF e \in Listed(c.source) THEN {} ELSE roles[c.source][e]]]
    /\ score' = [score EXCEPT
            ![c.avatar] = [e \in Events |->
                IF score[c.avatar][e] = None /\ e \in Listed(c.source) THEN 0
                ELSE score[c.avatar][e]],
            ![c.source] = NoEvents]

\* The three parts of init_links.
Placed(c) == {e \in Events : c.dates[e] # None}

Enlist(c) ==
    /\ c.op = "enlist"
    /\ members' = [e \in Events |-> IF e \in Placed(c)
                                    THEN members[e] \cup {c.avatar} ELSE members[e]]
    /\ UNCHANGED <<score, roles>>

Place(c) ==
    /\ c.op = "place"
    /\ score' = [score EXCEPT ![c.avatar] =
                    [e \in Events |-> IF e \in Placed(c) THEN c.dates[e]
                                      ELSE score[c.avatar][e]]]
    /\ UNCHANGED <<members, roles>>

Grant(c) ==
    /\ c.op = "grant"
    /\ roles' = [roles EXCEPT ![c.avatar] =
                    [e \in Events |-> roles[c.avatar][e] \cup c.roles[e]]]
    /\ UNCHANGED <<members, score>>

Perform(c) ==
    \/ Add(c) \/ Del(c) \/ DeleteAvatar(c) \/ RemoveEvent(c)
    \/ UpdateTime(c) \/ Merge(c) \/ Enlist(c) \/ Place(c) \/ Grant(c)

\* What a pipeline sends after its first command.
Rest(commands) ==
    LET c == Head(commands)
    IN  CASE c.op = "enlist" -> <<[c EXCEPT !.op = "place"]>> \o Tail(commands)
          [] c.op = "place"  -> <<[c EXCEPT !.op = "grant"]>> \o Tail(commands)
          [] OTHER           -> Tail(commands)

\* Request s is rebuilding the links of a at this moment.
Rebuilding(s, a) ==
    /\ pipe[s] # <<>> /\ Head(pipe[s]).op \in {"place", "grant"}
    /\ Head(pipe[s]).avatar = a

HalfBuilt(S) == {a \in Avatars : \E s \in S : Rebuilding(s, a)}

\* A command that meets half-built links may leave some of them in one direction
\* only, and a merge carries that on.
TornBy(s, c) ==
    LET met == torn \cup {a \in HalfBuilt(Sessions \ {s}) :
                             \E e \in Events : <<a, e>> \in Scope(c)}
    IN  IF c.op = "merge" /\ c.source \in met THEN met \cup {c.avatar} ELSE met

Execute(s) ==
    /\ pipe[s] # <<>>
    /\ LET c == Head(pipe[s])
       IN  Perform(c) /\ torn' = TornBy(s, c)
    /\ pipe' = [pipe EXCEPT ![s] = Rest(@)]
    /\ UNCHANGED <<zodb, excused, requests>>

\* Redis fails or the process dies after the ZODB commit.
LosePipeline(s) ==
    /\ pipe[s] # <<>>
    /\ pipe' = [pipe EXCEPT ![s] = <<>>]
    /\ excused' = excused \cup Pending(s)
    /\ torn' = torn \cup HalfBuilt({s})
    /\ UNCHANGED <<zodb, redis, requests>>

Next ==
    \E s \in Sessions :
        \/ \E a \in Avatars, o \in Objects : LinkTo(s, a, o) \/ UnlinkTo(s, a, o)
        \/ \E e \in Events : DeleteEvent(s, e) \/ \E t \in Dates : MoveEvent(s, e, t)
        \/ \E a, source \in Avatars : MergeAvatar(s, a, source)
        \/ \E a \in Avatars : RefreshLinks(s, a)
        \/ Execute(s) \/ LosePipeline(s)

Spec == Init /\ [][Next]_vars

-------------------------------------------------------------------------------
(* What the links guarantee *)

\* The two directions and the roles agree on who is linked to what, in whatever
\* order scripts run and whatever is lost: only links that were being rebuilt by
\* plain commands can be torn.
Symmetric ==
    \A a \in Avatars \ (torn \cup HalfBuilt(Sessions)), e \in Events :
        /\ a \in members[e] <=> score[a][e] # None
        /\ a \in members[e] <=> roles[a][e] # {}

\* Nothing is under way for a pair, and nothing has gone wrong with it.
Settled(a, e) ==
    /\ <<a, e>> \notin excused /\ a \notin torn
    /\ \A s \in Sessions : <<a, e>> \notin Pending(s)

\* The roles in Redis are those of the ZODB, none for a deleted event or a merged
\* avatar.  What may be wrong: pairs two requests wrote at a time, pairs whose
\* pipeline was lost, a role of two objects after one of them was unlinked, links
\* that a merge does not move, and links to deleted events: a refresh builds those in
\* linkedTo anew, and so does a merge that moves roles inside a deleted event.  The
\* deletion of the event, the merge of the avatar and a refresh put pairs right.
RolesMirrored ==
    \A a \in Avatars, e \in Events :
        Settled(a, e) =>
            roles[a][e] = IF e \in deleted \/ a \in gone THEN {}
                          ELSE LinkedRoles(a, e)

\* The score of a linked event is its start date, however often it was moved.
DatesMirrored ==
    \A a \in Avatars, e \in Events :
        Settled(a, e) /\ score[a][e] # None => score[a][e] = date[e]
===============================================================================
