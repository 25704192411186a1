-------------------------------- MODULE Forum --------------------------------
(***************************************************************************)
(* A post in a forum room of the hub client: the reactions to its comments  *)
(* (Reaction.vue), those of them that are votes (ForumVote.vue, votes.ts),  *)
(* and the order in which ForumPostView.vue shows the comments.  The        *)
(* clients are devices of one user; taking a vote back deletes the          *)
(* reaction.  One of the clients, Viewer, has the post open; comments come  *)
(* to it in any order.  Comments are numbered by their time.                *)
(***************************************************************************)
EXTENDS Integers, Sequences, FiniteSets

CONSTANTS Clients, Viewer,
          MaxComments, \* bound on comments
          Voted,       \* comments that are voted on
          MaxVotes,    \* bound on clicks on a vote
          MaxFaults,   \* bound on failing requests
          MaxOpens     \* bound on visits of the post

VARIABLES
  parent,    \* parent[m]: the comment that m answers, 0 for none
  held, gone,          \* at Viewer: comments it knows of, and those it knows to be deleted
  open, frozen, ranks, \* ForumPostView: on the screen; sortRanks set; and its value
  settling,  \* settleTimer and settleCapTimer run
  log,       \* at the hub: reactions and their deletions
  told,      \* told[c]: how much of the log has come to c
  hidden,    \* redactedEventIds of c
  ops,       \* calls of vote that wait
  votes, faults, opens

treeVars == <<parent, held, gone>>
viewVars == <<open, frozen, ranks, settling, opens>>
voteVars == <<log, told, hidden, ops, votes, faults>>
forumVars == <<treeVars, viewVars, voteVars>>

Comments == 1 .. MaxComments
VoteKey == {"up", "down"}
Emoji == "other"
Adds == {i \in DOMAIN log : log[i].op = "add"}

ForumTypeOK ==
  /\ \A m \in Comments : parent[m] < m
  /\ gone \subseteq held /\ held \subseteq Comments
  /\ DOMAIN ranks \subseteq held /\ (settling => open /\ ~frozen)
  /\ \A c \in Clients : told[c] \in 0 .. Len(log) /\ hidden[c] \subseteq Adds
  /\ \A o \in ops : o.by \in Clients /\ o.on \in Comments /\ o.key \in VoteKey \cup {Emoji, "none"}
  /\ \A o, p \in ops : o.by = p.by /\ o.on = p.on /\ ~o.emoji /\ ~p.emoji => o = p

ForumInit ==
  /\ parent \in [Comments -> 0 .. MaxComments - 1] /\ \A m \in Comments : parent[m] < m
  /\ held = {} /\ gone = {} /\ open = FALSE /\ frozen = FALSE /\ ranks = <<>> /\ settling = FALSE
  /\ log = <<>> /\ told = [c \in Clients |-> 0] /\ hidden = [c \in Clients |-> {}] /\ ops = {}
  /\ votes = 0 /\ faults = 0 /\ opens = 0

-----------------------------------------------------------------------------
(* Votes.                                                                  *)

\* What c shows of the reactions to m, and getVoteEvents.
Reactions(c, m) == {i \in Adds : i <= told[c] /\ log[i].on = m} \ hidden[c]
VoteEvents(c, m) == {i \in Reactions(c, m) : log[i].key \in VoteKey}
AtHub(m) == {i \in Adds : log[i].on = m /\ \A j \in DOMAIN log : log[j].op = "redact" => log[j].id # i}

\* tallyVotes, of one user.
VoteScore(c, m) ==
  LET keys == {log[i].key : i \in VoteEvents(c, m)} IN
  (IF "up" \in keys THEN 1 ELSE 0) - (IF "down" \in keys THEN 1 ELSE 0)

\* vote: the opposite votes are taken back first, then the same ones, or else a
\* vote is added.  While a call waits the buttons of that client do nothing.
Vote(c, m, key) ==
  LET mine == VoteEvents(c, m)
      same == {i \in mine : log[i].key = key}
  IN
  /\ votes < MaxVotes /\ votes' = votes + 1 /\ (c = Viewer => m \in held)
  /\ \A o \in ops : o.by # c \/ o.on # m \/ o.emoji
  /\ ops' = ops \cup {[by |-> c, on |-> m, emoji |-> FALSE, other |-> mine \ same, same |-> same,
                       key |-> IF same = {} THEN key ELSE "none"]}
  /\ UNCHANGED <<treeVars, viewVars, log, told, hidden, faults>>

\* toggleReaction, which can be called again while it waits.
ToggleReaction(c, m) ==
  LET mine == {i \in Reactions(c, m) : log[i].key = Emoji} IN
  /\ votes < MaxVotes /\ votes' = votes + 1 /\ (c = Viewer => m \in held)
  /\ ops' = ops \cup {[by |-> c, on |-> m, emoji |-> TRUE, other |-> {}, same |-> mine,
                       key |-> IF mine = {} THEN Emoji ELSE "none"]}
  /\ UNCHANGED <<treeVars, viewVars, log, told, hidden, faults>>

\* slip: the vote is hidden before the hub has agreed
HiddenAnyway(c, i, ok) == [hidden EXCEPT ![c] = @ \cup {i}]
Hidden(c, i, ok) == IF ok THEN [hidden EXCEPT ![c] = @ \cup {i}] ELSE hidden

\* The next request of a call; if it fails the call ends.
RemoveVote(o, i, ok) ==
  LET left == [o EXCEPT !.other = @ \ {i}, !.same = @ \ {i}] IN
  /\ i \in (IF o.other # {} THEN o.other ELSE o.same)
  /\ hidden' = Hidden(o.by, i, ok)
  /\ ops' = IF ok /\ (left.other # {} \/ left.same # {} \/ left.key # "none")
            THEN (ops \ {o}) \cup {left} ELSE ops \ {o}
  /\ IF ok /\ i \in AtHub(o.on)
     THEN log' = Append(log, [op |-> "redact", id |-> i, on |-> o.on, key |-> "none"])
     ELSE UNCHANGED log

AddVote(o, ok) ==
  /\ o.other = {} /\ o.same = {} /\ ops' = ops \ {o} /\ UNCHANGED hidden
  /\ IF ok THEN log' = Append(log, [op |-> "add", id |-> 0, on |-> o.on, key |-> o.key])
     ELSE UNCHANGED log

-----------------------------------------------------------------------------
(* The comments on the screen.                                             *)

\* The comment under which m is put, and the way to it from the top.
Under(m, screen) == IF parent[m] \in screen THEN parent[m] ELSE 0
PathIn(screen) ==
  LET path[m \in Comments] ==
        IF Under(m, screen) = 0 THEN <<m>> ELSE Append(path[parent[m]], m)
  IN path

\* pruneDeleted: a deleted comment is there for its replies.
Displayed(screen, dead) ==
  {m \in screen : \E x \in screen \ dead : m \in {PathIn(screen)[x][i] : i \in DOMAIN PathIn(screen)[x]}}

\* A comment comes before the replies to it; two others have the order of the
\* siblings that they are, or answer to, where the ways to them part.
Parting(a, b, screen) ==
  LET p == PathIn(screen)[a]
      q == PathIn(screen)[b]
      apart == {i \in DOMAIN p \cap DOMAIN q : p[i] # q[i]}
  IN [answered |-> apart = {} /\ Len(p) < Len(q),
      siblings |-> {<<p[i], q[i], i = 1>> : i \in {k \in apart : \A j \in apart : k <= j}}]

\* computeVoteRanks: the best first, then the oldest.
ByVotes(a, b) ==
  LET s == VoteScore(Viewer, a) - VoteScore(Viewer, b) IN s > 0 \/ (s = 0 /\ a < b)
VoteRanks(screen, dead) ==
  LET nodes == Displayed(screen, dead)
      Above(x, m) == LET w == Parting(x, m, screen) IN
        w.answered \/ \E s \in w.siblings : ByVotes(s[1], s[2])
  IN [m \in nodes |-> Cardinality({x \in nodes : Above(x, m)})]

\* orderTree: comments without a rank are the last at the top, and the first of
\* the replies, where the newest is first.
ByRank(a, b, top, rankOf) ==
  LET unranked == IF top THEN MaxComments ELSE -1
      r(m) == IF m \in DOMAIN rankOf THEN rankOf[m] ELSE unranked
  IN IF r(a) # r(b) THEN r(a) < r(b) ELSE IF r(a) = -1 THEN a > b ELSE a < b

Before(a, b, screen, rankOf) ==
  LET w == Parting(a, b, screen) IN
  w.answered \/ \E s \in w.siblings : ByRank(s[1], s[2], s[3], rankOf)

\* slip: the order follows the votes
NeverFrozen == FALSE
IsFrozen == frozen

\* The watcher of loadingEvents and voteSignature, once the post has read its
\* thread or a vote has come or gone.
Watch ==
  IF ~open \/ IsFrozen THEN UNCHANGED <<frozen, ranks, settling>>
  ELSE IF held' = {} THEN frozen' = TRUE /\ ranks' = <<>> /\ settling' = FALSE
  ELSE settling' = TRUE /\ UNCHANGED <<frozen, ranks>>

WatchOf(c) == IF c = Viewer THEN Watch ELSE UNCHANGED <<frozen, ranks, settling>>

FreezeVoteOrder ==
  /\ settling /\ settling' = FALSE
  /\ frozen' = TRUE /\ ranks' = VoteRanks(held, gone)
  /\ UNCHANGED <<treeVars, open, opens, voteVars>>

\* A comment comes in, by sliding sync or with a page of the thread, or is
\* found to be deleted; an open post reads its thread again.
Arrives(m) ==
  /\ m \notin held /\ held' = held \cup {m} /\ Watch
  /\ UNCHANGED <<parent, gone, open, opens, voteVars>>
Deleted(m) ==
  /\ m \in held \ gone /\ gone' = gone \cup {m} /\ UNCHANGED held /\ Watch
  /\ UNCHANGED <<parent, open, opens, voteVars>>

\* changeTopic, with what is known of the thread by then.
ChangeTopic ==
  /\ ~open /\ opens < MaxOpens /\ opens' = opens + 1 /\ open' = TRUE
  /\ frozen' = (held = {}) /\ ranks' = <<>> /\ settling' = (held # {})
  /\ UNCHANGED <<treeVars, voteVars>>

BackToFeed ==
  /\ open /\ open' = FALSE /\ frozen' = FALSE /\ ranks' = <<>> /\ settling' = FALSE
  /\ UNCHANGED <<treeVars, opens, voteVars>>

\* The next entry of the log comes to c.
Hear(c) ==
  LET i == told[c] + 1 IN
  /\ i \in DOMAIN log /\ told' = [told EXCEPT ![c] = i]
  /\ hidden' = IF log[i].op = "redact" THEN [hidden EXCEPT ![c] = @ \cup {log[i].id}] ELSE hidden
  /\ UNCHANGED <<treeVars, open, opens, log, ops, votes, faults>>
  /\ WatchOf(c)

\* The hub refuses a reaction that the user has there already.
Duplicate(o) == \E i \in AtHub(o.on) : log[i].key = o.key

Request(o, ok) ==
  /\ o \in ops
  /\ \/ \E i \in o.other \cup o.same : RemoveVote(o, i, ok)
     \/ AddVote(o, ok) /\ (ok => ~Duplicate(o))
  /\ faults' = IF ok \/ (o.other \cup o.same = {} /\ Duplicate(o)) THEN faults ELSE faults + 1
  /\ faults' <= MaxFaults /\ UNCHANGED <<treeVars, told, votes, open, opens>>
  /\ WatchOf(o.by)

ForumNext ==
  \/ \E c \in Clients, m \in Voted, key \in VoteKey : Vote(c, m, key)
  \/ \E c \in Clients, m \in Voted : ToggleReaction(c, m)
  \/ \E o \in ops, ok \in BOOLEAN : Request(o, ok)
  \/ \E c \in Clients : Hear(c)
  \/ \E m \in Comments : Arrives(m) \/ Deleted(m)
  \/ ChangeTopic \/ BackToFeed \/ FreezeVoteOrder

ForumSpec == ForumInit /\ [][ForumNext]_forumVars

-----------------------------------------------------------------------------
\* An open post does not keep its spinner: as long as the order of its comments is
\* not settled a timer runs that settles it.
OrderComes == open /\ ~frozen => settling

\* A client that has heard everything shows the reactions that the hub has, whatever
\* requests failed halfway and whichever device they came from.
VotesAgree ==
  \A c \in Clients, m \in Comments : told[c] = Len(log) => Reactions(c, m) = AtHub(m)

\* Comments stay in place for the one who reads them: once shown, two of them
\* keep their order as votes, comments and deletions come in, unless one of them
\* is moved because the comment it answers, or one above that, only now came.
SamePlace(m) == PathIn(held)[m] = PathIn(held')[m]
NoJump ==
  open /\ open' /\ frozen /\ frozen' =>
    \A a, b \in Displayed(held, gone) \cap Displayed(held', gone') :
      SamePlace(a) /\ SamePlace(b) /\ Before(a, b, held, ranks) => Before(a, b, held', ranks')
NeverReorder == [][NoJump]_forumVars
=============================================================================
