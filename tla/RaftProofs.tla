----------------------------- MODULE RaftProofs -----------------------------
(***************************************************************************)
(* Election safety of demos/raft.py for every cluster and every term.      *)
(*                                                                         *)
(* A node's own state forgets a vote when its term moves on; what proves   *)
(* that a term is won once is therefore stated of the messages: who was    *)
(* voted for (Voted), and that a node which sends heartbeats had a         *)
(* majority.  Two majorities share a node, and a node votes once per term. *)
(***************************************************************************)
EXTENDS Raft, FiniteSetTheorems, TLAPS

\* Two majorities of the cluster have a node in common.
LEMMA MajoritiesMeet ==
    ASSUME NEW P \in SUBSET Node, NEW Q \in SUBSET Node, Majority(P), Majority(Q)
    PROVE  P \cap Q # {}
<1>1. Cardinality(Node) \in Nat /\ Cardinality(P) \in Nat /\ Cardinality(Q) \in Nat
  BY RaftAssumption, FS_CardinalityType, FS_Subset
<1>2. Cardinality(P) + Cardinality(Q) > Cardinality(Node)
  BY <1>1 DEF Majority
<1>. QED  BY <1>2, RaftAssumption, FS_MajoritiesIntersect

\* An invariant state has at most one winner of a term (OneWinnerPerTerm).
LEMMA InvImpliesOneWinner == ElectionInv => OneWinnerPerTerm
<1>. SUFFICES ASSUME ElectionInv, NEW m \in msgs, NEW n \in msgs,
                     m.type = "heartbeat", n.type = "heartbeat", m.term = n.term
              PROVE  m.src = n.src
  BY DEF OneWinnerPerTerm
<1>1. /\ m = Heartbeat(m.term, m.src) /\ m.term \in Term /\ m.src \in Node
      /\ n = Heartbeat(m.term, n.src) /\ n.src \in Node
  BY DEF ElectionInv, TypeOK, Message, Heartbeat
<1>2. PICK P \in SUBSET Node : Majority(P) /\ \A v \in P : Voted(v, m.src, m.term)
  BY <1>1 DEF ElectionInv, WinnersHaveMajority
<1>3. PICK Q \in SUBSET Node : Majority(Q) /\ \A v \in Q : Voted(v, n.src, m.term)
  BY <1>1 DEF ElectionInv, WinnersHaveMajority
<1>4. PICK v \in Node : v \in P /\ v \in Q
  BY <1>2, <1>3, MajoritiesMeet
<1>. QED  BY <1>1, <1>2, <1>3, <1>4 DEF ElectionInv, VoteOnce

\* An invariant state has at most one leader of a term (ElectionSafety).
LEMMA InvImpliesElectionSafety == ElectionInv => ElectionSafety
<1>. SUFFICES ASSUME ElectionInv, NEW m \in Node, NEW n \in Node,
                     role[m] = "leader", role[n] = "leader", term[m] = term[n]
              PROVE  m = n
  BY DEF ElectionSafety, LeadersByTerm
<1>1. Heartbeat(term[m], m) \in msgs /\ Heartbeat(term[m], n) \in msgs
  BY DEF ElectionInv, LeadersAnnounce
<1>. QED  BY <1>1, InvImpliesOneWinner DEF OneWinnerPerTerm, Heartbeat

\* What a step does to a vote already cast: it stays cast, because messages
\* are never unsent.
LEMMA VotedStays ==
    ASSUME msgs \subseteq msgs', NEW v, NEW c, NEW t, Voted(v, c, t)
    PROVE  Voted(v, c, t)'
BY DEF Voted

\* A majority once reached stays one: the part of the invariant about winners
\* can only be broken by a heartbeat that is new.
LEMMA WinnersStay ==
    ASSUME WinnersHaveMajority, msgs \subseteq msgs',
           NEW c \in Node, NEW t \in Term, Heartbeat(t, c) \in msgs
    PROVE  \E Q \in SUBSET Node : Majority(Q) /\ \A v \in Q : Voted(v, c, t)'
<1>1. PICK Q \in SUBSET Node : Majority(Q) /\ \A v \in Q : Voted(v, c, t)
  BY DEF WinnersHaveMajority
<1>. QED  BY <1>1, VotedStays

\* The initial states satisfy the invariant: nothing was sent.
LEMMA InitInv == Init => ElectionInv
BY RaftAssumption DEF Init, ElectionInv, TypeOK, Term, VoteRemembered, VoteOnce, VotesWereCast,
   WinnersHaveMajority, LeadersAnnounce, Voted

\* A step that changes nothing keeps the invariant.
LEMMA StutterInv == ElectionInv /\ UNCHANGED vars => ElectionInv'
<1>. SUFFICES ASSUME ElectionInv, UNCHANGED vars
              PROVE  ElectionInv'
  OBVIOUS
<1>. USE DEF ElectionInv, vars
<1>1. TypeOK' /\ LeadersAnnounce'
  BY DEF TypeOK, LeadersAnnounce
<1>2. VoteRemembered' /\ VoteOnce' /\ VotesWereCast'
  BY DEF VoteRemembered, VoteOnce, VotesWereCast, Voted
<1>3. WinnersHaveMajority'
  BY DEF WinnersHaveMajority, Voted, Majority
<1>. QED  BY <1>1, <1>2, <1>3

\* A leader's heartbeat: one more announcement of a winner.
LEMMA SendHeartbeatInv ==
    ASSUME ElectionInv, NEW n \in Node, SendHeartbeat(n)
    PROVE  ElectionInv'
<1>. USE DEF ElectionInv
<1>1. Heartbeat(term[n], n) \in msgs
  BY DEF SendHeartbeat, LeadersAnnounce
<1>2. UNCHANGED vars
  BY <1>1 DEF SendHeartbeat, vars
<1>. QED  BY <1>2, StutterInv

\* An election: the candidate's only new vote is its own, in a term in which
\* it has not voted yet.
LEMMA BeginElectionInv ==
    ASSUME ElectionInv, NEW n \in Node, BeginElection(n)
    PROVE  ElectionInv'
<1>. USE DEF ElectionInv
<1>. DEFINE new == term[n] + 1
<1>1. /\ term[n] \in Term /\ new \in Term /\ term'[n] = new
      /\ \A m \in Node : m # n => term'[m] = term[m] /\ votedFor'[m] = votedFor[m]
                                  /\ votes'[m] = votes[m] /\ role'[m] = role[m]
      /\ votedFor'[n] = n /\ votes'[n] = {n} /\ role'[n] = "candidate"
      /\ msgs' = msgs \cup {RequestVote(new, n)}
  BY RaftAssumption DEF BeginElection, TypeOK, Term
<1>2. TypeOK'
  BY <1>1 DEF TypeOK, BeginElection, RequestVote, Message
<1>3. \A v, c \in Node, t \in Term :
        Voted(v, c, t)' => Voted(v, c, t) \/ (v = n /\ c = n /\ t = new)
  BY <1>1 DEF Voted, Vote, RequestVote
<1>4. VoteRemembered'
  BY <1>1, <1>3 DEF VoteRemembered, TypeOK, Term
<1>5. VoteOnce'
  <2>1. \A c \in Node : ~Voted(n, c, new)
    BY <1>1 DEF VoteRemembered, Term
  <2>. QED  BY <2>1, <1>3 DEF VoteOnce
<1>6. VotesWereCast'
  <2>1. RequestVote(new, n) \in msgs' /\ msgs \subseteq msgs'
    BY <1>1
  <2>. SUFFICES ASSUME NEW c \in Node, NEW v \in votes'[c]
                PROVE  Voted(v, c, term[c])'
    BY DEF VotesWereCast
  <2>2. CASE c = n
    BY <2>1, <2>2, <1>1 DEF Voted
  <2>3. CASE c # n
    BY <2>1, <2>3, <1>1 DEF VotesWereCast, Voted
  <2>. QED  BY <2>2, <2>3
<1>7. \A c \in Node, t \in Term : Heartbeat(t, c) \in msgs' => Heartbeat(t, c) \in msgs
  BY <1>1 DEF Heartbeat, RequestVote
<1>8. WinnersHaveMajority'
  BY <1>1, <1>7, WinnersStay DEF WinnersHaveMajority, Majority
<1>9. LeadersAnnounce'
  BY <1>1 DEF LeadersAnnounce
<1>. QED  BY <1>2, <1>4, <1>5, <1>6, <1>8, <1>9

\* A vote request: the answer grants only what VoteRemembered allows.
LEMMA OnRequestVoteInv ==
    ASSUME ElectionInv, Buggy = FALSE, NEW n \in Node, NEW m \in msgs,
           m.type = "request_vote", m.src # n, OnRequestVote(n, m)
    PROVE  ElectionInv'
<1>. USE DEF ElectionInv
<1>. DEFINE c0 == m.src
            grant == MayGrant(n, m.src, m.term)
<1>1. c0 \in Node /\ m.term \in Term /\ term[n] \in Term /\ grant \in BOOLEAN
  BY DEF TypeOK, Message, MayGrant
<1>2. /\ term'[n] = IF m.term > term[n] THEN m.term ELSE term[n]
      /\ term'[n] \in Term
      /\ \A k \in Node : k # n => term'[k] = term[k] /\ votedFor'[k] = votedFor[k]
                                  /\ votes'[k] = votes[k] /\ role'[k] = role[k]
      /\ votes'[n] = IF m.term > term[n] THEN {} ELSE votes[n]
      /\ role'[n] = IF m.term > term[n] THEN "follower" ELSE role[n]
      /\ votedFor'[n] = IF grant THEN c0 ELSE VoteIn(n, m.term)
  BY <1>1 DEF OnRequestVote, AdoptTerm, Newer, TypeOK
<1>3. msgs' = msgs \cup {Vote(term'[n], n, c0, grant)}
  BY DEF OnRequestVote
<1>4. VoteIn(n, m.term) \in Node \cup {None}
  BY DEF VoteIn, TypeOK
<1>5. TypeOK'
  <2>1. Vote(term'[n], n, c0, grant) \in Message
    BY <1>1, <1>2 DEF Vote, Message
  <2>2. msgs' \subseteq Message
    BY <2>1, <1>3 DEF TypeOK
  <2>3. term' \in [Node -> Term] /\ votes' \in [Node -> SUBSET Node]
    BY <1>1 DEF OnRequestVote, AdoptTerm, TypeOK
  <2>4. role' \in [Node -> {"follower", "candidate", "leader"}]
    BY DEF OnRequestVote, TypeOK
  <2>5. votedFor' \in [Node -> Node \cup {None}]
    BY <1>1, <1>4 DEF OnRequestVote, TypeOK
  <2>. QED  BY <2>2, <2>3, <2>4, <2>5 DEF TypeOK
<1>6. grant => /\ term'[n] = m.term
               /\ m.term > term[n] \/ (m.term = term[n] /\ votedFor[n] \in {None, c0})
  BY <1>1, <1>2 DEF MayGrant, Newer, VoteIn, Term
<1>7. \A v, c \in Node, t \in Term :
        Voted(v, c, t)' => Voted(v, c, t) \/ (grant /\ v = n /\ c = c0 /\ t = term'[n])
  BY <1>1, <1>2, <1>3 DEF Voted, Vote, RequestVote
<1>8. \A c \in Node : grant /\ Voted(n, c, term'[n]) => c = c0
  BY <1>1, <1>2, <1>6, RaftAssumption DEF VoteRemembered, Term
<1>9. VoteRemembered'
  <2>. SUFFICES ASSUME NEW v \in Node, NEW c \in Node, NEW t \in Term, Voted(v, c, t)'
                PROVE  t < term'[v] \/ (t = term'[v] /\ votedFor'[v] = c)
    BY DEF VoteRemembered
  <2>1. CASE v # n
    BY <2>1, <1>2, <1>7 DEF VoteRemembered
  <2>2. CASE v = n /\ ~Voted(v, c, t)
    BY <2>2, <1>2, <1>7
  <2>3. CASE v = n /\ Voted(v, c, t) /\ m.term > term[n]
    BY <2>3, <1>1, <1>2 DEF VoteRemembered, Term
  <2>4. CASE v = n /\ Voted(v, c, t) /\ ~(m.term > term[n])
    <3>1. t < term[n] \/ (t = term[n] /\ votedFor[n] = c)
      BY <2>4 DEF VoteRemembered
    <3>2. term'[n] = term[n] /\ VoteIn(n, m.term) = votedFor[n]
      BY <2>4, <1>2 DEF VoteIn, Newer
    <3>3. grant /\ t = term[n] => c = c0
      BY <2>4, <3>2, <1>8
    <3>. QED  BY <2>4, <3>1, <3>2, <3>3, <1>2
  <2>. QED  BY <2>1, <2>2, <2>3, <2>4
<1>10. VoteOnce'
  BY <1>7, <1>8 DEF VoteOnce
<1>11. VotesWereCast'
  BY <1>2, <1>3, VotedStays DEF VotesWereCast
<1>12. WinnersHaveMajority'
  <2>1. \A c \in Node, t \in Term : Heartbeat(t, c) \in msgs' => Heartbeat(t, c) \in msgs
    BY <1>3 DEF Heartbeat, Vote
  <2>. QED  BY <1>3, <2>1, WinnersStay DEF WinnersHaveMajority, Majority
<1>13. LeadersAnnounce'
  BY <1>2, <1>3 DEF LeadersAnnounce
<1>. QED  BY <1>5, <1>9, <1>10, <1>11, <1>12, <1>13

\* A vote counted: the new leader's majority is the votes it counted.
LEMMA OnVoteInv ==
    ASSUME ElectionInv, NEW n \in Node, NEW m \in msgs,
           m.type = "vote", m.dst = n, OnVote(n, m)
    PROVE  ElectionInv'
<1>. USE DEF ElectionInv
<1>. DEFINE counted == votes[n] \cup {m.src}
<1>1. /\ m.src \in Node /\ term[n] \in Term
      /\ m = Vote(term[n], m.src, n, TRUE)
      /\ counted \in SUBSET Node
  BY DEF TypeOK, Message, OnVote, Vote
<1>2. /\ term' = term /\ votedFor' = votedFor
      /\ votes' = [votes EXCEPT ![n] = counted]
      /\ msgs \subseteq msgs'
      /\ \A k \in Node : k # n => role'[k] = role[k]
  BY DEF OnVote, TypeOK
<1>3. /\ msgs' \in {msgs, msgs \cup {Heartbeat(term[n], n)}}
      /\ Heartbeat(term[n], n) \in msgs' => Heartbeat(term[n], n) \in msgs \/ Majority(counted)
      /\ role'[n] = "leader" => Heartbeat(term[n], n) \in msgs'
  BY DEF OnVote, TypeOK
<1>4. \A v, c \in Node, t \in Term : Voted(v, c, t)' => Voted(v, c, t)
  BY <1>3 DEF Voted, Vote, RequestVote, Heartbeat
<1>5. \A v \in counted : Voted(v, n, term[n])
  BY <1>1 DEF VotesWereCast, Voted
<1>6. TypeOK'
  <2>1. Heartbeat(term[n], n) \in Message
    BY <1>1 DEF Heartbeat, Message
  <2>2. role' \in [Node -> {"follower", "candidate", "leader"}]
    BY DEF OnVote, TypeOK
  <2>. QED  BY <2>1, <2>2, <1>1, <1>2, <1>3 DEF TypeOK
<1>7. VoteRemembered' /\ VoteOnce'
  BY <1>2, <1>4 DEF VoteRemembered, VoteOnce
<1>8. VotesWereCast'
  BY <1>2, <1>5, VotedStays DEF VotesWereCast, TypeOK
<1>9. WinnersHaveMajority'
  <2>. SUFFICES ASSUME NEW c \in Node, NEW t \in Term, Heartbeat(t, c) \in msgs'
                PROVE  \E Q \in SUBSET Node : Majority(Q) /\ \A v \in Q : Voted(v, c, t)'
    BY DEF WinnersHaveMajority, Majority
  <2>1. CASE Heartbeat(t, c) \in msgs
    BY <2>1, <1>2, WinnersStay
  <2>2. CASE Heartbeat(t, c) \notin msgs
    <3>1. t = term[n] /\ c = n /\ Majority(counted)
      BY <2>2, <1>3 DEF Heartbeat
    <3>. QED  BY <3>1, <1>1, <1>2, <1>5, VotedStays
  <2>. QED  BY <2>1, <2>2
<1>10. LeadersAnnounce'
  BY <1>2, <1>3 DEF LeadersAnnounce
<1>. QED  BY <1>6, <1>7, <1>8, <1>9, <1>10

\* A heartbeat: terms only grow and no vote is cast.
LEMMA OnHeartbeatInv ==
    ASSUME ElectionInv, NEW n \in Node, NEW m \in msgs,
           m.type = "heartbeat", OnHeartbeat(n, m)
    PROVE  ElectionInv'
<1>. USE DEF ElectionInv
<1>1. m.term \in Term /\ term[n] \in Term
  BY DEF TypeOK, Message
<1>2. /\ msgs' = msgs
      /\ \A k \in Node : k # n => term'[k] = term[k] /\ votedFor'[k] = votedFor[k]
                                  /\ votes'[k] = votes[k] /\ role'[k] = role[k]
      /\ term'[n] = IF m.term > term[n] THEN m.term ELSE term[n]
      /\ votes'[n] = IF m.term > term[n] THEN {} ELSE votes[n]
      /\ votedFor'[n] = IF m.term > term[n] THEN None ELSE votedFor[n]
      /\ role'[n] = IF m.term >= term[n] THEN "follower" ELSE role[n]
  BY <1>1 DEF OnHeartbeat, AdoptTerm, VoteIn, Newer, TypeOK
<1>3. TypeOK'
  BY <1>1 DEF OnHeartbeat, AdoptTerm, VoteIn, TypeOK
<1>4. VoteOnce' /\ VotesWereCast'
  BY <1>2 DEF VoteOnce, VotesWereCast, Voted
<1>5. VoteRemembered'
  <2>. SUFFICES ASSUME NEW v \in Node, NEW c \in Node, NEW t \in Term, Voted(v, c, t)'
                PROVE  t < term'[v] \/ (t = term'[v] /\ votedFor'[v] = c)
    BY DEF VoteRemembered
  <2>1. t < term[v] \/ (t = term[v] /\ votedFor[v] = c)
    BY <1>2 DEF VoteRemembered, Voted
  <2>2. term[v] \in Nat /\ t \in Nat /\ m.term \in Nat
    BY <1>1 DEF TypeOK, Term
  <2>. QED  BY <2>1, <2>2, <1>2
<1>6. LeadersAnnounce'
  BY <1>1, <1>2 DEF LeadersAnnounce, Term
<1>7. WinnersHaveMajority'
  BY <1>2 DEF WinnersHaveMajority, Voted, Majority
<1>. QED  BY <1>3, <1>4, <1>5, <1>6, <1>7

\* Every step of the demonstration's correct election keeps the invariant.
LEMMA NextInv == Buggy = FALSE /\ ElectionInv /\ [Next]_vars => ElectionInv'
<1>. SUFFICES ASSUME Buggy = FALSE, ElectionInv, [Next]_vars
              PROVE  ElectionInv'
  OBVIOUS
<1>1. CASE UNCHANGED vars
  BY <1>1, StutterInv
<1>2. ASSUME NEW n \in Node, SendHeartbeat(n) PROVE ElectionInv'
  BY <1>2, SendHeartbeatInv
<1>3. ASSUME NEW n \in Node, BeginElection(n) PROVE ElectionInv'
  BY <1>3, BeginElectionInv
<1>4. ASSUME NEW n \in Node, NEW m \in msgs, Receive(n, m) PROVE ElectionInv'
  BY <1>4, OnRequestVoteInv, OnVoteInv, OnHeartbeatInv DEF Receive
<1>. QED  BY <1>1, <1>2, <1>3, <1>4 DEF Next

\* The invariant holds throughout every run of the correct election.
THEOREM ElectionInvariant == ASSUME Buggy = FALSE PROVE Spec => []ElectionInv
<1>1. Init => ElectionInv
  BY InitInv
<1>2. ElectionInv /\ [Next]_vars => ElectionInv'
  BY NextInv
<1>. QED  BY <1>1, <1>2, PTL DEF Spec

\* Types: RaftNode's fields and messages keep their types (TypeOK).
THEOREM TypeCorrect == ASSUME Buggy = FALSE PROVE Spec => []TypeOK
<1>1. ElectionInv => TypeOK
  BY DEF ElectionInv
<1>. QED  BY <1>1, ElectionInvariant, PTL

\* at_most_one_leader_per_term, for every cluster size, every number of
\* terms and every order of deliveries, losses and duplicates.
THEOREM ElectionIsSafe == ASSUME Buggy = FALSE PROVE Spec => []ElectionSafety
BY ElectionInvariant, InvImpliesElectionSafety, PTL

\* A term is won at most once, in all of a run (OneWinnerPerTerm).
THEOREM WinnerIsUnique == ASSUME Buggy = FALSE PROVE Spec => []OneWinnerPerTerm
BY ElectionInvariant, InvImpliesOneWinner, PTL

\* A leader steps down only for a newer term, although _on_heartbeat would
\* also do so within a term: such a heartbeat has no sender.
THEOREM LeaderKeepsItsTerm == ASSUME Buggy = FALSE PROVE Spec => LeaderStepsDownForNewerTerm
<1>. DEFINE Keeps == \A n \in Node : role[n] = "leader" /\ role'[n] # "leader" => term'[n] > term[n]
<1>1. ElectionInv /\ [Next]_vars => [Keeps]_vars
  <2>. SUFFICES ASSUME ElectionInv, Next,
                       NEW n \in Node, role[n] = "leader", role'[n] # "leader"
                PROVE  term'[n] > term[n]
    OBVIOUS
  <2>. USE DEF ElectionInv
  <2>1. ASSUME NEW k \in Node, SendHeartbeat(k) \/ BeginElection(k) PROVE FALSE
    BY <2>1 DEF SendHeartbeat, BeginElection, TypeOK
  <2>2. PICK k \in Node, m \in msgs : Receive(k, m)
    BY <2>1 DEF Next
  <2>3. CASE m.type = "vote"
    BY <2>2, <2>3 DEF Receive, OnVote, TypeOK
  <2>4. CASE m.type = "request_vote"
    <3>1. OnRequestVote(k, m) /\ m.term \in Term /\ term[n] \in Term
      BY <2>2, <2>4 DEF Receive, TypeOK, Message
    <3>2. n = k /\ m.term > term[n]
      BY <3>1 DEF OnRequestVote, Newer, TypeOK
    <3>. QED  BY <3>1, <3>2 DEF OnRequestVote, AdoptTerm, Newer, TypeOK
  <2>5. CASE m.type = "heartbeat"
    <3>1. OnHeartbeat(k, m) /\ m.src # k /\ m.term \in Term /\ term[n] \in Term
      BY <2>2, <2>5 DEF Receive, TypeOK, Message
    <3>2. n = k /\ m.term >= term[n]
      BY <3>1 DEF OnHeartbeat, TypeOK
    <3>3. Heartbeat(term[n], n) \in msgs
      BY DEF LeadersAnnounce
    <3>4. m.term # term[n]
      BY <2>5, <3>1, <3>2, <3>3, InvImpliesOneWinner DEF OneWinnerPerTerm, Heartbeat
    <3>5. m.term > term[n]
      BY <3>1, <3>2, <3>4 DEF Term
    <3>. QED  BY <3>1, <3>2, <3>5 DEF OnHeartbeat, AdoptTerm, Newer, TypeOK
  <2>. QED  BY <2>2, <2>3, <2>4, <2>5 DEF Receive
<1>. QED  BY <1>1, ElectionInvariant, PTL DEF LeaderStepsDownForNewerTerm, Spec

=============================================================================
