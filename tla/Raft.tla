-------------------------------- MODULE Raft --------------------------------
(***************************************************************************)
(* Leader election as src/src/seedloop/demos/raft.py runs it under the     *)
(* simulated network: class RaftNode, one action for each thing its run()  *)
(* loop can do.  A handler never suspends (send() only schedules a         *)
(* delivery), so each is one step.                                         *)
(*                                                                         *)
(* A message stays in msgs once it is sent: it may be handled late, out of *)
(* order, again, or never.  That is the transport at its worst, with       *)
(* latencies, losses, duplicates and partitions.                           *)
(***************************************************************************)
EXTENDS Naturals, FiniteSets

CONSTANTS
    Node,       \* the addresses of the cluster
    Buggy,      \* RaftNode(buggy=...): leave out the one-vote-per-term rule
    MaxTerm,    \* bound: the highest term an election is begun for
    None

ASSUME RaftAssumption ==
    /\ IsFiniteSet(Node)
    /\ Buggy \in BOOLEAN
    /\ MaxTerm \in Nat
    /\ None \notin Node

VARIABLES
    term,       \* self.term
    role,       \* self.role
    votedFor,   \* self._voted_for
    votes,      \* self._votes
    msgs        \* the messages sent so far

vars == <<term, role, votedFor, votes, msgs>>

Term == 0..MaxTerm

\* A broadcast is one message that every peer may receive.
Message == [type : {"request_vote", "heartbeat"}, term : Term, src : Node]
           \cup [type : {"vote"}, term : Term, src : Node, dst : Node, granted : BOOLEAN]

RequestVote(t, n) == [type |-> "request_vote", term |-> t, src |-> n]
Heartbeat(t, n) == [type |-> "heartbeat", term |-> t, src |-> n]
Vote(t, v, c, g) == [type |-> "vote", term |-> t, src |-> v, dst |-> c, granted |-> g]

Init ==
    /\ term = [n \in Node |-> 0]
    /\ role = [n \in Node |-> "follower"]
    /\ votedFor = [n \in Node |-> None]
    /\ votes = [n \in Node |-> {}]
    /\ msgs = {}

\* len(self._votes) > self._all // 2
Majority(S) == Cardinality(S) > Cardinality(Node) \div 2

\* Mutant: a message of the same term clears the vote as well.
NewerOrSame(n, t) == t >= term[n]

\* Only a strictly newer term is adopted and clears the vote.
Newer(n, t) == t > term[n]

\* The timeout of a leader: it sends a heartbeat.
SendHeartbeat(n) ==
    /\ role[n] = "leader"
    /\ msgs' = msgs \cup {Heartbeat(term[n], n)}
    /\ UNCHANGED <<term, role, votedFor, votes>>

\* The timeout of any other node: it becomes a candidate and votes for itself.
BeginElection(n) ==
    /\ role[n] # "leader"
    /\ term[n] < MaxTerm
    /\ term' = [term EXCEPT ![n] = @ + 1]
    /\ role' = [role EXCEPT ![n] = "candidate"]
    /\ votedFor' = [votedFor EXCEPT ![n] = n]
    /\ votes' = [votes EXCEPT ![n] = {n}]
    /\ msgs' = msgs \cup {RequestVote(term[n] + 1, n)}

\* _adopt_newer_term(t): a newer term makes n a follower without a vote.
AdoptTerm(n, t) ==
    /\ term' = [term EXCEPT ![n] = IF Newer(n, t) THEN t ELSE @]
    /\ votes' = [votes EXCEPT ![n] = IF Newer(n, t) THEN {} ELSE @]

\* The vote n holds, in the term it is in after adopting t.
VoteIn(n, t) == IF Newer(n, t) THEN None ELSE votedFor[n]

\* Mutant: the one-vote-per-term rule is left out.
MayGrantAlways(n, c, t) == term[n] <= t /\ (Newer(n, t) \/ role[n] # "leader")

\* Is n's vote in term t, the term it is in then, still free for c?
MayGrant(n, c, t) ==
    /\ term[n] <= t
    /\ Newer(n, t) \/ role[n] # "leader"
    /\ Buggy \/ VoteIn(n, t) \in {None, c}

\* _on_request_vote: adopt the term, vote if the rule allows, answer always.
OnRequestVote(n, m) ==
    LET grant == MayGrant(n, m.src, m.term) IN
    /\ AdoptTerm(n, m.term)
    /\ role' = [role EXCEPT ![n] = IF Newer(n, m.term) THEN "follower" ELSE @]
    /\ votedFor' = [votedFor EXCEPT ![n] = IF grant THEN m.src ELSE VoteIn(n, m.term)]
    /\ msgs' = msgs \cup {Vote(term'[n], n, m.src, grant)}

\* _on_vote: count a vote of this term; a majority makes n leader at once.
OnVote(n, m) ==
    /\ m.term = term[n] /\ role[n] = "candidate" /\ m.granted
    /\ votes' = [votes EXCEPT ![n] = @ \cup {m.src}]
    /\ \/ /\ Majority(votes[n] \cup {m.src})
          /\ role' = [role EXCEPT ![n] = "leader"]
          /\ msgs' = msgs \cup {Heartbeat(term[n], n)}
       \/ /\ ~Majority(votes[n] \cup {m.src})
          /\ UNCHANGED <<role, msgs>>
    /\ UNCHANGED <<term, votedFor>>

\* Mutant: a heartbeat of an older term is obeyed.
OnAnyHeartbeat(n, m) ==
    /\ AdoptTerm(n, m.term)
    /\ role' = [role EXCEPT ![n] = "follower"]
    /\ votedFor' = [votedFor EXCEPT ![n] = VoteIn(n, m.term)]
    /\ UNCHANGED msgs

\* _on_heartbeat: adopt the term; in the sender's own term, step down.
OnHeartbeat(n, m) ==
    /\ AdoptTerm(n, m.term)
    /\ role' = [role EXCEPT ![n] = IF m.term >= term[n] THEN "follower" ELSE @]
    /\ votedFor' = [votedFor EXCEPT ![n] = VoteIn(n, m.term)]
    /\ UNCHANGED msgs

Receive(n, m) ==
    \/ m.type = "request_vote" /\ m.src # n /\ OnRequestVote(n, m)
    \/ m.type = "vote" /\ m.dst = n /\ OnVote(n, m)
    \/ m.type = "heartbeat" /\ m.src # n /\ OnHeartbeat(n, m)

Next ==
    \E n \in Node :
        \/ SendHeartbeat(n)
        \/ BeginElection(n)
        \/ \E m \in msgs : Receive(n, m)

Spec == Init /\ [][Next]_vars

-----------------------------------------------------------------------------
(* Properties *)

\* Every variable has its type.
TypeOK ==
    /\ term \in [Node -> Term]
    /\ role \in [Node -> {"follower", "candidate", "leader"}]
    /\ votedFor \in [Node -> Node \cup {None}]
    /\ votes \in [Node -> SUBSET Node]
    /\ msgs \subseteq Message

\* The nodes that believe they lead term t.
LeadersByTerm(t) == {n \in Node : role[n] = "leader" /\ term[n] = t}

\* What the demonstration asserts after every step
\* (at_most_one_leader_per_term): no two nodes lead the same term.
ElectionSafety == \A t \in Term : \A m, n \in LeadersByTerm(t) : m = n

\* The rule of the election itself, which the demonstration cannot see: a
\* term is won once.  Heartbeats of a term all come from one node, also
\* after that node has moved on to another term, so a vote request or an
\* answer delivered late never makes a second leader of an old term.
OneWinnerPerTerm ==
    \A m, n \in msgs :
        m.type = "heartbeat" /\ n.type = "heartbeat" /\ m.term = n.term => m.src = n.src

\* A leader gives up its role only for a newer term: _on_heartbeat steps
\* down in the same term too, but no heartbeat makes a leader do so.
LeaderStepsDownForNewerTerm ==
    [][\A n \in Node : role[n] = "leader" /\ role'[n] # "leader" => term'[n] > term[n]]_vars

-----------------------------------------------------------------------------
(* The invariant the proof rests on, in the terms of the code *)

\* v has voted for c in term t: it said so, or it is c and stood in t.
Voted(v, c, t) ==
    Vote(t, v, c, TRUE) \in msgs \/ (v = c /\ RequestVote(t, c) \in msgs)

\* self.term and self._voted_for remember the vote while the term lasts.
VoteRemembered ==
    \A v, c \in Node, t \in Term :
        Voted(v, c, t) => t < term[v] \/ (t = term[v] /\ votedFor[v] = c)

\* Nobody votes for two candidates in one term.
VoteOnce ==
    \A v, c, d \in Node, t \in Term : Voted(v, c, t) /\ Voted(v, d, t) => c = d

\* The votes a node counts were cast for it, in the term it is in.
VotesWereCast == \A c \in Node : \A v \in votes[c] : Voted(v, c, term[c])

\* Who sends heartbeats in a term was voted for by a majority in it.
WinnersHaveMajority ==
    \A c \in Node, t \in Term :
        Heartbeat(t, c) \in msgs =>
            \E Q \in SUBSET Node : Majority(Q) /\ \A v \in Q : Voted(v, c, t)

\* A leader has announced itself.
LeadersAnnounce == \A n \in Node : role[n] = "leader" => Heartbeat(term[n], n) \in msgs

ElectionInv ==
    /\ TypeOK
    /\ VoteRemembered
    /\ VoteOnce
    /\ VotesWereCast
    /\ WinnersHaveMajority
    /\ LeadersAnnounce

=============================================================================
