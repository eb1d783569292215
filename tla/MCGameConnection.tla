-------------------------- MODULE MCGameConnection --------------------------
EXTENDS GameConnection, TLC

CONSTANTS second, othersession, otherrid, thirdrid

OneSocket == state[second] = "none"

OneSession ==
    /\ ended[othersession] = "no"
    /\ \A c \in Conns :
          /\ othersession \notin {auth[c], group[c], req[c].content[2]}
          /\ <<c, othersession>> \notin members

Authenticates(content) == content[1] = "authenticate" /\ content[2] # NoSession

Without(rid) == \A c \in Conns : req[c].rid # rid /\ terminals[c][rid] = NoTerminal

\* Frames authenticate with a session, one that lapses is one that was reset, and the window of a
\* connection holds one request.
Plain ==
    /\ \A s \in Sessions : ended[s] # "lapsed"
    /\ \A c \in Conns :
          /\ count[c] <= 1
          /\ req[c] = NoFrame \/ Authenticates(req[c].content)
          /\ \A r \in Rids : terminals[c][r] = NoTerminal \/ Authenticates(terminals[c][r].content)

\* Request ids are alike: the second one is asked for when something is recorded, the third when
\* the others fill the records.
InOrder ==
    \A c \in Conns :
        /\ terminals[c][thirdrid] = NoTerminal
        /\ req[c].rid = thirdrid => Full(c)
        /\ h[c] \in {"resolving", "asking"} /\ req[c].rid = otherrid => Recorded(c) # {}

\* Two sockets use their windows in turn, and the task of one asks while the other rests.
InTurn ==
    \A c, d \in Conns : c # d =>
        /\ count[c] = 0 \/ count[d] = 0
        /\ task[c] \in {"asking", "asked"} =>
              h[d] \in {"ready", "dead"} /\ task[d] \in {"none", "sleeping"}

\* One socket is explored with one session and a request id more than it can keep, and with two
\* sessions that its frames authenticate with: a notice lost is to it one that is never sent.
\* Two sockets share only the groups of a session and the metrics: they have one session and
\* one request id; a reset is to them a logout whose notice is never sent.
Focus ==
    \/ OneSocket /\ OneSession /\ InOrder
    \/ /\ OneSocket
       /\ InOrder
       /\ Without(thirdrid)
       /\ Plain
       /\ \A s \in Sessions : notice[s] # "lost"
    \/ /\ OneSession
       /\ Without(otherrid)
       /\ Without(thirdrid)
       /\ Plain
       /\ InTurn
       /\ \A s \in Sessions : ended[s] # "reset"
=============================================================================
