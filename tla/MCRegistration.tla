--------------------------- MODULE MCRegistration ---------------------------
EXTENDS Registration, TLC

CONSTANTS k1, k2

\* Two windows of the contact and one of the address everybody comes from; a device is a subject
\* like an address.
Limit(scope, seconds, limit) == [scope |-> scope, seconds |-> seconds, limit |-> limit]
MCLimits == <<Limit("contact", 1, 1), Limit("contact", 3, 2), Limit("ip", 2, 2)>>

MCCacheLimit == [account |-> 1, ip |-> 2]

Symmetry == Permutations(Requests) \cup Permutations(Signups) \cup Permutations(Contacts)
            \cup Permutations(Names)

Asking     == {r \in Requests : place[r] # "idle"}
Using      == {s \in Signups : step[s] \in {"adding", "incrementing"}}
Transacting == {s \in Signups : step[s] # "idle"} \ Using

\* Codes of registrations only, none denied, asked for as early as their windows allow; one to
\* each key, and no account was closed.
Ready ==
    /\ clock = 1
    /\ \A id \in Ids : record[id] # Unsent => id[1] = "registration" /\ record[id].status = 202
    /\ \A w \in Windows : Limits[w[2]].seconds = 3 => window[w].start = 0
    /\ Cardinality({id \in Ids : record[id] # Unsent}) = sent
    /\ closed = {}

Before == {a \in accounts : a.code = Wrong}

\* Requests and registrations meet in the codes and the accounts only, and the cache and the
\* transaction of a registration in nothing.  So requests run with each other before the
\* first registration, with one account from before or none; registrations run with each
\* other in the cache where no code was requested, and in their transactions, one call after
\* the other having passed the cache, where the requests left codes behind.
Focus ==
    \/ (tried = 0 /\ Cardinality(Before) <= 1)
    \/ (sent = 0 /\ Transacting = {} /\ Before = {})
    \/ /\ Ready
       /\ Asking = {}
       /\ Before = {}
       /\ Using = {} \/ (Cardinality(Using) = 1 /\ \A s \in Transacting : step[s] = "naming")
       /\ (\E s \in Transacting : step[s] # "naming") => \A b \in Buckets : cache[b] = 0
=============================================================================
