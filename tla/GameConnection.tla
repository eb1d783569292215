--------------------------- MODULE GameConnection ---------------------------
(***************************************************************************)
(* The WebSocket consumers of the game protocol (identity/consumers.py),    *)
(* the channel group that tells them of an ended AuthSession                *)
(* (connection_sessions.py) and the metrics they keep                       *)
(* (game_session_metrics.py), in the one server process.                    *)
(*                                                                         *)
(* Grain.  Channels dispatches the frames, notices and the disconnect of a  *)
(* connection one after the other, so a handler is interrupted only where   *)
(* it waits for the database; what it does between two such waits is one    *)
(* step, a query is another.  The revalidation task runs beside the         *)
(* handlers.  Joining a group of the in-memory channel layer does not wait. *)
(*                                                                         *)
(* A frame is a request id with its content; malformed requests that get a  *)
(* reply behave like a ping.  Which sessions are active is the database's   *)
(* affair (AuthSession): here a session ends once, with a notice after the  *)
(* commit or without one.  An administrator who makes an account usable     *)
(* again is left out.                                                       *)
(***************************************************************************)
EXTENDS Integers, FiniteSets

CONSTANTS
    Conns,          \* WebSockets, one ConnectionSession each
    Sessions, NoSession,
    Rids,           \* request ids
    RateLimit,      \* GAME_WEBSOCKET_REQUEST_RATE_LIMIT
    Capacity        \* GAME_WEBSOCKET_TERMINAL_LIMIT

ASSUME LimitsAssumption    == RateLimit \in Nat \ {0} /\ Capacity \in Nat \ {0}
ASSUME NoSessionAssumption == NoSession \notin Sessions
ASSUME FinitelyManyAssumption == IsFiniteSet(Conns)

VARIABLES
    ended,      \* AuthSession is no longer active: "no" or by what
    notice,     \* notify_auth_session_invalidated for it: not due, due, sent, or lost for some
    state,      \* connection_state, "none" before the socket
    auth,       \* auth_session
    group,      \* _auth_session_group
    members,    \* the channel layer's groups: <<connection, session>>
    mail,       \* sessions whose notice waits in the connection's channel
    terminals,  \* _terminals by request id
    count,      \* _requests_in_window
    metric,     \* _metric_auth_session_id
    bindings,   \* _auth_session_bindings of the metrics
    online,     \* _online_connections of the metrics
    h, req,     \* where the connection's handler is, and the frame it handles
    answer,     \* what the handler's last query said
    task,       \* _auth_revalidation_task
    verdict,    \* what the task's last query said
    late,       \* the session its last authenticate frame names had ended when it arrived
    admitted    \* the connection has the reply to its last frame, that it is authenticated

sessionVars == <<ended, notice>>
bindVars    == <<auth, group, members>>
metricVars  == <<metric, bindings, online>>
handlerVars == <<h, req, answer>>
replyVars   == <<late, admitted>>
taskVars    == <<task, verdict>>
vars == <<sessionVars, state, bindVars, mail, terminals, count, metricVars, handlerVars, replyVars, taskVars>>

Endings    == {"no", "converged", "reset", "lapsed"}
Contents   == ({"authenticate"} \X (Sessions \cup {NoSession})) \cup {<<"ping", NoSession>>, <<"game", NoSession>>}
Frames     == [rid : Rids, content : Contents]
NoFrame    == [rid |-> "none", content |-> <<"ping", NoSession>>]
Terminal   == [content : Contents, bound : BOOLEAN]
NoTerminal == [content |-> <<"none", NoSession>>, bound |-> FALSE]
Asking     == {"resolving", "joined", "asking", "replaying"}
Handlers   == Asking \cup {"ready", "resolved", "checked", "asked", "replayed", "dead"}

Active(s)   == s # NoSession /\ ended[s] = "no"
Recorded(c) == {r \in Rids : terminals[c][r] # NoTerminal}

ConnTypeOK ==
    /\ ended \in [Sessions -> Endings]
    /\ notice \in [Sessions -> {"none", "due", "sent", "lost"}]
    /\ state \in [Conns -> {"none", "active", "closing", "closed"}]
    /\ auth \in [Conns -> Sessions \cup {NoSession}]
    /\ group \in [Conns -> Sessions \cup {NoSession}]
    /\ members \subseteq Conns \X Sessions
    /\ mail \in [Conns -> SUBSET Sessions]
    /\ terminals \in [Conns -> [Rids -> Terminal \cup {NoTerminal}]]
    /\ \A c \in Conns : Cardinality(Recorded(c)) <= Capacity
    /\ count \in [Conns -> 0 .. RateLimit]
    /\ metric \in [Conns -> Sessions \cup {NoSession}]
    /\ bindings \in [Sessions -> 0 .. Cardinality(Conns)]
    /\ online \in 0 .. Cardinality(Conns)
    /\ h \in [Conns -> Handlers]
    /\ req \in [Conns -> Frames \cup {NoFrame}]
    /\ answer \in [Conns -> BOOLEAN]
    /\ task \in [Conns -> {"none", "sleeping", "asking", "asked"}]
    /\ verdict \in [Conns -> BOOLEAN]
    /\ late \in [Conns -> BOOLEAN]
    /\ admitted \in [Conns -> BOOLEAN]

Init ==
    /\ ended = [s \in Sessions |-> "no"]
    /\ notice = [s \in Sessions |-> "none"]
    /\ state = [c \in Conns |-> "none"]
    /\ auth = [c \in Conns |-> NoSession]
    /\ group = [c \in Conns |-> NoSession]
    /\ members = {}
    /\ mail = [c \in Conns |-> {}]
    /\ terminals = [c \in Conns |-> [r \in Rids |-> NoTerminal]]
    /\ count = [c \in Conns |-> 0]
    /\ metric = [c \in Conns |-> NoSession]
    /\ bindings = [s \in Sessions |-> 0]
    /\ online = 0
    /\ h = [c \in Conns |-> "ready"]
    /\ req = [c \in Conns |-> NoFrame]
    /\ answer = [c \in Conns |-> FALSE]
    /\ task = [c \in Conns |-> "none"]
    /\ verdict = [c \in Conns |-> FALSE]
    /\ late = [c \in Conns |-> FALSE]
    /\ admitted = [c \in Conns |-> FALSE]

-----------------------------------------------------------------------------
(* Helpers.                                                                  *)

Set(f, c, v) == [f EXCEPT ![c] = v]

\* _bind_auth_session_metric.
Bind(c, s) ==
    /\ metric' = Set(metric, c, s)
    /\ bindings' = IF metric[c] = s THEN bindings ELSE [bindings EXCEPT ![s] = @ + 1]

\* Mutant: the binding is forgotten without giving it back.
UnbindForgets(c) ==
    /\ metric' = Set(metric, c, NoSession)
    /\ UNCHANGED bindings

\* _unbind_auth_session_metric.
Unbind(c) ==
    /\ metric' = Set(metric, c, NoSession)
    /\ bindings' = [s \in Sessions |-> IF s = metric[c] THEN bindings[s] - 1 ELSE bindings[s]]

\* The handler goes on to its next step.
Goes(c, to, says) ==
    /\ h' = Set(h, c, to)
    /\ answer' = Set(answer, c, says)
    /\ UNCHANGED req

\* The handler is done with its frame, and has answered it.
Replies(c, succeeds) ==
    /\ h' = Set(h, c, "ready")
    /\ req' = Set(req, c, NoFrame)
    /\ answer' = Set(answer, c, FALSE)
    /\ admitted' = Set(admitted, c, succeeds)
    /\ UNCHANGED late

\* The reply is kept for the request id.
Keep(c, f, bound) == terminals' = [terminals EXCEPT ![c][f.rid] = [content |-> f.content, bound |-> bound]]

\* auth_session_invalidated: only the disconnect leaves the group.
Invalidate(c) ==
    /\ state' = Set(state, c, "closing")
    /\ task' = Set(task, c, "none")
    /\ verdict' = Set(verdict, c, FALSE)
    /\ Unbind(c)
    /\ auth' = Set(auth, c, NoSession)
    /\ terminals' = Set(terminals, c, [r \in Rids |-> NoTerminal])
    /\ UNCHANGED <<sessionVars, group, members, count, online, handlerVars, replyVars>>

-----------------------------------------------------------------------------
(* Opening, frames.                                                          *)

Connect(c) ==
    /\ state[c] = "none"
    /\ state' = Set(state, c, "active")
    /\ online' = online + 1
    /\ UNCHANGED <<sessionVars, bindVars, mail, terminals, count, metric, bindings, handlerVars,
                   replyVars, taskVars>>

\* Frames that came in before the connection's own close are still dispatched after it.
Dispatchable(c) == state[c] \in {"active", "closing"} /\ h[c] = "ready"

Allowed(c)  == count[c] < RateLimit
Known(c, r) == terminals[c][r] # NoTerminal

\* Mutant: one terminal too many.
FullLate(c) == Cardinality(Recorded(c)) > Capacity

Full(c) == Cardinality(Recorded(c)) >= Capacity

\* Mutant: the refusal is recorded for any request id.
RejectRecords(c, f) ==
    /\ ~Allowed(c) \/ (~Known(c, f.rid) /\ Full(c))
    /\ Keep(c, f, FALSE)

\* Too many requests in the window, or no room for another terminal.
Reject(c, f) ==
    /\ ~Allowed(c) \/ (~Known(c, f.rid) /\ Full(c))
    /\ IF Known(c, f.rid) \/ Full(c) THEN UNCHANGED terminals ELSE Keep(c, f, FALSE)

Arrives(c, f) ==
    /\ Dispatchable(c)
    /\ late' = Set(late, c, f.content[1] = "authenticate" /\ ~Active(f.content[2]))

ReceiveRejected(c, f) ==
    /\ Arrives(c, f)
    /\ Reject(c, f)
    /\ count' = IF Allowed(c) THEN Set(count, c, count[c] + 1) ELSE count
    /\ state' = Set(state, c, "closing")
    /\ admitted' = Set(admitted, c, FALSE)
    /\ UNCHANGED <<sessionVars, bindVars, mail, metricVars, handlerVars, taskVars>>

Admit(c, f) ==
    /\ Arrives(c, f)
    /\ Allowed(c)
    /\ count' = Set(count, c, count[c] + 1)
    /\ UNCHANGED <<sessionVars, state, bindVars, mail, metricVars, taskVars>>

\* Mutant: every recorded reply is replayed as it is.
AsksReplayNever(t) == FALSE

AsksReplay(t) == t.bound

Same(c, f) == terminals[c][f.rid].content = f.content

\* REQUEST_ID_CONFLICT, or the recorded reply again.
ReceiveReplayed(c, f) ==
    /\ Admit(c, f)
    /\ Known(c, f.rid)
    /\ Same(c, f) => ~AsksReplay(terminals[c][f.rid])
    /\ admitted' = Set(admitted, c, Same(c, f) /\ terminals[c][f.rid].bound)
    /\ UNCHANGED <<terminals, handlerVars>>

IsNew(c, f) == ~Known(c, f.rid) /\ ~Full(c)

\* Answered at once: a ping, or a game request of an unbound connection.
ReceiveAnswered(c, f) ==
    /\ Admit(c, f)
    /\ IsNew(c, f)
    /\ f.content[1] = "ping" \/ (f.content[1] = "game" /\ auth[c] = NoSession)
    /\ Keep(c, f, FALSE)
    /\ admitted' = Set(admitted, c, FALSE)
    /\ UNCHANGED handlerVars

\* Where the handler goes with a frame it has to ask the database about.
FirstQuestion(c, f) ==
    CASE Known(c, f.rid)                                     -> "replaying"
      [] ~Known(c, f.rid) /\ auth[c] # NoSession             -> "asking"
      [] ~Known(c, f.rid) /\ auth[c] = NoSession             -> "resolving"

ReceiveAsking(c, f) ==
    /\ Admit(c, f)
    /\ \/ Known(c, f.rid) /\ Same(c, f) /\ AsksReplay(terminals[c][f.rid])
       \/ IsNew(c, f) /\ f.content[1] = "authenticate"
       \/ IsNew(c, f) /\ f.content[1] = "game" /\ auth[c] # NoSession
    /\ h' = Set(h, c, FirstQuestion(c, f))
    /\ req' = Set(req, c, f)
    /\ admitted' = Set(admitted, c, FALSE)
    /\ UNCHANGED <<terminals, answer>>

\* A frame without a usable request id, a binary frame, text that is not JSON.
ProtocolError(c) ==
    /\ Dispatchable(c)
    /\ state' = Set(state, c, "closing")
    /\ UNCHANGED <<sessionVars, bindVars, mail, terminals, count, metricVars, handlerVars,
                   replyVars, taskVars>>

\* GAME_WEBSOCKET_REQUEST_RATE_WINDOW_SECONDS have passed.
WindowPasses(c) ==
    /\ count[c] > 0
    /\ count' = Set(count, c, 0)
    /\ UNCHANGED <<sessionVars, state, bindVars, mail, terminals, metricVars, handlerVars,
                   replyVars, taskVars>>

-----------------------------------------------------------------------------
(* session.authenticate on an unbound connection.                            *)

Query(c, s, from, to) ==
    /\ h[c] = from
    /\ Goes(c, to, Active(s))
    /\ UNCHANGED <<sessionVars, state, bindVars, mail, terminals, count, metricVars, replyVars, taskVars>>

Resolve(c) == Query(c, req[c].content[2], "resolving", "resolved")

\* Bound and in the group first, asked about again afterwards.
Join(c) ==
    /\ h[c] = "resolved"
    /\ answer[c]
    /\ LET s == req[c].content[2] IN
       /\ auth' = Set(auth, c, s)
       /\ group' = Set(group, c, s)
       /\ members' = members \cup {<<c, s>>}
    /\ Goes(c, "joined", FALSE)
    /\ UNCHANGED <<sessionVars, state, mail, terminals, count, metricVars, replyVars, taskVars>>

ResolveFailed(c) ==
    /\ h[c] = "resolved"
    /\ ~answer[c]
    /\ Keep(c, req[c], FALSE)
    /\ Replies(c, FALSE)
    /\ UNCHANGED <<sessionVars, state, bindVars, mail, count, metricVars, taskVars>>

\* Mutant: the session that was resolved is not asked about again.
CheckTrusts(c) ==
    /\ h[c] = "joined"
    /\ Goes(c, "checked", TRUE)
    /\ UNCHANGED <<sessionVars, state, bindVars, mail, terminals, count, metricVars, replyVars, taskVars>>

Check(c) == Query(c, auth[c], "joined", "checked")

\* Mutant: no task.
StartNoTask(c) == UNCHANGED taskVars

\* _start_auth_revalidation.
StartTask(c) == task' = Set(task, c, "sleeping") /\ verdict' = Set(verdict, c, FALSE)

Authenticated(c) ==
    /\ h[c] = "checked"
    /\ answer[c]
    /\ Bind(c, auth[c])
    /\ StartTask(c)
    /\ Keep(c, req[c], TRUE)
    /\ Replies(c, TRUE)
    /\ UNCHANGED <<sessionVars, state, bindVars, mail, count, online>>

NotAuthenticated(c) ==
    /\ h[c] = "checked"
    /\ ~answer[c]
    /\ members' = members \ {<<c, group[c]>>}
    /\ group' = Set(group, c, NoSession)
    /\ auth' = Set(auth, c, NoSession)
    /\ Keep(c, req[c], FALSE)
    /\ Replies(c, FALSE)
    /\ UNCHANGED <<sessionVars, state, mail, count, metricVars, taskVars>>

-----------------------------------------------------------------------------
(* The other frames that ask.                                                *)

Ask(c) ==
    \/ Query(c, auth[c], "asking", "asked")
    \/ Query(c, auth[c], "replaying", "replayed")

\* Nothing but an authentication succeeds yet; the task may have emptied the records
\* since the frame came in.
Fail(c) ==
    /\ h[c] = "asked"
    /\ Keep(c, req[c], FALSE)
    /\ Replies(c, FALSE)
    /\ UNCHANGED <<sessionVars, state, bindVars, mail, count, metricVars, taskVars>>

Replay(c) ==
    /\ h[c] = "replayed"
    /\ Replies(c, answer[c])
    /\ UNCHANGED <<sessionVars, state, bindVars, mail, terminals, count, metricVars, taskVars>>

\* The query raises, and the consumer with it: nothing is dispatched any more, not even
\* the disconnect, and a task it has runs on.
HandlerFails(c) ==
    /\ h[c] \in Asking
    /\ h' = Set(h, c, "dead")
    /\ req' = Set(req, c, NoFrame)
    /\ answer' = Set(answer, c, FALSE)
    /\ UNCHANGED <<sessionVars, state, bindVars, mail, terminals, count, metricVars, replyVars, taskVars>>

HandlerStep(c) ==
    \/ Resolve(c) \/ Join(c) \/ ResolveFailed(c) \/ Check(c) \/ Authenticated(c)
    \/ NotAuthenticated(c) \/ Ask(c) \/ Fail(c) \/ Replay(c)

-----------------------------------------------------------------------------
(* _revalidate_bound_auth_session, beside the handlers.                      *)

TaskGoes(c, from, to, says) ==
    /\ task[c] = from
    /\ task' = Set(task, c, to)
    /\ verdict' = Set(verdict, c, says)
    /\ UNCHANGED <<sessionVars, state, bindVars, mail, terminals, count, metricVars, handlerVars, replyVars>>

TaskWakes(c) == TaskGoes(c, "sleeping", "asking", FALSE)

TaskAsks(c) == TaskGoes(c, "asking", "asked", Active(auth[c]))

TaskGoesOn(c) == verdict[c] /\ TaskGoes(c, "asked", "sleeping", FALSE)

\* The session has ended, or the query raised.
TaskEnds(c) ==
    /\ task[c] = "asking" \/ (task[c] = "asked" /\ ~verdict[c])
    /\ Invalidate(c)
    /\ UNCHANGED mail

TaskStep(c) == TaskWakes(c) \/ TaskAsks(c) \/ TaskGoesOn(c) \/ TaskEnds(c)

-----------------------------------------------------------------------------
(* The end of sessions, notices, the end of the connection.                  *)

Ends(s, how, due) ==
    /\ ended[s] = "no"
    /\ ended' = [ended EXCEPT ![s] = how]
    /\ notice' = [notice EXCEPT ![s] = due]
    /\ UNCHANGED <<state, bindVars, mail, terminals, count, metricVars, handlerVars, replyVars, taskVars>>

\* A commit of _converge_authentication_control (logout, refresh replay or expiry, lifecycle).
EndConverges(s) == Ends(s, "converged", "due")

\* A commit of _reset_password_with_verification.
EndResets(s) == Ends(s, "reset", "none")

\* expires_at, or an account that may no longer be used.
EndLapses(s) == Ends(s, "lapsed", "none")

\* transaction.on_commit: group_send into the channels of the group, or an exception.
Notify(s) ==
    /\ notice[s] = "due"
    /\ \/ /\ notice' = [notice EXCEPT ![s] = "sent"]
          /\ mail' = [c \in Conns |-> IF <<c, s>> \in members THEN mail[c] \cup {s} ELSE mail[c]]
       \/ /\ notice' = [notice EXCEPT ![s] = "lost"]
          /\ UNCHANGED mail
    /\ UNCHANGED <<ended, state, bindVars, terminals, count, metricVars, handlerVars, replyVars, taskVars>>

DispatchNotice(c, s) ==
    /\ Dispatchable(c)
    /\ s \in mail[c]
    /\ mail' = Set(mail, c, mail[c] \ {s})
    /\ Invalidate(c)

Disconnect(c) ==
    /\ Dispatchable(c)
    /\ state' = Set(state, c, "closed")
    /\ task' = Set(task, c, "none")
    /\ verdict' = Set(verdict, c, FALSE)
    /\ members' = members \ {<<c, group[c]>>}
    /\ group' = Set(group, c, NoSession)
    /\ Unbind(c)
    /\ auth' = Set(auth, c, NoSession)
    /\ terminals' = Set(terminals, c, [r \in Rids |-> NoTerminal])
    /\ online' = online - 1
    /\ mail' = Set(mail, c, {})
    /\ UNCHANGED <<sessionVars, count, handlerVars, replyVars>>

-----------------------------------------------------------------------------

Next ==
    \/ \E c \in Conns :
        \/ Connect(c) \/ ProtocolError(c) \/ WindowPasses(c) \/ Disconnect(c)
        \/ HandlerStep(c) \/ HandlerFails(c) \/ TaskStep(c)
        \/ \E f \in Frames :
            ReceiveRejected(c, f) \/ ReceiveReplayed(c, f) \/ ReceiveAnswered(c, f) \/ ReceiveAsking(c, f)
        \/ \E s \in Sessions : DispatchNotice(c, s)
    \/ \E s \in Sessions : EndConverges(s) \/ EndResets(s) \/ EndLapses(s) \/ Notify(s)

Spec == Init /\ [][Next]_vars

FairSpec == Spec /\ \A c \in Conns : WF_vars(HandlerStep(c)) /\ WF_vars(TaskStep(c))

-----------------------------------------------------------------------------
(* Properties.                                                               *)

\* A connection at rest that is bound to a session whose end was notified has the notice
\* in its channel: the session cannot end, and its group be told, between the first
\* question about the token and the binding without the connection noticing
\* (_authenticate joins the group, then asks again).
NoLostNotice ==
    \A c \in Conns : \A s \in Sessions :
        h[c] = "ready" /\ auth[c] = s /\ notice[s] = "sent" => s \in mail[c]

\* The reply to session.authenticate, the first or a replay of it, says that the session is
\* authenticated only if it had not ended when the frame came in
\* (requires_active_auth_binding in receive_json, the last check of _authenticate).
HonestReplies == \A c \in Conns : admitted[c] => ~late[c]

\* The recorded reply of a request id is never replaced by another: it is only dropped,
\* with the binding of the connection, whatever refusals, conflicts, late answers and
\* invalidations are interleaved (_terminals).
TerminalIsUnique ==
    [][\A c \in Conns, r \in Rids :
         terminals[c][r] # NoTerminal =>
            \/ terminals'[c][r] = terminals[c][r]
            \/ terminals'[c][r] = NoTerminal /\ auth'[c] = NoSession /\ state'[c] # "active"]_vars

\* The number of online AuthSessions is that of the sessions connections are bound to
\* (auth_session_bound and auth_session_unbound, called from handlers and from the task).
MetricsAgree ==
    /\ \A s \in Sessions : bindings[s] = Cardinality({c \in Conns : metric[c] = s})
    /\ \A c \in Conns : h[c] = "ready" => metric[c] = auth[c]

\* A connection bound to an ended session is unbound, if its consumer lives: "channel loss
\* can delay but cannot indefinitely prevent runtime convergence"
\* (notify_auth_session_invalidated, _start_auth_revalidation).
RevokedCloses ==
    \A c \in Conns :
        (auth[c] # NoSession /\ ~Active(auth[c])) ~>
            (auth[c] = NoSession \/ Active(auth[c]) \/ h[c] = "dead")

\* What the handoff document says of a reset: the connections of the sessions it revokes are
\* notified after the commit, as those of a logout or a replay are
\* (_reset_password_with_verification does not call notify_auth_session_invalidated).
ResetNotifies == \A s \in Sessions : ended[s] = "reset" => notice[s] # "none"
=============================================================================
