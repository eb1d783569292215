------------------------- MODULE GameConnectionProofs -------------------------
(***************************************************************************)
(* Theorems about GameConnection, for any connections, sessions, request ids  *)
(* and limits.                                                             *)
(*                                                                         *)
(* A handler waits for the database between its steps, and the revalidation   *)
(* task and the notices run meanwhile: ConnRight says what each place of a    *)
(* handler still knows of its frame, the binding and the records.            *)
(***************************************************************************)
EXTENDS GameConnection, FiniteSetTheorems, TLAPS

Binding   == {"joined", "checked"}
Resolving == {"resolving", "resolved"}
Answering == Resolving \cup Binding \cup {"asking", "asked"}
Busy      == Answering \cup {"replaying", "replayed"}
Open      == {"active", "closing"}

-----------------------------------------------------------------------------
(* The invariant.                                                            *)

\* A handler at work has a frame and an open socket, and so does a task.
PlaceRight(c) ==
    /\ h[c] # "ready" \/ task[c] # "none" => state[c] \in Open
    /\ h[c] \in Busy => req[c] \in Frames

\* Who is bound is in the group; the metric and the task are there from the last check on.
BindingRight(c) ==
    /\ auth[c] # NoSession => <<c, auth[c]>> \in members
    /\ task[c] # "none" => auth[c] # NoSession /\ metric[c] = auth[c]
    /\ h[c] \notin Binding \cup {"dead"} => metric[c] = auth[c]
    /\ h[c] \in Resolving => auth[c] = NoSession /\ req[c].content[1] = "authenticate"
    /\ h[c] = "resolved" /\ answer[c] => req[c].content[2] # NoSession
    /\ h[c] \in Binding => auth[c] # NoSession /\ metric[c] = NoSession
    /\ h[c] \in Binding => req[c].content = <<"authenticate", auth[c]>>

\* There is room for the reply a handler is to record, and nobody records it meanwhile.
RecordsRight(c) ==
    /\ IsFiniteSet(Recorded(c)) /\ Cardinality(Recorded(c)) <= Capacity
    /\ h[c] \in Answering =>
          terminals[c][req[c].rid] = NoTerminal /\ Cardinality(Recorded(c)) < Capacity
    /\ \A r \in Rids : terminals[c][r].bound =>
          /\ metric[c] # NoSession /\ metric[c] = auth[c]
          /\ terminals[c][r].content = <<"authenticate", auth[c]>>
    /\ h[c] = "replaying" /\ auth[c] # NoSession => req[c].content = <<"authenticate", auth[c]>>

\* A session that had ended when the frame came in is ended whenever the handler asks.
RepliesRight(c) ==
    /\ h[c] \in Busy /\ late[c] => req[c].content[1] = "authenticate" /\ ~Active(req[c].content[2])
    /\ h[c] \in {"checked", "replayed"} /\ answer[c] => ~late[c]
    /\ admitted[c] => ~late[c]

\* A notice that was sent is in the channel, unless the last question is still to be asked.
NoticesRight(c) ==
    auth[c] # NoSession /\ notice[auth[c]] = "sent" =>
        \/ auth[c] \in mail[c]
        \/ h[c] \in {"joined", "dead"}
        \/ h[c] = "checked" /\ ~answer[c]

ConnRight(c) ==
    PlaceRight(c) /\ BindingRight(c) /\ RecordsRight(c) /\ RepliesRight(c) /\ NoticesRight(c)

GameTypes ==
    /\ ended \in [Sessions -> Endings]
    /\ notice \in [Sessions -> {"none", "due", "sent", "lost"}]
    /\ state \in [Conns -> {"none", "active", "closing", "closed"}]
    /\ auth \in [Conns -> Sessions \cup {NoSession}]
    /\ group \in [Conns -> Sessions \cup {NoSession}]
    /\ members \subseteq Conns \X Sessions
    /\ mail \in [Conns -> SUBSET Sessions]
    /\ terminals \in [Conns -> [Rids -> Terminal \cup {NoTerminal}]]
    /\ count \in [Conns -> 0 .. RateLimit]
    /\ metric \in [Conns -> Sessions \cup {NoSession}]
    /\ bindings \in [Sessions -> Nat]
    /\ online \in Nat
    /\ h \in [Conns -> Handlers]
    /\ req \in [Conns -> Frames \cup {NoFrame}]
    /\ answer \in [Conns -> BOOLEAN]
    /\ task \in [Conns -> {"none", "sleeping", "asking", "asked"}]
    /\ verdict \in [Conns -> BOOLEAN]
    /\ late \in [Conns -> BOOLEAN]
    /\ admitted \in [Conns -> BOOLEAN]

\* What the metrics count.
Bound(s) == {c \in Conns : metric[c] = s}
Opened   == {c \in Conns : state[c] \in Open}

MetricsRight ==
    /\ \A s \in Sessions : bindings[s] = Cardinality(Bound(s))
    /\ online = Cardinality(Opened)

GameInv ==
    /\ GameTypes
    /\ MetricsRight
    /\ \A s \in Sessions : notice[s] # "none" => ended[s] # "no"
    /\ \A c \in Conns : ConnRight(c)

-----------------------------------------------------------------------------
(* What a step leaves alone.                                                 *)

USE DEF Set, sessionVars, bindVars, metricVars, handlerVars, replyVars, taskVars

\* A step of another connection, or of a session, as the connection sees it.
Alike(d) ==
    /\ state'[d] = state[d] /\ auth'[d] = auth[d] /\ terminals'[d] = terminals[d]
    /\ metric'[d] = metric[d] /\ h'[d] = h[d] /\ req'[d] = req[d] /\ answer'[d] = answer[d]
    /\ task'[d] = task[d] /\ late'[d] = late[d] /\ admitted'[d] = admitted[d]
    /\ \A s \in Sessions : <<d, s>> \in members => <<d, s>> \in members'
    /\ mail[d] \subseteq mail'[d]

LEMMA Undisturbed ==
    ASSUME GameTypes,
           NEW d \in Conns, ConnRight(d), Alike(d),
           \A s \in Sessions : ended[s] # "no" => ended'[s] # "no",
           auth[d] # NoSession /\ notice'[auth[d]] = "sent" =>
               notice[auth[d]] = "sent" \/ auth[d] \in mail'[d]
    PROVE  ConnRight(d)'
<1> USE DEF Alike, GameTypes
<1>1. auth[d] \in Sessions \cup {NoSession}
  OBVIOUS
<1>2. PlaceRight(d)'
  BY DEF ConnRight, PlaceRight
<1>3. BindingRight(d)'
  BY <1>1 DEF ConnRight, BindingRight
<1>4. RecordsRight(d)'
  <2>1. Recorded(d)' = Recorded(d)
    BY DEF Recorded
  <2> QED BY <2>1 DEF ConnRight, RecordsRight
<1>5. RepliesRight(d)'
  <2>1. h[d] \in Busy => req[d].content[2] \in Sessions \cup {NoSession}
    BY DEF ConnRight, PlaceRight, Frames, Contents
  <2>2. h[d] \in Busy /\ ~Active(req[d].content[2]) => ~Active(req[d].content[2])'
    BY <2>1 DEF Active
  <2> QED BY <2>2 DEF ConnRight, RepliesRight
<1>6. NoticesRight(d)'
  BY <1>1 DEF ConnRight, NoticesRight
<1> QED BY <1>2, <1>3, <1>4, <1>5, <1>6 DEF ConnRight

\* It is enough to look at the connection that takes the step.
LEMMA StepRight ==
    ASSUME GameInv, NEW c \in Conns, UNCHANGED sessionVars,
           GameTypes', MetricsRight', ConnRight(c)',
           \A d \in Conns \ {c} : Alike(d)
    PROVE  GameInv'
<1>1. \A d \in Conns \ {c} : ConnRight(d)'
  BY Undisturbed DEF GameInv
<1> QED BY <1>1 DEF GameInv

\* Steps that neither bind nor open nor close.
LEMMA MetricsKept ==
    ASSUME MetricsRight, UNCHANGED metricVars,
           \A d \in Conns : state'[d] \in Open <=> state[d] \in Open
    PROVE  MetricsRight'
<1>1. \A s \in Sessions : Bound(s)' = Bound(s)
  BY DEF Bound
<1>2. Opened' = Opened
  BY DEF Opened
<1> QED BY <1>1, <1>2 DEF MetricsRight

-----------------------------------------------------------------------------
(* Counting: the metrics and the records.                                    *)

LEMMA Countable == /\ \A s \in Sessions : IsFiniteSet(Bound(s)) /\ Cardinality(Bound(s)) \in 0 .. Cardinality(Conns)
                   /\ IsFiniteSet(Opened) /\ Cardinality(Opened) \in 0 .. Cardinality(Conns)
<1>1. \A S \in SUBSET Conns : IsFiniteSet(S) /\ Cardinality(S) \in 0 .. Cardinality(Conns)
  BY FinitelyManyAssumption, FS_Subset, FS_CardinalityType
<1> QED BY <1>1 DEF Bound, Opened

\* _unbind_auth_session_metric gives back what was bound, and nothing else.
LEMMA UnbindCounts ==
    ASSUME GameTypes, MetricsRight, NEW c \in Conns, Unbind(c)
    PROVE  /\ metric' = [metric EXCEPT ![c] = NoSession]
           /\ bindings' \in [Sessions -> Nat]
           /\ \A s \in Sessions : bindings'[s] = Cardinality(Bound(s)')
<1> USE DEF GameTypes
<1>1. metric' = [metric EXCEPT ![c] = NoSession]
  BY DEF Unbind
<1>2. ASSUME NEW s \in Sessions
      PROVE  bindings'[s] \in Nat /\ bindings'[s] = Cardinality(Bound(s)')
  <2>1. CASE metric[c] = s
    <3>1. Bound(s)' = Bound(s) \ {c} /\ c \in Bound(s)
      BY <1>1, <2>1, NoSessionAssumption DEF Bound
    <3>2. Cardinality(Bound(s)') = Cardinality(Bound(s)) - 1
      BY <3>1, Countable, FS_RemoveElement
    <3>3. bindings'[s] = bindings[s] - 1
      BY <2>1 DEF Unbind
    <3>4. IsFiniteSet(Bound(s)')
      BY <3>1, Countable, FS_RemoveElement
    <3> QED BY <3>2, <3>3, <3>4, FS_CardinalityType DEF MetricsRight
  <2>2. CASE metric[c] # s
    <3>1. Bound(s)' = Bound(s)
      BY <1>1, <2>2, NoSessionAssumption DEF Bound
    <3> QED BY <2>2, <3>1 DEF Unbind, MetricsRight
  <2> QED BY <2>1, <2>2
<1> QED BY <1>1, <1>2 DEF Unbind

LEMMA BindCounts ==
    ASSUME GameTypes, MetricsRight, NEW c \in Conns, NEW s \in Sessions,
           metric[c] = NoSession, Bind(c, s)
    PROVE  /\ metric' = [metric EXCEPT ![c] = s]
           /\ bindings' \in [Sessions -> Nat]
           /\ \A t \in Sessions : bindings'[t] = Cardinality(Bound(t)')
<1> USE DEF GameTypes
<1>1. /\ metric' = [metric EXCEPT ![c] = s]
      /\ bindings' = [bindings EXCEPT ![s] = @ + 1]
  BY NoSessionAssumption DEF Bind
<1>2. Bound(s)' = Bound(s) \cup {c} /\ c \notin Bound(s)
  BY <1>1, NoSessionAssumption DEF Bound
<1>3. Cardinality(Bound(s)') = Cardinality(Bound(s)) + 1
  <2>1. Cardinality(Bound(s) \cup {c}) = Cardinality(Bound(s)) + 1
    BY <1>2, Countable, FS_AddElement
  <2> QED BY <1>2, <2>1
<1>4. \A t \in Sessions \ {s} : Bound(t)' = Bound(t)
  BY <1>1, NoSessionAssumption DEF Bound
<1> QED BY <1>1, <1>3, <1>4 DEF MetricsRight

\* A reply recorded for a request id that has none.
LEMMA KeepCounts ==
    ASSUME GameTypes, NEW c \in Conns, NEW f \in Frames, NEW bound \in BOOLEAN,
           IsFiniteSet(Recorded(c)), ~Known(c, f.rid), Keep(c, f, bound)
    PROVE  /\ terminals' \in [Conns -> [Rids -> Terminal \cup {NoTerminal}]]
           /\ terminals'[c] = [terminals[c] EXCEPT ![f.rid] = [content |-> f.content, bound |-> bound]]
           /\ \A d \in Conns \ {c} : terminals'[d] = terminals[d]
           /\ IsFiniteSet(Recorded(c)')
           /\ Cardinality(Recorded(c)') = Cardinality(Recorded(c)) + 1
<1> USE DEF GameTypes
<1>1. f.rid \in Rids /\ f.content \in Contents
  BY DEF Frames
<1>2. /\ terminals' \in [Conns -> [Rids -> Terminal \cup {NoTerminal}]]
      /\ terminals'[c] = [terminals[c] EXCEPT ![f.rid] = [content |-> f.content, bound |-> bound]]
      /\ \A d \in Conns \ {c} : terminals'[d] = terminals[d]
  BY <1>1 DEF Keep, Terminal
<1>3. [content |-> f.content, bound |-> bound] # NoTerminal
  <2>1. f.content # <<"none", NoSession>>
    BY <1>1 DEF Contents
  <2> QED BY <2>1 DEF NoTerminal
<1>4. Recorded(c)' = Recorded(c) \cup {f.rid} /\ f.rid \notin Recorded(c)
  BY <1>1, <1>2, <1>3 DEF Recorded, Known
<1>5. /\ IsFiniteSet(Recorded(c) \cup {f.rid})
      /\ Cardinality(Recorded(c) \cup {f.rid}) = Cardinality(Recorded(c)) + 1
  BY <1>4, FS_AddElement
<1> QED BY <1>2, <1>4, <1>5

-----------------------------------------------------------------------------
(* Opening, frames.                                                          *)

LEMMA ConnectRight == ASSUME GameInv, NEW c \in Conns, Connect(c) PROVE GameInv'
<1> USE DEF GameInv, GameTypes, Connect
<1>1. GameTypes'
  OBVIOUS
<1>2. MetricsRight'
  <2>1. Opened' = Opened \cup {c} /\ c \notin Opened
    BY DEF Opened, Open
  <2>2. Cardinality(Opened \cup {c}) = Cardinality(Opened) + 1
    BY <2>1, Countable, FS_AddElement
  <2>3. \A s \in Sessions : Bound(s)' = Bound(s)
    BY DEF Bound
  <2> QED BY <2>1, <2>2, <2>3 DEF MetricsRight
<1>3. ConnRight(c)'
  <2>1. Recorded(c)' = Recorded(c)
    BY DEF Recorded
  <2>2. PlaceRight(c)'
    BY DEF ConnRight, PlaceRight, Open
  <2>3. BindingRight(c)'
    BY DEF ConnRight, BindingRight
  <2>4. RecordsRight(c)'
    BY <2>1 DEF ConnRight, RecordsRight
  <2>5. RepliesRight(c)' /\ NoticesRight(c)'
    BY DEF ConnRight, RepliesRight, NoticesRight, Active
  <2> QED BY <2>2, <2>3, <2>4, <2>5 DEF ConnRight
<1>4. \A d \in Conns \ {c} : Alike(d)
  BY DEF Alike
<1> QED BY <1>1, <1>2, <1>3, <1>4, StepRight

LEMMA ProtocolErrorRight == ASSUME GameInv, NEW c \in Conns, ProtocolError(c) PROVE GameInv'
<1> USE DEF GameInv, GameTypes, ProtocolError, Dispatchable
<1>1. GameTypes'
  OBVIOUS
<1>2. MetricsRight'
  BY MetricsKept DEF Open
<1>3. ConnRight(c)'
  <2>1. Recorded(c)' = Recorded(c)
    BY DEF Recorded
  <2>2. PlaceRight(c)'
    BY DEF ConnRight, PlaceRight, Open
  <2>3. BindingRight(c)'
    BY DEF ConnRight, BindingRight
  <2>4. RecordsRight(c)'
    BY <2>1 DEF ConnRight, RecordsRight
  <2>5. RepliesRight(c)' /\ NoticesRight(c)'
    BY DEF ConnRight, RepliesRight, NoticesRight, Active
  <2> QED BY <2>2, <2>3, <2>4, <2>5 DEF ConnRight
<1>4. \A d \in Conns \ {c} : Alike(d)
  BY DEF Alike
<1> QED BY <1>1, <1>2, <1>3, <1>4, StepRight

LEMMA WindowPassesRight == ASSUME GameInv, NEW c \in Conns, WindowPasses(c) PROVE GameInv'
<1> USE DEF GameInv, GameTypes, WindowPasses
<1>1. GameTypes'
  BY LimitsAssumption
<1>2. MetricsRight'
  BY MetricsKept
<1>3. \A d \in Conns : Alike(d)
  BY DEF Alike
<1>4. ConnRight(c)'
  BY <1>3, Undisturbed
<1> QED BY <1>1, <1>2, <1>3, <1>4, StepRight

\* What a frame that is answered at once does: it may take a request id, without binding.
Answers(c, f) ==
    /\ Dispatchable(c)
    /\ late' \in [Conns -> BOOLEAN] /\ \A d \in Conns \ {c} : late'[d] = late[d]
    /\ count' \in [Conns -> 0 .. RateLimit]
    /\ state' = state \/ state' = Set(state, c, "closing")
    /\ admitted' = Set(admitted, c, FALSE)
    /\ \/ UNCHANGED terminals
       \/ ~Known(c, f.rid) /\ ~Full(c) /\ Keep(c, f, FALSE)
    /\ UNCHANGED <<sessionVars, bindVars, mail, metricVars, handlerVars, taskVars>>

LEMMA AnswersRight ==
    ASSUME GameInv, NEW c \in Conns, NEW f \in Frames, Answers(c, f)
    PROVE  GameInv'
<1> USE DEF GameInv, GameTypes, Answers, Dispatchable
<1>1. CASE UNCHANGED terminals
  <2>1. GameTypes'
    BY <1>1
  <2>2. MetricsRight'
    BY MetricsKept DEF Open
  <2>3. ConnRight(c)'
    <3>1. Recorded(c)' = Recorded(c)
      BY <1>1 DEF Recorded
    <3>2. PlaceRight(c)'
      BY DEF ConnRight, PlaceRight, Open, Busy, Answering, Resolving, Binding
    <3>3. BindingRight(c)'
      BY DEF ConnRight, BindingRight
    <3>4. RecordsRight(c)'
      BY <1>1, <3>1 DEF ConnRight, RecordsRight
    <3>5. RepliesRight(c)'
      BY DEF RepliesRight, Busy, Answering, Resolving, Binding
    <3>6. NoticesRight(c)'
      BY DEF ConnRight, NoticesRight
    <3> QED BY <3>2, <3>3, <3>4, <3>5, <3>6 DEF ConnRight
  <2>4. \A d \in Conns \ {c} : Alike(d)
    BY <1>1 DEF Alike
  <2> QED BY <2>1, <2>2, <2>3, <2>4, StepRight
<1>2. CASE ~Known(c, f.rid) /\ ~Full(c) /\ Keep(c, f, FALSE)
  <2>0. /\ terminals' \in [Conns -> [Rids -> Terminal \cup {NoTerminal}]]
        /\ terminals'[c] = [terminals[c] EXCEPT ![f.rid] = [content |-> f.content, bound |-> FALSE]]
        /\ \A d \in Conns \ {c} : terminals'[d] = terminals[d]
        /\ IsFiniteSet(Recorded(c)')
        /\ Cardinality(Recorded(c)') = Cardinality(Recorded(c)) + 1
    <3>1. IsFiniteSet(Recorded(c))
      BY DEF ConnRight, RecordsRight
    <3> QED BY <1>2, <3>1, KeepCounts
  <2>1. GameTypes'
    BY <2>0
  <2>2. MetricsRight'
    BY MetricsKept DEF Open
  <2>3. ConnRight(c)'
    <3>2. PlaceRight(c)'
      BY DEF ConnRight, PlaceRight, Open, Busy, Answering, Resolving, Binding
    <3>3. BindingRight(c)'
      BY DEF ConnRight, BindingRight
    <3>4. RecordsRight(c)'
      <4>1. Cardinality(Recorded(c)) \in Nat
        BY FS_CardinalityType DEF ConnRight, RecordsRight
      <4>2. Cardinality(Recorded(c)') <= Capacity
        BY <1>2, <2>0, <4>1, LimitsAssumption DEF Full
      <4>3. \A r \in Rids : terminals'[c][r].bound => terminals'[c][r] = terminals[c][r]
        BY <2>0 DEF Terminal, NoTerminal
      <4>4. h'[c] = "ready" /\ metric' = metric /\ auth' = auth
        OBVIOUS
      <4> QED BY <2>0, <4>2, <4>3, <4>4 DEF ConnRight, RecordsRight, Answering, Resolving, Binding
    <3>5. RepliesRight(c)'
      BY DEF RepliesRight, Busy, Answering, Resolving, Binding
    <3>6. NoticesRight(c)'
      BY DEF ConnRight, NoticesRight
    <3> QED BY <3>2, <3>3, <3>4, <3>5, <3>6 DEF ConnRight
  <2>4. \A d \in Conns \ {c} : Alike(d)
    BY <2>0 DEF Alike
  <2> QED BY <2>1, <2>2, <2>3, <2>4, StepRight
<1> QED BY <1>1, <1>2 DEF Answers

LEMMA AuthenticateContent ==
    ASSUME NEW v \in Contents, v[1] = "authenticate"
    PROVE  v[2] \in Sessions \cup {NoSession} /\ v = <<"authenticate", v[2]>>
BY DEF Contents

LEMMA FrameTypes ==
    ASSUME GameTypes, NEW c \in Conns, NEW f \in Frames, Arrives(c, f)
    PROVE  late' \in [Conns -> BOOLEAN] /\ \A d \in Conns \ {c} : late'[d] = late[d]
BY DEF GameTypes, Arrives

LEMMA AnsweredFrames ==
    ASSUME GameInv, NEW c \in Conns, NEW f \in Frames,
           ReceiveRejected(c, f) \/ ReceiveReplayed(c, f) \/ ReceiveAnswered(c, f)
    PROVE  Answers(c, f)
<1> USE DEF GameInv, GameTypes
<1>1. Allowed(c) => [count EXCEPT ![c] = count[c] + 1] \in [Conns -> 0 .. RateLimit]
  BY LimitsAssumption DEF Allowed
<1>2. CASE ReceiveRejected(c, f)
  BY <1>1, <1>2, FrameTypes DEF ReceiveRejected, Arrives, Reject, Answers
<1>3. CASE ReceiveReplayed(c, f)
  <2>1. ~(Same(c, f) /\ terminals[c][f.rid].bound)
    BY <1>3 DEF ReceiveReplayed, AsksReplay
  <2>2. admitted' = [admitted EXCEPT ![c] = FALSE]
    BY <1>3, <2>1 DEF ReceiveReplayed
  <2> QED BY <1>1, <1>3, <2>2, FrameTypes DEF ReceiveReplayed, Admit, Arrives, Answers
<1>4. CASE ReceiveAnswered(c, f)
  BY <1>1, <1>4, FrameTypes DEF ReceiveAnswered, Admit, Arrives, IsNew, Answers
<1> QED BY <1>2, <1>3, <1>4

LEMMA ReceiveAskingRight ==
    ASSUME GameInv, NEW c \in Conns, NEW f \in Frames, ReceiveAsking(c, f)
    PROVE  GameInv'
<1> USE DEF GameInv, GameTypes
<1>1. /\ h[c] = "ready" /\ state[c] \in Open /\ UNCHANGED <<state, terminals, answer>>
      /\ h' = [h EXCEPT ![c] = FirstQuestion(c, f)]
      /\ req' = [req EXCEPT ![c] = f]
      /\ admitted' = [admitted EXCEPT ![c] = FALSE]
      /\ late' = [late EXCEPT ![c] = f.content[1] = "authenticate" /\ ~Active(f.content[2])]
      /\ count' = [count EXCEPT ![c] = count[c] + 1]
      /\ count[c] < RateLimit
      /\ UNCHANGED <<sessionVars, bindVars, mail, metricVars, taskVars>>
  BY DEF ReceiveAsking, Admit, Arrives, Allowed, Dispatchable, Open
<1>2. \/ /\ Known(c, f.rid) /\ f.content = <<"authenticate", auth[c]>>
         /\ h'[c] = "replaying"
      \/ /\ ~Known(c, f.rid) /\ ~Full(c)
         /\ \/ auth[c] # NoSession /\ h'[c] = "asking"
            \/ auth[c] = NoSession /\ h'[c] = "resolving" /\ f.content[1] = "authenticate"
  <2>1. CASE Known(c, f.rid)
    <3>1. Same(c, f) /\ terminals[c][f.rid].bound
      BY <2>1 DEF ReceiveAsking, IsNew, AsksReplay
    <3>2. f.rid \in Rids
      BY DEF Frames
    <3>3. f.content = <<"authenticate", auth[c]>>
      BY <3>1, <3>2 DEF ConnRight, RecordsRight, Same
    <3> QED BY <1>1, <2>1, <3>3 DEF FirstQuestion
  <2>2. CASE ~Known(c, f.rid)
    BY <1>1, <2>2 DEF ReceiveAsking, IsNew, FirstQuestion
  <2> QED BY <2>1, <2>2
<1>3. h'[c] \in {"replaying", "asking", "resolving"}
  BY <1>2
<1>4. GameTypes'
  <2>1. h' \in [Conns -> Handlers]
    BY <1>1, <1>3 DEF Handlers, Asking
  <2>2. count' \in [Conns -> 0 .. RateLimit]
    BY <1>1, LimitsAssumption
  <2>3. late' \in [Conns -> BOOLEAN]
    BY DEF ReceiveAsking, Admit, Arrives
  <2> QED BY <1>1, <2>1, <2>2, <2>3
<1>5. MetricsRight'
  BY <1>1, MetricsKept
<1>6. ConnRight(c)'
  <2>1. PlaceRight(c)'
    BY <1>1 DEF PlaceRight
  <2>2. BindingRight(c)'
    BY <1>1, <1>2 DEF ConnRight, BindingRight, Binding, Resolving
  <2>3. RecordsRight(c)'
    <3>1. Recorded(c)' = Recorded(c)
      BY <1>1 DEF Recorded
    <3>2. Cardinality(Recorded(c)) \in Nat
      BY FS_CardinalityType DEF ConnRight, RecordsRight
    <3>3. ~Full(c) => Cardinality(Recorded(c)) < Capacity
      BY <3>2, LimitsAssumption DEF Full
    <3>4. h'[c] \in Answering => terminals'[c][f.rid] = NoTerminal /\ Cardinality(Recorded(c)) < Capacity
      BY <1>1, <1>2, <3>3 DEF Known, Answering, Resolving, Binding
    <3> QED BY <1>1, <1>2, <3>1, <3>4 DEF ConnRight, RecordsRight
  <2>4. RepliesRight(c)'
    BY <1>1, <1>3 DEF ConnRight, RepliesRight, Active
  <2>5. NoticesRight(c)'
    BY <1>1 DEF ConnRight, NoticesRight
  <2> QED BY <2>1, <2>2, <2>3, <2>4, <2>5 DEF ConnRight
<1>7. \A d \in Conns \ {c} : Alike(d)
  BY <1>1 DEF Alike
<1> QED BY <1>1, <1>4, <1>5, <1>6, <1>7, StepRight

-----------------------------------------------------------------------------
(* The handler's steps.                                                      *)

\* The question about a token or about the binding: only the place and the answer change.
LEMMA QueryRight ==
    ASSUME GameInv, NEW c \in Conns,
           Resolve(c) \/ Check(c) \/ Ask(c)
    PROVE  GameInv'
<1> USE DEF GameInv, GameTypes
<1>0. PICK s \in Sessions \cup {NoSession} :
        /\ \/ h[c] = "resolving" /\ h' = [h EXCEPT ![c] = "resolved"] /\ s = req[c].content[2]
           \/ h[c] = "joined" /\ h' = [h EXCEPT ![c] = "checked"] /\ s = auth[c]
           \/ h[c] = "asking" /\ h' = [h EXCEPT ![c] = "asked"] /\ s = auth[c]
           \/ h[c] = "replaying" /\ h' = [h EXCEPT ![c] = "replayed"] /\ s = auth[c]
        /\ answer' = [answer EXCEPT ![c] = Active(s)]
        /\ UNCHANGED req
        /\ UNCHANGED <<sessionVars, state, bindVars, mail, terminals, count, metricVars, replyVars, taskVars>>
  <2>1. h[c] = "resolving" => req[c].content[2] \in Sessions \cup {NoSession}
    BY DEF ConnRight, PlaceRight, Frames, Contents, Busy, Answering, Resolving
  <2> QED BY <2>1 DEF Resolve, Check, Ask, Query, Goes
<1>1. Active(s) \in BOOLEAN
  BY DEF Active
<1>2. h[c] \in Asking /\ h'[c] \in {"resolved", "checked", "asked", "replayed"}
  BY <1>0 DEF Asking
<1>4. GameTypes'
  BY <1>0, <1>1 DEF Handlers
<1>5. MetricsRight'
  BY <1>0, MetricsKept
<1>6. ConnRight(c)'
  <2> USE DEF Busy, Answering, Resolving, Binding
  <2>1. PlaceRight(c)'
    BY <1>0 DEF ConnRight, PlaceRight
  <2>2. BindingRight(c)'
    <3>1. h'[c] = "resolved" /\ answer'[c] => req[c].content[2] # NoSession
      BY <1>0 DEF Active
    <3>2. /\ h'[c] \in Resolving => h[c] \in Resolving
          /\ h'[c] \in Binding => h[c] \in Binding
          /\ h'[c] \notin Binding \cup {"dead"} => h[c] \notin Binding \cup {"dead"}
          /\ UNCHANGED <<auth, metric, task, members, req>>
      BY <1>0
    <3> QED BY <3>1, <3>2 DEF ConnRight, BindingRight
  <2>3. RecordsRight(c)'
    <3>1. Recorded(c)' = Recorded(c)
      BY <1>0 DEF Recorded
    <3> QED BY <1>0, <3>1 DEF ConnRight, RecordsRight
  <2>4. RepliesRight(c)'
    <3>1. h[c] = "joined" => s = req[c].content[2]
      <4>1. h[c] = "joined" => s = auth[c] /\ req[c].content = <<"authenticate", auth[c]>>
        BY <1>0 DEF ConnRight, BindingRight
      <4> QED BY <4>1
    <3>2. h[c] = "replaying" /\ Active(s) => s = req[c].content[2]
      BY <1>0 DEF ConnRight, RecordsRight, Active
    <3>3. h'[c] \in {"checked", "replayed"} /\ Active(s) => ~late[c]
      BY <1>0, <3>1, <3>2 DEF ConnRight, RepliesRight
    <3>4. UNCHANGED <<ended, late, admitted, req>> /\ h[c] \in Busy /\ answer'[c] = Active(s)
      BY <1>0
    <3> QED BY <3>3, <3>4 DEF ConnRight, RepliesRight, Active
  <2>5. NoticesRight(c)'
    <3>1. h[c] = "joined" /\ Active(s) => notice[auth[c]] # "sent"
      BY <1>0 DEF Active
    <3> QED BY <1>0, <3>1 DEF ConnRight, NoticesRight
  <2> QED BY <2>1, <2>2, <2>3, <2>4, <2>5 DEF ConnRight
<1>7. \A d \in Conns \ {c} : Alike(d)
  BY <1>0 DEF Alike
<1> QED BY <1>0, <1>4, <1>5, <1>6, <1>7, StepRight

LEMMA JoinRight == ASSUME GameInv, NEW c \in Conns, Join(c) PROVE GameInv'
<1> USE DEF GameInv, GameTypes
<1> DEFINE s == req[c].content[2]
<1>1. /\ h[c] = "resolved" /\ answer[c]
      /\ auth' = [auth EXCEPT ![c] = s]
      /\ group' = [group EXCEPT ![c] = s]
      /\ members' = members \cup {<<c, s>>}
      /\ h' = [h EXCEPT ![c] = "joined"]
      /\ answer' = [answer EXCEPT ![c] = FALSE]
      /\ UNCHANGED req
      /\ UNCHANGED <<sessionVars, state, mail, terminals, count, metricVars, replyVars, taskVars>>
  BY DEF Join, Goes
<1>2. s \in Sessions /\ req[c].content = <<"authenticate", s>> /\ auth[c] = NoSession
  <2>1. /\ s # NoSession /\ auth[c] = NoSession
        /\ req[c].content[1] = "authenticate" /\ req[c].content \in Contents
    BY <1>1 DEF ConnRight, BindingRight, PlaceRight, Frames, Busy, Answering, Resolving
  <2> QED BY <2>1, AuthenticateContent
<1> HIDE DEF s
<1>4. GameTypes'
  BY <1>1, <1>2 DEF Handlers, Asking
<1>5. MetricsRight'
  BY <1>1, MetricsKept
<1>6. ConnRight(c)'
  <2> USE DEF Busy, Answering, Resolving, Binding
  <2>1. PlaceRight(c)'
    BY <1>1 DEF ConnRight, PlaceRight
  <2>2. BindingRight(c)'
    BY <1>1, <1>2, NoSessionAssumption DEF ConnRight, BindingRight
  <2>3. RecordsRight(c)'
    <3>1. Recorded(c)' = Recorded(c)
      BY <1>1 DEF Recorded
    <3>2. \A r \in Rids : ~terminals[c][r].bound
      BY <1>1, <1>2 DEF ConnRight, RecordsRight
    <3> QED BY <1>1, <3>1, <3>2 DEF ConnRight, RecordsRight
  <2>4. RepliesRight(c)'
    BY <1>1 DEF ConnRight, RepliesRight, Active
  <2>5. NoticesRight(c)'
    BY <1>1 DEF NoticesRight
  <2> QED BY <2>1, <2>2, <2>3, <2>4, <2>5 DEF ConnRight
<1>7. \A d \in Conns \ {c} : Alike(d)
  BY <1>1 DEF Alike
<1> QED BY <1>1, <1>4, <1>5, <1>6, <1>7, StepRight

\* A handler that records its reply had room for it.
LEMMA RecordingRight ==
    ASSUME GameInv, NEW c \in Conns, NEW bound \in BOOLEAN,
           h[c] \in Answering, Keep(c, req[c], bound)
    PROVE  /\ terminals' \in [Conns -> [Rids -> Terminal \cup {NoTerminal}]]
           /\ \A d \in Conns \ {c} : terminals'[d] = terminals[d]
           /\ IsFiniteSet(Recorded(c)') /\ Cardinality(Recorded(c)') <= Capacity
           /\ \A r \in Rids : terminals'[c][r].bound =>
                 \/ bound /\ terminals'[c][r].content = req[c].content
                 \/ terminals[c][r].bound /\ terminals'[c][r].content = terminals[c][r].content
<1> USE DEF GameInv, GameTypes
<1>1. req[c] \in Frames
  BY DEF ConnRight, PlaceRight, Busy
<1>2. /\ terminals[c][req[c].rid] = NoTerminal
      /\ IsFiniteSet(Recorded(c)) /\ Cardinality(Recorded(c)) < Capacity
  BY DEF ConnRight, RecordsRight
<1>3. /\ terminals' \in [Conns -> [Rids -> Terminal \cup {NoTerminal}]]
      /\ terminals'[c] = [terminals[c] EXCEPT ![req[c].rid] = [content |-> req[c].content, bound |-> bound]]
      /\ \A d \in Conns \ {c} : terminals'[d] = terminals[d]
      /\ IsFiniteSet(Recorded(c)')
      /\ Cardinality(Recorded(c)') = Cardinality(Recorded(c)) + 1
  BY <1>1, <1>2, KeepCounts DEF Known
<1>4. Cardinality(Recorded(c)') <= Capacity
  <2>1. Cardinality(Recorded(c)) \in Nat
    BY <1>2, FS_CardinalityType
  <2> QED BY <1>2, <1>3, <2>1, LimitsAssumption
<1>5. ASSUME NEW r \in Rids, terminals'[c][r].bound
      PROVE  \/ bound /\ terminals'[c][r].content = req[c].content
             \/ terminals[c][r].bound /\ terminals'[c][r].content = terminals[c][r].content
  BY <1>3, <1>5
<1> QED BY <1>3, <1>4, <1>5

\* ResolveFailed and Fail: the reply is a refusal, the binding stays as it is.
LEMMA RefusalRight ==
    ASSUME GameInv, NEW c \in Conns, ResolveFailed(c) \/ Fail(c)
    PROVE  GameInv'
<1> USE DEF GameInv, GameTypes
<1>1. /\ h[c] \in {"resolved", "asked"}
      /\ h' = [h EXCEPT ![c] = "ready"]
      /\ req' = [req EXCEPT ![c] = NoFrame]
      /\ answer' = [answer EXCEPT ![c] = FALSE]
      /\ admitted' = [admitted EXCEPT ![c] = FALSE]
      /\ Keep(c, req[c], FALSE)
      /\ UNCHANGED <<sessionVars, state, bindVars, mail, count, metricVars, taskVars, late>>
  BY DEF ResolveFailed, Fail, Replies
<1>2. /\ terminals' \in [Conns -> [Rids -> Terminal \cup {NoTerminal}]]
      /\ \A d \in Conns \ {c} : terminals'[d] = terminals[d]
      /\ IsFiniteSet(Recorded(c)') /\ Cardinality(Recorded(c)') <= Capacity
      /\ \A r \in Rids : terminals'[c][r].bound =>
            terminals[c][r].bound /\ terminals'[c][r].content = terminals[c][r].content
  <2>1. h[c] \in Answering
    BY <1>1 DEF Answering, Resolving
  <2> QED BY <1>1, <2>1, RecordingRight
<1>4. GameTypes'
  BY <1>1, <1>2 DEF Handlers
<1>5. MetricsRight'
  BY <1>1, MetricsKept
<1>6. ConnRight(c)'
  <2> USE DEF Busy, Answering, Resolving, Binding
  <2>1. PlaceRight(c)'
    BY <1>1 DEF ConnRight, PlaceRight
  <2>2. BindingRight(c)'
    BY <1>1 DEF ConnRight, BindingRight
  <2>3. RecordsRight(c)'
    <3>1. h'[c] = "ready" /\ UNCHANGED <<metric, auth>>
      BY <1>1
    <3> QED BY <1>2, <3>1 DEF ConnRight, RecordsRight
  <2>4. RepliesRight(c)'
    BY <1>1 DEF RepliesRight
  <2>5. NoticesRight(c)'
    BY <1>1 DEF ConnRight, NoticesRight
  <2> QED BY <2>1, <2>2, <2>3, <2>4, <2>5 DEF ConnRight
<1>7. \A d \in Conns \ {c} : Alike(d)
  BY <1>1, <1>2 DEF Alike
<1> QED BY <1>1, <1>4, <1>5, <1>6, <1>7, StepRight

LEMMA NotAuthenticatedRight == ASSUME GameInv, NEW c \in Conns, NotAuthenticated(c) PROVE GameInv'
<1> USE DEF GameInv, GameTypes
<1>1. /\ h[c] = "checked"
      /\ members' = members \ {<<c, group[c]>>}
      /\ group' = [group EXCEPT ![c] = NoSession]
      /\ auth' = [auth EXCEPT ![c] = NoSession]
      /\ h' = [h EXCEPT ![c] = "ready"]
      /\ req' = [req EXCEPT ![c] = NoFrame]
      /\ answer' = [answer EXCEPT ![c] = FALSE]
      /\ admitted' = [admitted EXCEPT ![c] = FALSE]
      /\ Keep(c, req[c], FALSE)
      /\ UNCHANGED <<sessionVars, state, mail, count, metricVars, taskVars, late>>
  BY DEF NotAuthenticated, Replies
<1>2. /\ terminals' \in [Conns -> [Rids -> Terminal \cup {NoTerminal}]]
      /\ \A d \in Conns \ {c} : terminals'[d] = terminals[d]
      /\ IsFiniteSet(Recorded(c)') /\ Cardinality(Recorded(c)') <= Capacity
      /\ \A r \in Rids : terminals'[c][r].bound => terminals[c][r].bound
  <2>1. h[c] \in Answering
    BY <1>1 DEF Answering, Binding
  <2> QED BY <1>1, <2>1, RecordingRight
<1>3. metric[c] = NoSession /\ task[c] = "none"
  BY <1>1 DEF ConnRight, BindingRight, Binding
<1>4. GameTypes'
  BY <1>1, <1>2 DEF Handlers
<1>5. MetricsRight'
  BY <1>1, MetricsKept
<1>6. ConnRight(c)'
  <2> USE DEF Busy, Answering, Resolving, Binding
  <2>1. PlaceRight(c)'
    BY <1>1, <1>3 DEF PlaceRight
  <2>2. BindingRight(c)'
    BY <1>1, <1>3 DEF BindingRight
  <2>3. RecordsRight(c)'
    <3>1. h'[c] = "ready"
      BY <1>1
    <3>2. \A r \in Rids : ~terminals'[c][r].bound
      BY <1>2, <1>3 DEF ConnRight, RecordsRight
    <3> QED BY <1>2, <3>1, <3>2 DEF RecordsRight
  <2>4. RepliesRight(c)'
    BY <1>1 DEF RepliesRight
  <2>5. NoticesRight(c)'
    BY <1>1 DEF NoticesRight
  <2> QED BY <2>1, <2>2, <2>3, <2>4, <2>5 DEF ConnRight
<1>7. \A d \in Conns \ {c} : Alike(d)
  BY <1>1, <1>2 DEF Alike
<1> QED BY <1>1, <1>4, <1>5, <1>6, <1>7, StepRight

LEMMA AuthenticatedRight == ASSUME GameInv, NEW c \in Conns, Authenticated(c) PROVE GameInv'
<1> USE DEF GameInv, GameTypes
<1>1. /\ h[c] = "checked" /\ answer[c]
      /\ Bind(c, auth[c])
      /\ task' = [task EXCEPT ![c] = "sleeping"]
      /\ verdict' = [verdict EXCEPT ![c] = FALSE]
      /\ h' = [h EXCEPT ![c] = "ready"]
      /\ req' = [req EXCEPT ![c] = NoFrame]
      /\ answer' = [answer EXCEPT ![c] = FALSE]
      /\ admitted' = [admitted EXCEPT ![c] = TRUE]
      /\ Keep(c, req[c], TRUE)
      /\ UNCHANGED <<sessionVars, state, bindVars, mail, count, online, late>>
  BY DEF Authenticated, StartTask, Replies
<1>2. /\ metric[c] = NoSession /\ task[c] = "none" /\ ~late[c] /\ state[c] \in Open
      /\ req[c].content = <<"authenticate", auth[c]>> /\ auth[c] \in Sessions
  <2>1. /\ req[c].content = <<"authenticate", auth[c]>> /\ auth[c] # NoSession
        /\ metric[c] = NoSession /\ task[c] = "none"
    BY <1>1 DEF ConnRight, BindingRight, Binding
  <2>2. state[c] \in Open /\ ~late[c]
    BY <1>1 DEF ConnRight, PlaceRight, RepliesRight
  <2> QED BY <2>1, <2>2
<1>3. /\ terminals' \in [Conns -> [Rids -> Terminal \cup {NoTerminal}]]
      /\ \A d \in Conns \ {c} : terminals'[d] = terminals[d]
      /\ IsFiniteSet(Recorded(c)') /\ Cardinality(Recorded(c)') <= Capacity
      /\ \A r \in Rids : terminals'[c][r].bound => terminals'[c][r].content = req[c].content
  <2>1. h[c] \in Answering
    BY <1>1 DEF Answering, Binding
  <2>2. \A r \in Rids : ~terminals[c][r].bound
    BY <1>2 DEF ConnRight, RecordsRight
  <2> QED BY <1>1, <2>1, <2>2, RecordingRight
<1>4. /\ metric' = [metric EXCEPT ![c] = auth[c]]
      /\ bindings' \in [Sessions -> Nat]
      /\ \A t \in Sessions : bindings'[t] = Cardinality(Bound(t)')
  BY <1>1, <1>2, BindCounts
<1>5. GameTypes'
  BY <1>1, <1>2, <1>3, <1>4 DEF Handlers
<1>6. MetricsRight'
  BY <1>1, <1>4 DEF MetricsRight, Opened
<1>7. ConnRight(c)'
  <2> USE DEF Busy, Answering, Resolving, Binding
  <2>1. PlaceRight(c)'
    BY <1>1, <1>2 DEF PlaceRight
  <2>2. BindingRight(c)'
    BY <1>1, <1>2, <1>4, NoSessionAssumption DEF ConnRight, BindingRight
  <2>3. RecordsRight(c)'
    <3>1. h'[c] = "ready" /\ metric'[c] = auth[c] /\ UNCHANGED auth
      BY <1>1, <1>4
    <3> QED BY <1>2, <1>3, <3>1, NoSessionAssumption DEF RecordsRight
  <2>4. RepliesRight(c)'
    BY <1>1, <1>2 DEF RepliesRight
  <2>5. NoticesRight(c)'
    BY <1>1 DEF ConnRight, NoticesRight
  <2> QED BY <2>1, <2>2, <2>3, <2>4, <2>5 DEF ConnRight
<1>8. \A d \in Conns \ {c} : Alike(d)
  BY <1>1, <1>3, <1>4 DEF Alike
<1> QED BY <1>1, <1>5, <1>6, <1>7, <1>8, StepRight

LEMMA ReplayRight == ASSUME GameInv, NEW c \in Conns, Replay(c) PROVE GameInv'
<1> USE DEF GameInv, GameTypes
<1>1. /\ h[c] = "replayed"
      /\ h' = [h EXCEPT ![c] = "ready"]
      /\ req' = [req EXCEPT ![c] = NoFrame]
      /\ answer' = [answer EXCEPT ![c] = FALSE]
      /\ admitted' = [admitted EXCEPT ![c] = answer[c]]
      /\ UNCHANGED <<sessionVars, state, bindVars, mail, terminals, count, metricVars, taskVars, late>>
  BY DEF Replay, Replies
<1>4. GameTypes'
  BY <1>1 DEF Handlers
<1>5. MetricsRight'
  BY <1>1, MetricsKept
<1>6. ConnRight(c)'
  <2> USE DEF Busy, Answering, Resolving, Binding
  <2>1. PlaceRight(c)'
    BY <1>1 DEF ConnRight, PlaceRight
  <2>2. BindingRight(c)'
    BY <1>1 DEF ConnRight, BindingRight
  <2>3. RecordsRight(c)'
    <3>1. Recorded(c)' = Recorded(c) /\ h'[c] = "ready"
      BY <1>1 DEF Recorded
    <3> QED BY <1>1, <3>1 DEF ConnRight, RecordsRight
  <2>4. RepliesRight(c)'
    BY <1>1 DEF ConnRight, RepliesRight
  <2>5. NoticesRight(c)'
    BY <1>1 DEF ConnRight, NoticesRight
  <2> QED BY <2>1, <2>2, <2>3, <2>4, <2>5 DEF ConnRight
<1>7. \A d \in Conns \ {c} : Alike(d)
  BY <1>1 DEF Alike
<1> QED BY <1>1, <1>4, <1>5, <1>6, <1>7, StepRight

LEMMA HandlerFailsRight == ASSUME GameInv, NEW c \in Conns, HandlerFails(c) PROVE GameInv'
<1> USE DEF GameInv, GameTypes
<1>1. /\ h[c] \in Asking
      /\ h' = [h EXCEPT ![c] = "dead"]
      /\ req' = [req EXCEPT ![c] = NoFrame]
      /\ answer' = [answer EXCEPT ![c] = FALSE]
      /\ UNCHANGED <<sessionVars, state, bindVars, mail, terminals, count, metricVars, replyVars, taskVars>>
  BY DEF HandlerFails
<1>4. GameTypes'
  BY <1>1 DEF Handlers
<1>5. MetricsRight'
  BY <1>1, MetricsKept
<1>6. ConnRight(c)'
  <2> USE DEF Busy, Answering, Resolving, Binding
  <2>1. PlaceRight(c)'
    BY <1>1 DEF ConnRight, PlaceRight, Asking
  <2>2. BindingRight(c)'
    BY <1>1 DEF ConnRight, BindingRight
  <2>3. RecordsRight(c)'
    <3>1. Recorded(c)' = Recorded(c) /\ h'[c] = "dead"
      BY <1>1 DEF Recorded
    <3> QED BY <1>1, <3>1 DEF ConnRight, RecordsRight
  <2>4. RepliesRight(c)'
    BY <1>1 DEF ConnRight, RepliesRight
  <2>5. NoticesRight(c)'
    BY <1>1 DEF ConnRight, NoticesRight
  <2> QED BY <2>1, <2>2, <2>3, <2>4, <2>5 DEF ConnRight
<1>7. \A d \in Conns \ {c} : Alike(d)
  BY <1>1 DEF Alike
<1> QED BY <1>1, <1>4, <1>5, <1>6, <1>7, StepRight

-----------------------------------------------------------------------------
(* The revalidation task, the end of a binding.                              *)

LEMMA TaskGoesRight ==
    ASSUME GameInv, NEW c \in Conns, TaskWakes(c) \/ TaskAsks(c) \/ TaskGoesOn(c)
    PROVE  GameInv'
<1> USE DEF GameInv, GameTypes
<1>1. /\ task[c] # "none"
      /\ \E t \in {"sleeping", "asking", "asked"} : task' = [task EXCEPT ![c] = t]
      /\ \E v \in BOOLEAN : verdict' = [verdict EXCEPT ![c] = v]
      /\ UNCHANGED <<sessionVars, state, bindVars, mail, terminals, count, metricVars, handlerVars, replyVars>>
  BY DEF TaskWakes, TaskAsks, TaskGoesOn, TaskGoes, Active
<1>4. GameTypes'
  BY <1>1
<1>5. MetricsRight'
  BY <1>1, MetricsKept
<1>6. ConnRight(c)'
  <2>1. PlaceRight(c)'
    BY <1>1 DEF ConnRight, PlaceRight
  <2>2. BindingRight(c)'
    BY <1>1 DEF ConnRight, BindingRight
  <2>3. RecordsRight(c)'
    <3>1. Recorded(c)' = Recorded(c)
      BY <1>1 DEF Recorded
    <3> QED BY <1>1, <3>1 DEF ConnRight, RecordsRight
  <2>4. RepliesRight(c)'
    BY <1>1 DEF ConnRight, RepliesRight, Active
  <2>5. NoticesRight(c)'
    BY <1>1 DEF ConnRight, NoticesRight
  <2> QED BY <2>1, <2>2, <2>3, <2>4, <2>5 DEF ConnRight
<1>7. \A d \in Conns \ {c} : Alike(d)
  BY <1>1 DEF Alike
<1> QED BY <1>1, <1>4, <1>5, <1>6, <1>7, StepRight

\* What is left of a connection without a binding, a metric, a task and records is right.
LEMMA UnboundRight ==
    ASSUME GameInv, NEW c \in Conns, h[c] \notin Binding, UNCHANGED <<sessionVars, handlerVars, replyVars>>,
           auth'[c] = NoSession, metric'[c] = NoSession, task'[c] = "none",
           terminals'[c] = [r \in Rids |-> NoTerminal],
           h[c] # "ready" => state'[c] \in Open
    PROVE  ConnRight(c)'
<1> USE DEF GameInv, GameTypes
<1>1. PlaceRight(c)'
  BY DEF ConnRight, PlaceRight
<1>2. BindingRight(c)'
  BY DEF ConnRight, BindingRight
<1>3. RecordsRight(c)'
  <2>1. Recorded(c)' = {}
    BY DEF Recorded
  <2>2. IsFiniteSet(Recorded(c)') /\ Cardinality(Recorded(c)') = 0
    BY <2>1, FS_EmptySet
  <2>3. h[c] \in Answering => req[c].rid \in Rids
    BY DEF ConnRight, PlaceRight, Busy, Frames
  <2>4. \A r \in Rids : terminals'[c][r] = NoTerminal /\ ~terminals'[c][r].bound
    BY DEF NoTerminal
  <2> QED BY <2>2, <2>3, <2>4, LimitsAssumption DEF RecordsRight
<1>4. RepliesRight(c)'
  BY DEF ConnRight, RepliesRight, Active
<1>5. NoticesRight(c)'
  BY DEF NoticesRight
<1> QED BY <1>1, <1>2, <1>3, <1>4, <1>5 DEF ConnRight

\* auth_session_invalidated, from the task or from a notice.
LEMMA InvalidateRight ==
    ASSUME GameInv, NEW c \in Conns, Invalidate(c), state[c] \in Open, h[c] \notin Binding,
           mail' \in [Conns -> SUBSET Sessions], \A d \in Conns \ {c} : mail'[d] = mail[d]
    PROVE  GameInv'
<1> USE DEF GameInv, GameTypes
<1>1. /\ state' = [state EXCEPT ![c] = "closing"]
      /\ task' = [task EXCEPT ![c] = "none"]
      /\ verdict' = [verdict EXCEPT ![c] = FALSE]
      /\ auth' = [auth EXCEPT ![c] = NoSession]
      /\ terminals' = [terminals EXCEPT ![c] = [r \in Rids |-> NoTerminal]]
      /\ UNCHANGED <<sessionVars, group, members, count, online, handlerVars, replyVars>>
  BY DEF Invalidate
<1>2. /\ metric' = [metric EXCEPT ![c] = NoSession]
      /\ bindings' \in [Sessions -> Nat]
      /\ \A s \in Sessions : bindings'[s] = Cardinality(Bound(s)')
  BY UnbindCounts DEF Invalidate
<1>3. GameTypes'
  BY <1>1, <1>2
<1>4. MetricsRight'
  <2>1. Opened' = Opened
    BY <1>1 DEF Opened, Open
  <2> QED BY <1>1, <1>2, <2>1 DEF MetricsRight
<1>5. ConnRight(c)'
  BY <1>1, <1>2, UnboundRight DEF Open
<1>6. \A d \in Conns \ {c} : Alike(d)
  BY <1>1, <1>2 DEF Alike
<1> QED BY <1>1, <1>3, <1>4, <1>5, <1>6, StepRight

LEMMA TaskEndsRight == ASSUME GameInv, NEW c \in Conns, TaskEnds(c) PROVE GameInv'
<1>1. task[c] # "none"
  BY DEF TaskEnds
<1>2. state[c] \in Open /\ h[c] \notin Binding
  BY <1>1 DEF GameInv, ConnRight, PlaceRight, BindingRight
<1> QED BY <1>2, InvalidateRight DEF TaskEnds, GameInv, GameTypes

LEMMA DispatchNoticeRight ==
    ASSUME GameInv, NEW c \in Conns, NEW s \in Sessions, DispatchNotice(c, s)
    PROVE  GameInv'
<1>1. state[c] \in Open /\ h[c] \notin Binding
  BY DEF DispatchNotice, Dispatchable, Open, Binding
<1> QED BY <1>1, InvalidateRight DEF DispatchNotice, GameInv, GameTypes

LEMMA DisconnectRight == ASSUME GameInv, NEW c \in Conns, Disconnect(c) PROVE GameInv'
<1> USE DEF GameInv, GameTypes
<1>1. /\ h[c] = "ready" /\ state[c] \in Open
      /\ state' = [state EXCEPT ![c] = "closed"]
      /\ task' = [task EXCEPT ![c] = "none"]
      /\ verdict' = [verdict EXCEPT ![c] = FALSE]
      /\ members' = members \ {<<c, group[c]>>}
      /\ group' = [group EXCEPT ![c] = NoSession]
      /\ auth' = [auth EXCEPT ![c] = NoSession]
      /\ terminals' = [terminals EXCEPT ![c] = [r \in Rids |-> NoTerminal]]
      /\ online' = online - 1
      /\ mail' = [mail EXCEPT ![c] = {}]
      /\ UNCHANGED <<sessionVars, count, handlerVars, replyVars>>
  BY DEF Disconnect, Dispatchable, Open
<1>2. /\ metric' = [metric EXCEPT ![c] = NoSession]
      /\ bindings' \in [Sessions -> Nat]
      /\ \A s \in Sessions : bindings'[s] = Cardinality(Bound(s)')
  BY UnbindCounts DEF Disconnect
<1>3. online' = Cardinality(Opened') /\ online' \in Nat
  <2>1. Opened' = Opened \ {c} /\ c \in Opened
    BY <1>1 DEF Opened, Open
  <2>2. IsFiniteSet(Opened \ {c}) /\ Cardinality(Opened \ {c}) = Cardinality(Opened) - 1
    BY <2>1, Countable, FS_RemoveElement
  <2>3. Cardinality(Opened \ {c}) \in Nat
    BY <2>2, FS_CardinalityType
  <2> QED BY <1>1, <2>1, <2>2, <2>3 DEF MetricsRight
<1>4. GameTypes'
  BY <1>1, <1>2, <1>3
<1>5. MetricsRight'
  BY <1>2, <1>3 DEF MetricsRight
<1>6. ConnRight(c)'
  BY <1>1, <1>2, UnboundRight DEF Binding
<1>7. \A d \in Conns \ {c} : Alike(d)
  BY <1>1, <1>2 DEF Alike
<1> QED BY <1>1, <1>4, <1>5, <1>6, <1>7, StepRight

-----------------------------------------------------------------------------
(* The sessions' steps.                                                      *)

\* Ends and Notify: only what is known of a session changes, for all its connections.
LEMMA SessionStepRight ==
    ASSUME GameInv,
           UNCHANGED <<state, bindVars, terminals, count, metricVars, handlerVars, replyVars, taskVars>>,
           ended' \in [Sessions -> Endings],
           notice' \in [Sessions -> {"none", "due", "sent", "lost"}],
           mail' \in [Conns -> SUBSET Sessions],
           \A c \in Conns : mail[c] \subseteq mail'[c],
           \A s \in Sessions :
              /\ ended[s] # "no" => ended'[s] # "no"
              /\ notice'[s] # "none" => ended'[s] # "no"
              /\ notice'[s] = "sent" /\ notice[s] # "sent" =>
                    \A c \in Conns : <<c, s>> \in members => s \in mail'[c]
    PROVE  GameInv'
<1> USE DEF GameInv, GameTypes
<1>1. GameTypes'
  OBVIOUS
<1>2. MetricsRight'
  BY MetricsKept
<1>3. ASSUME NEW c \in Conns PROVE ConnRight(c)'
  <2>1. Alike(c)
    BY DEF Alike
  <2>2. auth[c] # NoSession /\ notice'[auth[c]] = "sent" =>
            notice[auth[c]] = "sent" \/ auth[c] \in mail'[c]
    <3>1. auth[c] # NoSession => <<c, auth[c]>> \in members /\ auth[c] \in Sessions
      BY DEF ConnRight, BindingRight
    <3> QED BY <3>1
  <2> QED BY <2>1, <2>2, Undisturbed
<1> QED BY <1>1, <1>2, <1>3

LEMMA EndsRight ==
    ASSUME GameInv, NEW s \in Sessions, EndConverges(s) \/ EndResets(s) \/ EndLapses(s)
    PROVE  GameInv'
<1> USE DEF GameInv, GameTypes
<1>1. /\ \E how \in Endings \ {"no"} : ended' = [ended EXCEPT ![s] = how]
      /\ \E due \in {"none", "due"} : notice' = [notice EXCEPT ![s] = due]
      /\ UNCHANGED <<state, bindVars, mail, terminals, count, metricVars, handlerVars, replyVars, taskVars>>
  BY DEF EndConverges, EndResets, EndLapses, Ends, Endings
<1> QED BY <1>1, SessionStepRight

LEMMA NotifyRight == ASSUME GameInv, NEW s \in Sessions, Notify(s) PROVE GameInv'
<1> USE DEF GameInv, GameTypes
<1>1. notice[s] = "due" /\ ended[s] # "no"
  BY DEF Notify
<1>2. /\ mail' \in [Conns -> SUBSET Sessions]
      /\ \A c \in Conns : mail[c] \subseteq mail'[c]
  <2>1. CASE UNCHANGED mail
    BY <2>1
  <2>2. CASE mail' = [c \in Conns |-> IF <<c, s>> \in members THEN mail[c] \cup {s} ELSE mail[c]]
    <3>1. \A c \in Conns : mail[c] \in SUBSET Sessions /\ mail[c] \cup {s} \in SUBSET Sessions
      OBVIOUS
    <3> QED BY <2>2, <3>1
  <2> QED BY <2>1, <2>2 DEF Notify
<1>3. CASE notice' = [notice EXCEPT ![s] = "sent"] /\ \A c \in Conns : <<c, s>> \in members => s \in mail'[c]
  BY <1>1, <1>2, <1>3, SessionStepRight DEF Notify
<1>4. CASE notice' = [notice EXCEPT ![s] = "lost"]
  BY <1>1, <1>2, <1>4, SessionStepRight DEF Notify
<1> QED BY <1>3, <1>4 DEF Notify

-----------------------------------------------------------------------------
(* The theorems.                                                             *)

LEMMA InitRight == Init => GameInv
<1> SUFFICES ASSUME Init PROVE GameInv
  OBVIOUS
<1> USE DEF Init
<1>1. GameTypes
  BY LimitsAssumption DEF GameTypes, Endings, Handlers, Asking
<1>2. MetricsRight
  <2>1. Opened = {}
    BY DEF Opened, Open
  <2>2. \A s \in Sessions : Bound(s) = {}
    BY NoSessionAssumption DEF Bound
  <2> QED BY <2>1, <2>2, FS_EmptySet DEF MetricsRight
<1>3. ASSUME NEW c \in Conns PROVE ConnRight(c)
  <2> USE DEF Busy, Answering, Resolving, Binding
  <2>1. PlaceRight(c) /\ BindingRight(c) /\ RepliesRight(c) /\ NoticesRight(c)
    BY DEF PlaceRight, BindingRight, RepliesRight, NoticesRight
  <2>2. RecordsRight(c)
    <3>1. Recorded(c) = {}
      BY DEF Recorded
    <3>2. IsFiniteSet(Recorded(c)) /\ Cardinality(Recorded(c)) = 0
      BY <3>1, FS_EmptySet
    <3>3. \A r \in Rids : ~terminals[c][r].bound
      BY DEF NoTerminal
    <3> QED BY <3>2, <3>3, LimitsAssumption DEF RecordsRight
  <2> QED BY <2>1, <2>2 DEF ConnRight
<1> QED BY <1>1, <1>2, <1>3 DEF GameInv

LEMMA StepInvariant == GameInv /\ [Next]_vars => GameInv'
<1> SUFFICES ASSUME GameInv, [Next]_vars PROVE GameInv'
  OBVIOUS
<1>1. ASSUME NEW c \in Conns, HandlerStep(c) PROVE GameInv'
  BY <1>1, QueryRight, JoinRight, RefusalRight, AuthenticatedRight, NotAuthenticatedRight,
     ReplayRight DEF HandlerStep
<1>2. ASSUME NEW c \in Conns, TaskStep(c) PROVE GameInv'
  BY <1>2, TaskGoesRight, TaskEndsRight DEF TaskStep
<1>3. ASSUME NEW c \in Conns, NEW f \in Frames,
             \/ ReceiveRejected(c, f) \/ ReceiveReplayed(c, f)
             \/ ReceiveAnswered(c, f) \/ ReceiveAsking(c, f)
      PROVE  GameInv'
  BY <1>3, AnsweredFrames, AnswersRight, ReceiveAskingRight
<1>4. ASSUME NEW c \in Conns, Connect(c) \/ ProtocolError(c) \/ WindowPasses(c) \/ Disconnect(c) \/ HandlerFails(c)
      PROVE  GameInv'
  BY <1>4, ConnectRight, ProtocolErrorRight, WindowPassesRight, DisconnectRight, HandlerFailsRight
<1>5. ASSUME UNCHANGED vars PROVE GameInv'
  <2> USE <1>5 DEF vars, GameInv, GameTypes
  <2>1. GameTypes'
    OBVIOUS
  <2>2. MetricsRight'
    BY MetricsKept
  <2>3. \A d \in Conns : Alike(d)
    BY DEF Alike
  <2>4. \A d \in Conns : ConnRight(d)'
    BY <2>3, Undisturbed
  <2> QED BY <2>1, <2>2, <2>4
<1> QED
  BY <1>1, <1>2, <1>3, <1>4, <1>5, DispatchNoticeRight, EndsRight, NotifyRight DEF Next

THEOREM GameInvHolds == Spec => []GameInv
<1> QED BY InitRight, StepInvariant, PTL DEF Spec

\* Every field keeps its type; the records of a connection fit in
\* GAME_WEBSOCKET_TERMINAL_LIMIT (Full in receive_json) and no metric counts below
\* zero or past the number of connections.
THEOREM ConnTypes == Spec => []ConnTypeOK
<1>1. GameInv => ConnTypeOK
  <2> SUFFICES ASSUME GameInv PROVE ConnTypeOK
    OBVIOUS
  <2>1. online \in 0 .. Cardinality(Conns)
    BY Countable DEF GameInv, MetricsRight
  <2>2. \A s \in Sessions : bindings[s] \in 0 .. Cardinality(Conns)
    BY Countable DEF GameInv, MetricsRight
  <2>3. bindings \in [Sessions -> 0 .. Cardinality(Conns)]
    BY <2>2 DEF GameInv, GameTypes
  <2>4. \A c \in Conns : Cardinality(Recorded(c)) <= Capacity
    BY DEF GameInv, ConnRight, RecordsRight
  <2> QED BY <2>1, <2>3, <2>4 DEF GameInv, GameTypes, ConnTypeOK
<1> QED BY <1>1, GameInvHolds, PTL

\* A connection at rest that is bound to a session whose end was notified has the notice in
\* its channel (_authenticate joins the group before it asks the second time).
THEOREM NoLostNoticeHolds == Spec => []NoLostNotice
<1>1. GameInv => NoLostNotice
  BY NoSessionAssumption DEF GameInv, ConnRight, NoticesRight, NoLostNotice
<1> QED BY <1>1, GameInvHolds, PTL

\* A successful reply to session.authenticate, new or replayed, is about a session that had
\* not ended when the frame came in (receive_json, _authenticate).
THEOREM HonestRepliesHolds == Spec => []HonestReplies
<1>1. GameInv => HonestReplies
  BY DEF GameInv, ConnRight, RepliesRight, HonestReplies
<1> QED BY <1>1, GameInvHolds, PTL

\* bindings counts the connections bound to each session, and a connection at rest is
\* counted for the session it is bound to (_bind_ and _unbind_auth_session_metric).
THEOREM MetricsAgreeHolds == Spec => []MetricsAgree
<1>1. GameInv => MetricsAgree
  BY DEF GameInv, MetricsRight, Bound, ConnRight, BindingRight, Binding, MetricsAgree
<1> QED BY <1>1, GameInvHolds, PTL

\* The reply recorded for a request id is only ever dropped, and then the connection has no
\* binding any more and is not active (_terminals).
THEOREM TerminalIsUniqueHolds == Spec => TerminalIsUnique
<1> DEFINE Unique(c, r) ==
      terminals[c][r] # NoTerminal =>
         \/ terminals'[c][r] = terminals[c][r]
         \/ terminals'[c][r] = NoTerminal /\ auth'[c] = NoSession /\ state'[c] # "active"
<1>1. ASSUME GameInv, [Next]_vars, NEW c \in Conns, NEW r \in Rids PROVE Unique(c, r)
  <2> USE <1>1 DEF GameInv, GameTypes
  <2>1. ASSUME NEW d \in Conns, NEW f \in Frames, NEW b \in BOOLEAN, ~Known(d, f.rid), Keep(d, f, b)
        PROVE  Unique(c, r)
    BY <2>1 DEF Keep, Known, Frames
  <2>2. ASSUME NEW d \in Conns, NEW b \in BOOLEAN, h[d] \in Answering, Keep(d, req[d], b)
        PROVE  Unique(c, r)
    <3>1. req[d] \in Frames /\ ~Known(d, req[d].rid)
      BY <2>2 DEF ConnRight, PlaceRight, RecordsRight, Known, Busy
    <3> QED BY <2>1, <2>2, <3>1
  <2>3. ASSUME NEW d \in Conns, NEW to \in {"closing", "closed"},
               terminals' = Set(terminals, d, [q \in Rids |-> NoTerminal]),
               auth' = Set(auth, d, NoSession), state' = Set(state, d, to)
        PROVE  Unique(c, r)
    BY <2>3
  <2>4. ASSUME UNCHANGED terminals PROVE Unique(c, r)
    BY <2>4
  <2> HIDE DEF Unique
  <2>5. ASSUME NEW d \in Conns, HandlerStep(d) \/ HandlerFails(d) PROVE Unique(c, r)
    <3>1. CASE ResolveFailed(d) \/ Fail(d) \/ NotAuthenticated(d) \/ Authenticated(d)
      <4>1. h[d] \in Answering /\ \E b \in BOOLEAN : Keep(d, req[d], b)
        BY <3>1 DEF ResolveFailed, Fail, NotAuthenticated, Authenticated, Answering, Resolving, Binding
      <4> QED BY <2>2, <4>1
    <3>2. CASE Resolve(d) \/ Join(d) \/ Check(d) \/ Ask(d) \/ Replay(d) \/ HandlerFails(d)
      BY <2>4, <3>2 DEF Resolve, Join, Check, Ask, Query, Replay, HandlerFails
    <3> QED BY <2>5, <3>1, <3>2 DEF HandlerStep
  <2>6. ASSUME NEW d \in Conns, NEW f \in Frames,
               \/ ReceiveRejected(d, f) \/ ReceiveReplayed(d, f)
               \/ ReceiveAnswered(d, f) \/ ReceiveAsking(d, f)
        PROVE  Unique(c, r)
    <3>1. UNCHANGED terminals \/ (~Known(d, f.rid) /\ Keep(d, f, FALSE))
      <4>1. CASE ReceiveRejected(d, f)
        BY <4>1 DEF ReceiveRejected, Reject
      <4>2. CASE ReceiveAnswered(d, f)
        BY <4>2 DEF ReceiveAnswered, IsNew
      <4>3. CASE ReceiveReplayed(d, f) \/ ReceiveAsking(d, f)
        BY <4>3 DEF ReceiveReplayed, ReceiveAsking
      <4> QED BY <2>6, <4>1, <4>2, <4>3
    <3> QED BY <2>1, <2>4, <3>1
  <2>7. ASSUME NEW d \in Conns,
               \/ Connect(d) \/ ProtocolError(d) \/ WindowPasses(d) \/ TaskWakes(d) \/ TaskAsks(d)
               \/ TaskGoesOn(d)
        PROVE  Unique(c, r)
    BY <2>4, <2>7 DEF Connect, ProtocolError, WindowPasses, TaskWakes, TaskAsks, TaskGoesOn, TaskGoes
  <2>8. ASSUME NEW d \in Conns,
               TaskEnds(d) \/ Disconnect(d) \/ \E s \in Sessions : DispatchNotice(d, s)
        PROVE  Unique(c, r)
    BY <2>3, <2>8 DEF TaskEnds, Disconnect, DispatchNotice, Invalidate
  <2>9. ASSUME NEW s \in Sessions, EndConverges(s) \/ EndResets(s) \/ EndLapses(s) \/ Notify(s)
        PROVE  Unique(c, r)
    BY <2>4, <2>9 DEF EndConverges, EndResets, EndLapses, Ends, Notify
  <2>10. CASE UNCHANGED vars
    BY <2>4, <2>10 DEF vars
  <2> QED BY <1>1, <2>5, <2>6, <2>7, <2>8, <2>9, <2>10 DEF Next, TaskStep
<1>2. GameInv /\ [Next]_vars => [\A c \in Conns, r \in Rids : Unique(c, r)]_vars
  BY <1>1
<1> QED BY <1>2, GameInvHolds, PTL DEF Spec, TerminalIsUnique
=============================================================================
