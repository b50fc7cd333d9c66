------------------------ MODULE Broadcaster_proofs -------------------------
(***************************************************************************)
(* Broadcaster for any number of tasks and commands: its answers belong to *)
(* the command that returns them, stop() leaves nothing behind, and the    *)
(* timeouts are put back.                                                  *)
(***************************************************************************)
EXTENDS Broadcaster, TLAPS

\* Inside a command its number is one that may be sent.
Numbered == step \in {"send", "recv"} => calls # 0

TypeInv == TypeOK /\ Numbered

LEMMA TypeInit == Init => TypeInv
  BY BroadcasterAssumption DEF Init, TypeInv, Numbered, TypeOK, Calls, Tasks, Messages, Nothing, ConsumerStates, At

LEMMA TypeNext == TypeInv /\ [Next]_vars => TypeInv'
  <1> SUFFICES ASSUME TypeInv, [Next]_vars PROVE TypeInv'
    OBVIOUS
  <1> USE BroadcasterAssumption DEF TypeInv, Numbered, TypeOK, parent, channel
  <1>1. CASE Command
    BY <1>1 DEF Command, Calls, Tasks
  <1>2. CASE Stop
    BY <1>2 DEF Stop, Tasks
  <1>3. CASE Send
    <2>1. calls \in 1 .. MaxCommands \/ socket[next] # "ready"
      BY <1>3 DEF Send
    <2>2. Asked(calls) \in Messages \/ socket[next] # "ready"
      BY <2>1 DEF Asked, Messages
    <2>3. CASE socket[next] = "ready"
      BY <1>3, <2>2, <2>3 DEF Send, Tasks, Calls
    <2>4. CASE socket[next] # "ready"
      BY <1>3, <2>4 DEF Send, Escape
    <2> QED
      BY <2>3, <2>4
  <1>4. CASE Receive
    BY <1>4 DEF Receive, Messages, Nothing, Tasks
  <1>5. CASE TimesOut
    BY <1>5 DEF TimesOut, Escape, Tasks
  <1>6. CASE Finish
    BY <1>6 DEF Finish, Tasks
  <1>7. CASE Tell
    <2>1. Pill \in Messages
      BY DEF Messages
    <2>2. CASE socket[next] = "ready"
      <3>1. /\ socket' = [socket EXCEPT ![next] = "waiting"]
            /\ request' = [request EXCEPT ![next] = Pill]
            /\ \/ next' = next + 1 /\ next < NumTasks /\ step' = "tell"
               \/ next' = next /\ step' = "close"
            /\ UNCHANGED <<calls, call, got, outcome, running, timeout, saved,
                           reply, consumer>>
        BY <1>7, <2>2 DEF Tell
      <3>2. /\ socket' \in [Tasks -> {"ready", "waiting", "closed"}]
            /\ request' \in [Tasks -> Messages]
        BY <2>1, <3>1
      <3>3. next' \in Tasks /\ step' \in {"tell", "close"}
        BY <3>1 DEF Tasks
      <3> QED
        BY <3>1, <3>2, <3>3
    <2>3. CASE socket[next] # "ready"
      BY <1>7, <2>3 DEF Tell
    <2> QED
      BY <2>2, <2>3
  <1>8. CASE Close
    BY <1>8 DEF Close, Messages, Nothing, Tasks
  <1>9. CASE Terminate
    BY <1>9 DEF Terminate, ConsumerStates, At, Tasks
  <1>10. CASE Join
    BY <1>10 DEF Join, Tasks
  <1>11. CASE Term
    BY <1>11 DEF Term
  <1>12. ASSUME NEW t \in Tasks, HandleCmd(t) PROVE TypeInv'
    BY <1>12 DEF HandleCmd, Messages, Nothing, Pill, ConsumerStates, At
  <1>13. ASSUME NEW t \in Tasks, SendReply(t) PROVE TypeInv'
    BY <1>13 DEF SendReply, Messages, Nothing, ConsumerStates, At, ReplyKinds
  <1>14. ASSUME NEW t \in Tasks, Ends(t) PROVE TypeInv'
    BY <1>14 DEF Ends, ConsumerStates, At
  <1>15. CASE UNCHANGED vars
    BY <1>15 DEF vars
  <1> QED
    BY <1>1, <1>2, <1>3, <1>4, <1>5, <1>6, <1>7, <1>8, <1>9, <1>10, <1>11,
       <1>12, <1>13, <1>14, <1>15 DEF Next, Continue

\* Every state of a broadcaster and its consumers is well typed, for any
\* number of tasks and commands.
THEOREM TypeCorrect == Spec => []TypeOK
<1>1. TypeInv => TypeOK
  BY DEF TypeInv
<1> QED
  BY <1>1, TypeInit, TypeNext, PTL DEF Spec

-----------------------------------------------------------------------------
(* What a socket that may send has behind it.                              *)

AtWork(t) == consumer[t].at = "busy"

\* One message at most is under way between the two ends of a channel, and
\* none when the broadcaster may send.
OneInFlight ==
    \A t \in Tasks :
        /\ request[t] # Nothing => reply[t] = Nothing /\ ~AtWork(t)
        /\ reply[t] # Nothing => ~AtWork(t)
        /\ socket[t] = "ready" =>
               request[t] = Nothing /\ reply[t] = Nothing /\ ~AtWork(t)

\* The tasks this command has asked and not heard of.
Pending ==
    IF step = "recv"
    THEN IF call.kind = "parallel" THEN next .. NumTasks ELSE {next}
    ELSE IF step = "send" /\ call.kind = "parallel" THEN 1 .. (next - 1)
    ELSE {}

\* What is under way on their channels is of this command.
PendingAsked ==
    \A t \in Pending :
        /\ socket[t] = "waiting"
        /\ request[t] \in {Nothing, Pill, Asked(calls)}
        /\ reply[t] # Nothing => reply[t].of = calls
        /\ AtWork(t) => consumer[t].of = calls

\* The strengthening of RepliesMatch.
MatchInv == TypeInv /\ OneInFlight /\ PendingAsked /\ RepliesMatch

\* A request that goes out adds its task to those asked.
LEMMA PendingSent ==
    ASSUME TypeInv, Send, socket[next] = "ready"
    PROVE  /\ Pending \subseteq Tasks
           /\ Pending' = Pending \cup {next}
<1> USE BroadcasterAssumption DEF TypeInv, TypeOK, Tasks, Calls
<1>1. /\ step = "send" /\ call' = call
      /\ IF call.kind = "parallel" /\ next < NumTasks
         THEN next' = next + 1 /\ step' = "send"
         ELSE /\ step' = "recv"
              /\ next' = IF call.kind = "parallel" THEN 1 ELSE next
  BY DEF Send
<1>2. CASE call.kind = "parallel" /\ next < NumTasks
  <2>1. Pending = 1 .. (next - 1) /\ Pending' = 1 .. (next' - 1)
    BY <1>1, <1>2 DEF Pending
  <2> QED
    BY <1>1, <1>2, <2>1
<1>3. CASE call.kind = "parallel" /\ ~(next < NumTasks)
  <2>1. next = NumTasks /\ Pending = 1 .. (next - 1) /\ Pending' = 1 .. NumTasks
    BY <1>1, <1>3 DEF Pending
  <2> QED
    BY <1>1, <1>3, <2>1
<1>4. CASE call.kind # "parallel"
  <2>1. Pending = {} /\ Pending' = {next}
    BY <1>1, <1>4 DEF Pending
  <2> QED
    BY <2>1
<1> QED
  BY <1>2, <1>3, <1>4

\* An answer takes its task from them.
LEMMA PendingReceived ==
    ASSUME TypeInv, Receive
    PROVE  next \in Pending /\ Pending' = Pending \ {next}
<1> USE BroadcasterAssumption DEF TypeInv, TypeOK, Tasks, Calls
<1>1. /\ step = "recv" /\ call' = call
      /\ IF call.kind = "one" \/ next = NumTasks
         THEN step' = "finish" /\ next' = next
         ELSE /\ step' = IF call.kind = "serial" THEN "send" ELSE "recv"
              /\ next' = next + 1
  BY DEF Receive
<1>2. CASE call.kind = "parallel"
  <2>1. Pending = next .. NumTasks
    BY <1>1, <1>2 DEF Pending
  <2>2. Pending' = IF next = NumTasks THEN {} ELSE (next + 1) .. NumTasks
    BY <1>1, <1>2 DEF Pending
  <2> QED
    BY <2>1, <2>2
<1>3. CASE call.kind # "parallel"
  <2>1. Pending = {next} /\ Pending' = {}
    BY <1>1, <1>3 DEF Pending
  <2> QED
    BY <2>1
<1> QED
  BY <1>2, <1>3

LEMMA MatchInit == Init => MatchInv
<1> SUFFICES ASSUME Init PROVE MatchInv
  OBVIOUS
<1>1. TypeInv
  BY TypeInit
<1>2. Pending = {}
  BY DEF Init, Pending
<1> QED
  BY <1>1, <1>2 DEF Init, MatchInv, OneInFlight, PendingAsked, RepliesMatch,
     AtWork, At

\* A step of a consumer: the broadcaster's side is as it was.
LEMMA ConsumerMatches ==
    ASSUME MatchInv, TypeInv',
           NEW t \in Tasks, HandleCmd(t) \/ SendReply(t) \/ Ends(t)
    PROVE  MatchInv'
<1> USE DEF MatchInv, TypeInv, TypeOK
<1>1. UNCHANGED parent
  BY DEF HandleCmd, SendReply, Ends
<1>2. Pending' = Pending /\ RepliesMatch'
  BY <1>1 DEF Pending, RepliesMatch, parent
<1>3. CASE HandleCmd(t)
  <2>1. /\ request[t] # Nothing
        /\ request' = [request EXCEPT ![t] = Nothing]
        /\ reply' = reply
        /\ consumer' = [consumer EXCEPT ![t] =
                           IF request[t] = Pill THEN At("leaving")
                           ELSE [at |-> "busy", of |-> request[t].of]]
    BY <1>3 DEF HandleCmd
  <2>2. OneInFlight'
    BY <1>1, <2>1 DEF OneInFlight, AtWork, parent, At
  <2>3. PendingAsked'
    BY <1>1, <1>2, <2>1 DEF PendingAsked, AtWork, parent, At, Asked
  <2> QED
    BY <1>2, <2>2, <2>3
<1>4. CASE SendReply(t)
  <2>1. PICK kind \in Replies :
            reply' = [reply EXCEPT ![t] =
                         IF kind = "none" \/ socket[t] = "closed" THEN Nothing
                         ELSE [of |-> consumer[t].of, kind |-> kind]]
    BY <1>4 DEF SendReply
  <2>2. /\ AtWork(t)
        /\ consumer' = [consumer EXCEPT ![t] = At("loop")]
        /\ request' = request
    BY <1>4 DEF SendReply, AtWork
  <2>3. OneInFlight'
    BY <1>1, <2>1, <2>2 DEF OneInFlight, AtWork, parent, At
  <2>4. PendingAsked'
    BY <1>1, <1>2, <2>1, <2>2 DEF PendingAsked, AtWork, parent, At, Nothing, Asked
  <2> QED
    BY <1>2, <2>3, <2>4
<1>5. CASE Ends(t)
  <2>1. consumer' = [consumer EXCEPT ![t] = At("gone")] /\ UNCHANGED channel
    BY <1>5 DEF Ends
  <2>2. OneInFlight'
    BY <1>1, <2>1 DEF OneInFlight, AtWork, parent, channel, At
  <2>3. PendingAsked'
    BY <1>1, <1>2, <2>1 DEF PendingAsked, AtWork, parent, channel, At, Asked
  <2> QED
    BY <1>2, <2>2, <2>3
<1> QED
  BY <1>3, <1>4, <1>5

LEMMA MatchNext == MatchInv /\ [Next]_vars => MatchInv'
<1> SUFFICES ASSUME MatchInv, [Next]_vars PROVE MatchInv'
  OBVIOUS
<1>0. TypeInv'
  BY TypeNext DEF MatchInv
<1> USE BroadcasterAssumption DEF TypeInv, TypeOK
<1>1. CASE Command
  <2>1. Pending' = {}
    BY <1>1 DEF Command, Pending, Calls, Tasks
  <2>2. OneInFlight'
    BY <1>1 DEF Command, MatchInv, OneInFlight, AtWork, channel
  <2>3. RepliesMatch'
    BY <1>1 DEF Command, RepliesMatch
  <2> QED
    BY <1>0, <2>1, <2>2, <2>3 DEF MatchInv, PendingAsked
<1>2. CASE Send
  <2>1. CASE socket[next] = "ready"
    <3>1. /\ socket' = [socket EXCEPT ![next] = "waiting"]
          /\ request' = [request EXCEPT ![next] = Asked(calls)]
          /\ UNCHANGED <<calls, call, got, reply, consumer>>
      BY <1>2, <2>1 DEF Send
    <3>2. reply[next] = Nothing /\ ~AtWork(next)
      BY <2>1 DEF MatchInv, OneInFlight
    <3>3. OneInFlight'
      BY <3>1, <3>2 DEF MatchInv, OneInFlight, AtWork
    <3>4. Pending \subseteq Tasks /\ Pending' = Pending \cup {next}
      BY <1>2, <2>1, PendingSent DEF MatchInv
    <3>6. PendingAsked'
      BY <3>1, <3>2, <3>4 DEF MatchInv, PendingAsked, AtWork, Asked
    <3> QED
      BY <1>0, <3>1, <3>3, <3>6 DEF MatchInv, RepliesMatch
  <2>2. CASE socket[next] # "ready"
    <3>1. Pending' = {}
      BY <1>2, <2>2 DEF Send, Escape, Pending
    <3>2. OneInFlight' /\ RepliesMatch'
      BY <1>2, <2>2 DEF Send, MatchInv, OneInFlight, RepliesMatch, AtWork
    <3> QED
      BY <1>0, <3>1, <3>2 DEF MatchInv, PendingAsked
  <2> QED
    BY <2>1, <2>2
<1>3. CASE Receive
  <2>1. /\ step = "recv" /\ reply[next] # Nothing
        /\ got' = Append(got, reply[next])
        /\ reply' = [reply EXCEPT ![next] = Nothing]
        /\ socket' = [socket EXCEPT ![next] = "ready"]
        /\ UNCHANGED <<calls, call, request, consumer>>
    BY <1>3 DEF Receive
  <2>2. next \in Pending
    BY <1>3, PendingReceived DEF MatchInv
  <2>3. reply[next].of = calls
    BY <2>1, <2>2 DEF MatchInv, PendingAsked
  <2>4. RepliesMatch'
    BY <2>1, <2>3 DEF MatchInv, RepliesMatch
  <2>5. OneInFlight'
    BY <2>1 DEF MatchInv, OneInFlight, AtWork
  <2>6. Pending' = Pending \ {next}
    BY <1>3, PendingReceived DEF MatchInv
  <2>7. PendingAsked'
    BY <2>1, <2>6 DEF MatchInv, PendingAsked, AtWork, Asked
  <2> QED
    BY <1>0, <2>4, <2>5, <2>7 DEF MatchInv
<1>4. CASE Tell
  <2>1. Pending' = {}
    BY <1>4 DEF Tell, Pending
  <2>2. CASE socket[next] = "ready"
    <3>1. /\ socket' = [socket EXCEPT ![next] = "waiting"]
          /\ request' = [request EXCEPT ![next] = Pill]
          /\ UNCHANGED <<calls, got, reply, consumer>>
      BY <1>4, <2>2 DEF Tell
    <3>2. OneInFlight' /\ RepliesMatch'
      BY <2>2, <3>1 DEF MatchInv, OneInFlight, RepliesMatch, AtWork
    <3> QED
      BY <1>0, <2>1, <3>2 DEF MatchInv, PendingAsked
  <2>3. CASE socket[next] # "ready"
    BY <1>0, <1>4, <2>1, <2>3 DEF Tell, MatchInv, OneInFlight, PendingAsked,
       RepliesMatch, AtWork
  <2> QED
    BY <2>2, <2>3
<1>5. CASE Close
  <2>1. Pending' = {}
    BY <1>5 DEF Close, Pending
  <2>2. OneInFlight' /\ RepliesMatch'
    BY <1>5 DEF Close, MatchInv, OneInFlight, RepliesMatch, AtWork
  <2> QED
    BY <1>0, <2>1, <2>2 DEF MatchInv, PendingAsked
<1>6. CASE Terminate
  <2>1. Pending' = {}
    BY <1>6 DEF Terminate, Pending
  <2>2. OneInFlight' /\ RepliesMatch'
    BY <1>6 DEF Terminate, MatchInv, OneInFlight, RepliesMatch, AtWork, At, channel
  <2> QED
    BY <1>0, <2>1, <2>2 DEF MatchInv, PendingAsked
<1>7. CASE TimesOut \/ Finish \/ Stop \/ Join \/ Term
  <2>1. Pending' = {} /\ UNCHANGED <<calls, got, socket, request, reply, consumer>>
    BY <1>7 DEF TimesOut, Escape, Finish, Stop, Join, Term, Pending, channel
  <2> QED
    BY <1>0, <2>1 DEF MatchInv, OneInFlight, PendingAsked, RepliesMatch, AtWork
<1>8. CASE UNCHANGED vars
  BY <1>0, <1>8 DEF vars, parent, channel, MatchInv, OneInFlight, Pending,
     PendingAsked, RepliesMatch, AtWork
<1> QED
  BY <1>0, <1>1, <1>2, <1>3, <1>4, <1>5, <1>6, <1>7, <1>8, ConsumerMatches
     DEF Next, Continue

\* No answer is taken for another command's, for any number of tasks and
\* commands and however consumers fail (cmd and recv_from_task).
THEOREM AnswersMatch == Spec => []RepliesMatch
<1>1. MatchInv => RepliesMatch
  BY DEF MatchInv
<1> QED
  BY <1>1, MatchInit, MatchNext, PTL DEF Spec

-----------------------------------------------------------------------------
(* Stopping.                                                               *)

\* Where stop() stands in taking things down: the sockets before the
\* processes, and these in order.
StopInv ==
    /\ TypeInv
    /\ step \in {"terminate", "join", "term"} => \A t \in Tasks : socket[t] = "closed"
    /\ step \in {"terminate", "join"} => \A t \in 1 .. (next - 1) : consumer[t].at = "gone"
    /\ step = "term" => \A t \in Tasks : consumer[t].at = "gone"
    /\ ~running => /\ step = "idle"
                   /\ \A t \in Tasks : consumer[t].at = "gone" /\ socket[t] = "closed"

LEMMA StopInit == Init => StopInv
  BY TypeInit DEF Init, StopInv

LEMMA StopNext == StopInv /\ [Next]_vars => StopInv'
<1> SUFFICES ASSUME StopInv, [Next]_vars PROVE StopInv'
  OBVIOUS
<1>0. TypeInv'
  BY TypeNext DEF StopInv
<1> USE BroadcasterAssumption, <1>0 DEF TypeInv, TypeOK, StopInv, Tasks
<1>1. CASE Command \/ Stop
  BY <1>1 DEF Command, Stop
<1>2. CASE Send
  BY <1>2 DEF Send, Escape
<1>3. CASE Receive
  BY <1>3 DEF Receive
<1>4. CASE TimesOut \/ Finish
  BY <1>4 DEF TimesOut, Finish, Escape
<1>5. CASE Tell
  BY <1>5 DEF Tell
<1>6. CASE Close
  <2>1. /\ step = "close" /\ step' = "terminate" /\ next' = 1
        /\ socket' = [t \in Tasks |-> "closed"] /\ running' = running
    BY <1>6 DEF Close
  <2>2. running /\ 1 .. (next' - 1) = {}
    BY <2>1
  <2>3. \A t \in Tasks : socket'[t] = "closed"
    BY <2>1
  <2> HIDE DEF TypeInv
  <2> QED
    BY <2>1, <2>2, <2>3
<1>7. CASE Terminate
  <2>1. step' = "join" /\ running /\ UNCHANGED <<running, socket, next>>
    BY <1>7 DEF Terminate
  <2>2. \A t \in Tasks : consumer[t].at = "gone" => consumer'[t].at = "gone"
    BY <1>7 DEF Terminate
  <2> QED
    BY <1>7, <2>1, <2>2 DEF Terminate
<1>8. CASE Join
  <2>1. /\ step = "join" /\ consumer[next].at = "gone" /\ running
        /\ UNCHANGED <<running, socket, consumer>>
        /\ IF next < NumTasks THEN step' = "terminate" /\ next' = next + 1
           ELSE step' = "term" /\ next' = next
    BY <1>8 DEF Join
  <2>2. \A t \in 1 .. next : consumer'[t].at = "gone"
    BY <2>1
  <2>3. CASE next < NumTasks
    <3>1. step' = "terminate" /\ next' - 1 = next
      BY <2>1, <2>3
    <3> QED
      BY <2>1, <2>2, <3>1
  <2>4. CASE ~(next < NumTasks)
    <3>1. step' = "term" /\ next = NumTasks
      BY <2>1, <2>4
    <3> QED
      BY <2>1, <2>2, <3>1
  <2> QED
    BY <2>3, <2>4
<1>9. CASE Term
  BY <1>9 DEF Term
<1>10. ASSUME NEW t \in Tasks, HandleCmd(t) \/ SendReply(t) \/ Ends(t)
       PROVE  StopInv'
  <2>1. UNCHANGED parent
    BY <1>10 DEF HandleCmd, SendReply, Ends
  <2>2. \A u \in Tasks : consumer[u].at = "gone" => consumer'[u].at = "gone"
    BY <1>10 DEF HandleCmd, SendReply, Ends, At
  <2> QED
    BY <2>1, <2>2 DEF parent
<1>11. CASE UNCHANGED vars
  BY <1>11 DEF vars, parent
<1> QED
  BY <1>1, <1>2, <1>3, <1>4, <1>5, <1>6, <1>7, <1>8, <1>9, <1>10, <1>11
     DEF Next, Continue

\* When stop() has returned no process is left and no socket is open, for any
\* number of tasks and whichever command failed before (stop).
THEOREM StopsClean == Spec => []StopLeavesNothing
<1>1. StopInv => StopLeavesNothing
  BY DEF StopInv, StopLeavesNothing
<1> QED
  BY <1>1, StopInit, StopNext, PTL DEF Spec

-----------------------------------------------------------------------------
(* The timeouts.                                                           *)

\* A socket that is neither asked by this command nor ready is one an earlier
\* command left waiting; without one, either the timeouts are the default or
\* this command has put them by and will put them back.
AllDefault(f) == \A t \in Tasks : f[t] = "default"

RevertInv ==
    /\ TypeInv
    /\ /\ step \in {"idle", "send", "recv", "finish"}
       /\ \A t \in Tasks : t \notin Pending => socket[t] = "ready"
       => IF step # "idle" /\ call.own THEN AllDefault(saved) ELSE AllDefault(timeout)

LEMMA RevertInit == Init => RevertInv
  BY TypeInit DEF Init, RevertInv, AllDefault, Pending

LEMMA RevertNext == RevertInv /\ MatchInv /\ [Next]_vars => RevertInv'
<1> SUFFICES ASSUME RevertInv, MatchInv, [Next]_vars PROVE RevertInv'
  OBVIOUS
<1>0. TypeInv'
  BY TypeNext DEF RevertInv
<1> USE BroadcasterAssumption, <1>0 DEF TypeInv, TypeOK, RevertInv, Tasks
<1>1. CASE Command
  <2>1. step = "idle" /\ step' = "send" /\ UNCHANGED socket
    BY <1>1 DEF Command
  <2>2. Pending = {} /\ Pending' = {}
    BY <1>1, <2>1 DEF Command, Pending, Calls
  <2>3. IF call'.own THEN saved' = timeout ELSE timeout' = timeout
    BY <1>1 DEF Command
  <2> QED
    BY <2>1, <2>2, <2>3 DEF AllDefault
<1>2. CASE Send
  <2>1. CASE socket[next] = "ready"
    <3>1. /\ step = "send" /\ step' \in {"send", "recv"}
          /\ socket' = [socket EXCEPT ![next] = "waiting"]
          /\ UNCHANGED <<call, saved, timeout>>
      BY <1>2, <2>1 DEF Send
    <3>2. Pending' = Pending \cup {next}
      BY <1>2, <2>1, PendingSent
    <3>3. ASSUME \A t \in Tasks : t \notin Pending' => socket'[t] = "ready",
                 NEW t \in Tasks, t \notin Pending
          PROVE  socket[t] = "ready"
      BY <2>1, <3>1, <3>2, <3>3
    <3> QED
      BY <3>1, <3>3 DEF AllDefault
  <2>2. CASE socket[next] # "ready"
    <3>1. step' = "idle" /\ UNCHANGED socket
      BY <1>2, <2>2 DEF Send, Escape
    <3>2. Pending' = {}
      BY <3>1 DEF Pending
    <3> QED
      BY <2>2, <3>1, <3>2
  <2> QED
    BY <2>1, <2>2
<1>3. CASE Receive
  <2>1. /\ step = "recv" /\ step' \in {"send", "recv", "finish"}
        /\ socket' = [socket EXCEPT ![next] = "ready"]
        /\ UNCHANGED <<call, saved, timeout>>
    BY <1>3 DEF Receive
  <2>2. Pending' = Pending \ {next} /\ next \in Pending
    BY <1>3, PendingReceived
  <2>3. ASSUME \A t \in Tasks : t \notin Pending' => socket'[t] = "ready",
               NEW t \in Tasks, t \notin Pending
        PROVE  socket[t] = "ready"
    BY <2>1, <2>2, <2>3
  <2> QED
    BY <2>1, <2>3 DEF AllDefault
<1>4. CASE TimesOut
  <2>1. CASE call.kind = "parallel"
    BY <1>4, <2>1 DEF TimesOut
  <2>2. CASE call.kind # "parallel"
    <3>1. /\ step = "recv" /\ step' = "idle" /\ UNCHANGED socket
      BY <1>4, <2>2 DEF TimesOut, Escape
    <3>2. next \in Tasks /\ next \in Pending
      BY <2>2, <3>1 DEF Pending
    <3>3. Pending' = {}
      BY <3>1 DEF Pending
    <3> QED
      BY <3>1, <3>2, <3>3 DEF MatchInv, PendingAsked
  <2> QED
    BY <2>1, <2>2
<1>5. CASE Finish
  <2>1. /\ step = "finish" /\ step' \in {"idle", "tell"} /\ UNCHANGED socket
        /\ timeout' = IF call.own THEN saved ELSE timeout
    BY <1>5 DEF Finish
  <2>2. Pending = {} /\ Pending' = {}
    BY <2>1 DEF Pending
  <2> QED
    BY <2>1, <2>2 DEF AllDefault
<1>6. CASE Stop \/ Tell \/ Close \/ Terminate \/ Join
  <2>1. step' \notin {"idle", "send", "recv", "finish"}
    BY <1>6 DEF Stop, Tell, Close, Terminate, Join
  <2> QED
    BY <2>1
<1>7. CASE Term
  <2>1. step' = "idle" /\ UNCHANGED socket /\ \A t \in Tasks : socket[t] = "closed"
    BY <1>7 DEF Term
  <2>2. Pending' = {}
    BY <2>1 DEF Pending
  <2> QED
    BY <2>1, <2>2
<1>8. CASE UNCHANGED parent
  BY <1>8 DEF parent, Pending, AllDefault
<1> QED
  BY <1>1, <1>2, <1>3, <1>4, <1>5, <1>6, <1>7, <1>8
     DEF Next, Continue, HandleCmd, SendReply, Ends, vars

\* After a command with a timeout of its own the sockets have their default
\* again, unless one is stuck waiting, for any number of tasks (cmd).
THEOREM TimeoutsPutBack == Spec => []TimeoutsReverted
<1>1. RevertInv => TimeoutsReverted
  BY DEF RevertInv, TimeoutsReverted, AllDefault, TypeInv, TypeOK, Tasks
<1> QED
  BY <1>1, MatchInit, MatchNext, RevertInit, RevertNext, PTL DEF Spec
=============================================================================
