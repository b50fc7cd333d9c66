---------------------------- MODULE Broadcaster ----------------------------
(***************************************************************************)
(* gnome.multi_model_broadcast: a ModelBroadcaster drives one process per  *)
(* uncertain variant of a model, a ModelConsumer, through a pair of ZeroMQ *)
(* sockets: REQ at the broadcaster, REP at the consumer.                   *)
(*                                                                         *)
(* A REQ socket must alternate between send and recv.  A recv that times   *)
(* out leaves it waiting for the reply, and a send is then refused         *)
(* (ZMQError EFSM).  stop() must take everything down from there: whatever *)
(* command failed, at whichever task, in whatever state the processes are. *)
(*                                                                         *)
(* A command is the number of its call; what it does to the model is left  *)
(* out.  A consumer may take any time over one, never answer (send_unicode *)
(* raises on a pickle that is bytes), answer with an exception, or die.    *)
(***************************************************************************)
EXTENDS Integers, Sequences, FiniteSets

CONSTANTS
    NumTasks,      \* the processes, one per pair of uncertainty values
    Replies,       \* what a consumer may answer, see ReplyKinds
    MaxCommands    \* bound: calls of cmd()

ReplyKinds == {"result", "exception", "none"}

ASSUME BroadcasterAssumption ==
    /\ NumTasks \in Nat \ {0}
    /\ Replies \subseteq ReplyKinds
    /\ MaxCommands \in Nat

Tasks == 1 .. NumTasks

VARIABLES
    calls,       \* how many commands were called; the number of the last
    call,        \* the command under way, see Command
    step,        \* where the broadcaster's thread stands; "idle" between calls
    next,        \* the task its loop is at
    got,         \* the replies of this command so far
    outcome,     \* how the last call ended
    running,     \* self.tasks is not empty
    socket,      \* per task: "ready" to send, "waiting" to receive, "closed"
    timeout,     \* per task: RCVTIMEO, the "default" or the caller's "own"
    saved,       \* old_timeouts
    request,     \* per task: the message on its way to the consumer
    reply,       \* per task: the message on its way back
    consumer     \* per task: the process, see ConsumerStates

parent  == <<calls, call, step, next, got, outcome, running, socket, timeout, saved>>
channel == <<request, reply>>
vars    == <<parent, channel, consumer>>

Nothing == [of |-> 0, kind |-> "nothing"]
Pill    == [of |-> 0, kind |-> "pill"]            \* dumps(None)
Asked(n) == [of |-> n, kind |-> "request"]

\* In its loop, at work on a command, out of the loop after a pill, under
\* SIGTERM, gone.
ConsumerStates == {[at |-> s, of |-> 0] : s \in {"loop", "leaving", "killed", "gone"}}
                  \cup [at : {"busy"}, of : 1 .. MaxCommands]

At(s) == [at |-> s, of |-> 0]

Calls == [kind : {"parallel", "serial", "one"}, own : BOOLEAN, idx : Tasks]

\* __init__: the processes are spawned and the sockets connected; its own
\* commands are calls of kind "one" like any other.
Init ==
    /\ calls = 0 /\ call = [kind |-> "one", own |-> FALSE, idx |-> 1] /\ step = "idle" /\ next = 1
    /\ got = <<>> /\ outcome = "none" /\ running = TRUE
    /\ socket = [t \in Tasks |-> "ready"]
    /\ timeout = [t \in Tasks |-> "default"] /\ saved = timeout
    /\ request = [t \in Tasks |-> Nothing] /\ reply = [t \in Tasks |-> Nothing]
    /\ consumer = [t \in Tasks |-> At("loop")]

-----------------------------------------------------------------------------
(* ModelBroadcaster.cmd.                                                   *)

\* A call to one task, by idx or uncertainty_values, or to all of them.  Only
\* a call to all looks at the timeout argument.  Without tasks it returns
\* None and changes nothing.
Command ==
    /\ step = "idle" /\ running /\ calls < MaxCommands
    /\ calls' = calls + 1
    /\ got' = <<>>
    /\ call' \in {c \in Calls : c.kind = "one" => ~c.own}
    /\ step' = "send"
    /\ next' = IF call'.kind = "one" THEN call'.idx ELSE 1
    /\ IF call'.own
       THEN saved' = timeout /\ timeout' = [t \in Tasks |-> "own"]
       ELSE UNCHANGED <<saved, timeout>>
    /\ UNCHANGED <<outcome, running, socket, channel, consumer>>

\* An exception leaves cmd() without stopping or restoring anything.
Escape == step' = "idle" /\ outcome' = "raised"

\* A faulty variant: a socket may send again before it has received.
SendAgain ==
    /\ step = "send"
    /\ socket' = [socket EXCEPT ![next] = "waiting"]
    /\ request' = [request EXCEPT ![next] = Asked(calls)]
    /\ IF call.kind = "parallel" /\ next < NumTasks
       THEN next' = next + 1 /\ UNCHANGED step
       ELSE /\ step' = "recv"
            /\ next' = IF call.kind = "parallel" THEN 1 ELSE next
    /\ UNCHANGED <<calls, call, got, outcome, running, timeout, saved, reply, consumer>>

\* send() of the request.  In parallel all are sent before any is received.
Send ==
    /\ step = "send"
    /\ IF socket[next] = "ready"
       THEN /\ socket' = [socket EXCEPT ![next] = "waiting"]
            /\ request' = [request EXCEPT ![next] = Asked(calls)]
            /\ IF call.kind = "parallel" /\ next < NumTasks
               THEN next' = next + 1 /\ UNCHANGED step
               ELSE /\ step' = "recv"
                    /\ next' = IF call.kind = "parallel" THEN 1 ELSE next
            /\ UNCHANGED outcome
       ELSE Escape /\ UNCHANGED <<socket, request, next>>
    /\ UNCHANGED <<calls, call, got, running, timeout, saved, reply, consumer>>

\* recv_from_task with an answer.
Receive ==
    /\ step = "recv" /\ reply[next] # Nothing
    /\ got' = Append(got, reply[next])
    /\ reply' = [reply EXCEPT ![next] = Nothing]
    /\ socket' = [socket EXCEPT ![next] = "ready"]
    /\ IF call.kind = "one" \/ next = NumTasks
       THEN step' = "finish" /\ UNCHANGED next
       ELSE /\ step' = IF call.kind = "serial" THEN "send" ELSE "recv"
            /\ next' = next + 1
    /\ UNCHANGED <<calls, call, outcome, running, timeout, saved, request, consumer>>

\* recv raises zmq.Again, which only a parallel command catches: it stops
\* the broadcaster and returns None.
TimesOut ==
    /\ step = "recv" /\ reply[next] = Nothing
    /\ IF call.kind = "parallel"
       THEN step' = "tell" /\ next' = 1 /\ outcome' = "nothing"
       ELSE Escape /\ UNCHANGED next
    /\ UNCHANGED <<calls, call, got, running, socket, timeout, saved, channel, consumer>>

\* A faulty variant: the timeouts are left as the caller wanted them.
FinishUnrestored ==
    /\ step = "finish"
    /\ IF \E i \in DOMAIN got : got[i].kind = "exception"
       THEN step' = "tell" /\ next' = 1 /\ outcome' = "raised"
       ELSE step' = "idle" /\ outcome' = "returned" /\ UNCHANGED next
    /\ UNCHANGED <<calls, call, got, running, socket, timeout, saved, channel, consumer>>

\* Every reply is here: the timeouts are put back, and a child's exception
\* stops the broadcaster and is raised.
Finish ==
    /\ step = "finish"
    /\ timeout' = IF call.own THEN saved ELSE timeout
    /\ IF \E i \in DOMAIN got : got[i].kind = "exception"
       THEN step' = "tell" /\ next' = 1 /\ outcome' = "raised"
       ELSE step' = "idle" /\ outcome' = "returned" /\ UNCHANGED next
    /\ UNCHANGED <<calls, call, got, running, socket, saved, channel, consumer>>

-----------------------------------------------------------------------------
(* ModelBroadcaster.stop, called by cmd(), by the user and by __del__.     *)

Stop ==
    /\ step = "idle" /\ running
    /\ step' = "tell" /\ next' = 1 /\ outcome' = "stopped"
    /\ UNCHANGED <<calls, call, got, running, socket, timeout, saved, channel, consumer>>

\* The pills go out in a row; the first socket that is waiting raises, and
\* the tasks after it get none.
Tell ==
    /\ step = "tell"
    /\ IF socket[next] = "ready"
       THEN /\ socket' = [socket EXCEPT ![next] = "waiting"]
            /\ request' = [request EXCEPT ![next] = Pill]
            /\ IF next < NumTasks
               THEN next' = next + 1 /\ UNCHANGED step
               ELSE step' = "close" /\ UNCHANGED next
       ELSE step' = "close" /\ UNCHANGED <<socket, request, next>>
    /\ UNCHANGED <<calls, call, got, outcome, running, timeout, saved, reply, consumer>>

\* A faulty variant: only the sockets that were told are closed.
CloseTold ==
    /\ step = "close"
    /\ socket' = [t \in Tasks |-> IF t <= next THEN "closed" ELSE socket[t]]
    /\ step' = "terminate" /\ next' = 1
    /\ UNCHANGED <<calls, call, got, outcome, running, timeout, saved, channel, consumer>>

\* finally: every socket is closed.  What was sent may still arrive
\* (LINGER), or not.
Close ==
    /\ step = "close"
    /\ socket' = [t \in Tasks |-> "closed"]
    /\ \E lost \in SUBSET Tasks :
          request' = [t \in Tasks |-> IF t \in lost THEN Nothing ELSE request[t]]
    /\ reply' = [t \in Tasks |-> Nothing]
    /\ step' = "terminate" /\ next' = 1
    /\ UNCHANGED <<calls, call, got, outcome, running, timeout, saved, consumer>>

\* A faulty variant: the processes are told to end and not waited for.
TerminateUnjoined ==
    /\ step = "terminate"
    /\ consumer' = [consumer EXCEPT ![next] = IF @.at = "gone" THEN @ ELSE At("killed")]
    /\ IF next < NumTasks THEN next' = next + 1 /\ UNCHANGED step
       ELSE step' = "term" /\ UNCHANGED next
    /\ UNCHANGED <<calls, call, got, outcome, running, socket, timeout, saved, channel>>

Terminate ==
    /\ step = "terminate"
    /\ consumer' = [consumer EXCEPT ![next] = IF @.at = "gone" THEN @ ELSE At("killed")]
    /\ step' = "join"
    /\ UNCHANGED <<calls, call, next, got, outcome, running, socket, timeout, saved, channel>>

Join ==
    /\ step = "join" /\ consumer[next].at = "gone"
    /\ IF next < NumTasks THEN step' = "terminate" /\ next' = next + 1
       ELSE step' = "term" /\ UNCHANGED next
    /\ UNCHANGED <<calls, call, got, outcome, running, socket, timeout, saved,
                   channel, consumer>>

\* context.term() blocks until the last socket is closed; then consumers,
\* tasks and lookup are emptied.
Term ==
    /\ step = "term" /\ \A t \in Tasks : socket[t] = "closed"
    /\ running' = FALSE /\ step' = "idle"
    /\ UNCHANGED <<calls, call, next, got, outcome, socket, timeout, saved,
                   channel, consumer>>

-----------------------------------------------------------------------------
(* ModelConsumer.                                                          *)

\* handle_cmd with a request, or with None, which stops the loop.
HandleCmd(t) ==
    /\ consumer[t].at = "loop" /\ request[t] # Nothing
    /\ request' = [request EXCEPT ![t] = Nothing]
    /\ consumer' = [consumer EXCEPT ![t] =
                       IF request[t] = Pill THEN At("leaving")
                       ELSE [at |-> "busy", of |-> request[t].of]]
    /\ UNCHANGED <<parent, reply>>

\* The result, the exception, or nothing when send_unicode raises: the loop
\* goes on.  A reply to a closed socket is dropped.
SendReply(t) ==
    /\ consumer[t].at = "busy"
    /\ \E kind \in Replies :
          reply' = [reply EXCEPT ![t] =
                       IF kind = "none" \/ socket[t] = "closed" THEN Nothing
                       ELSE [of |-> consumer[t].of, kind |-> kind]]
    /\ consumer' = [consumer EXCEPT ![t] = At("loop")]
    /\ UNCHANGED <<parent, request>>

\* run() returns after the loop; SIGTERM ends the process anywhere; and it
\* may die of itself.
Ends(t) ==
    /\ consumer[t].at # "gone"
    /\ consumer' = [consumer EXCEPT ![t] = At("gone")]
    /\ UNCHANGED <<parent, channel>>

-----------------------------------------------------------------------------
Continue == \/ Send \/ Receive \/ TimesOut \/ Finish
            \/ Tell \/ Close \/ Terminate \/ Join \/ Term

Next == \/ Command \/ Stop \/ Continue
        \/ \E t \in Tasks : HandleCmd(t) \/ SendReply(t) \/ Ends(t)

\* The broadcaster's thread goes on, every receive having its timer, and a
\* process under SIGTERM ends.  Nothing is assumed of a consumer at work.
Fairness == /\ WF_vars(Continue)
            /\ \A t \in Tasks : WF_vars(consumer[t].at = "killed" /\ Ends(t))

Spec == Init /\ [][Next]_vars /\ Fairness

-----------------------------------------------------------------------------
(* Properties.                                                             *)

Messages == {Nothing, Pill} \cup [of : 1 .. MaxCommands,
                                  kind : {"request", "result", "exception"}]

\* The types of the variables.
TypeOK ==
    /\ calls \in 0 .. MaxCommands /\ call \in Calls /\ next \in Tasks
    /\ step \in {"idle", "send", "recv", "finish",
                 "tell", "close", "terminate", "join", "term"}
    /\ got \in Seq(Messages) /\ running \in BOOLEAN
    /\ outcome \in {"none", "raised", "nothing", "returned", "stopped"}
    /\ socket \in [Tasks -> {"ready", "waiting", "closed"}]
    /\ timeout \in [Tasks -> {"default", "own"}]
    /\ saved \in [Tasks -> {"default", "own"}]
    /\ request \in [Tasks -> Messages] /\ reply \in [Tasks -> Messages]
    /\ consumer \in [Tasks -> ConsumerStates]

\* Every reply a command collects is an answer to that command: the answer to
\* one that timed out, arriving late, is never taken for the next one's.
RepliesMatch == \A i \in DOMAIN got : got[i].of = calls

\* Once stopped, however the command before failed, no process is left and
\* no socket is open.
StopLeavesNothing ==
    ~running => \A t \in Tasks : consumer[t].at = "gone" /\ socket[t] = "closed"

\* "The timeout should have reverted back to the default": after a command
\* with a timeout of its own the sockets have their default again, unless a
\* task is stuck waiting, which only stop() can end.
TimeoutsReverted ==
    step = "idle" /\ (\A t \in Tasks : socket[t] = "ready") =>
        \A t \in Tasks : timeout[t] = "default"

\* cmd() and stop() return: no consumer that hangs, dies, or answers late or
\* never, keeps the caller waiting for ever.
CallsEnd == (step # "idle") ~> (step = "idle")

=============================================================================
