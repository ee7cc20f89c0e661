------------------------------ MODULE QmpChannel ------------------------------
(***************************************************************************)
(* How vmctl talks to QEMU itself: the QMP socket, and the telnet monitor. *)
(* QEMU serves one QMP connection at a time.  It greets, wants             *)
(* qmp_capabilities first and then answers every request with the id that  *)
(* the request carries; events come in between, and so may the reply to a  *)
(* request whose connection is gone.  The ids of vmctl are fixed strings,  *)
(* one for each request of each command: two connections of one command    *)
(* use the same ids.                                                       *)
(***************************************************************************)
EXTENDS Naturals, Sequences

CONSTANTS
    Users,          \* the processes of vmctl
    MaxQmpLinks,    \* bound on the QMP connections that are ever made
    MaxWaiting      \* bound on the messages that wait on the socket

ASSUME QmpAssumption == MaxQmpLinks \in Nat /\ MaxWaiting \in Nat

\* What each command asks for, after the greeting, one request at a time.
Script ==
    [stop |-> <<"qmp_capabilities", "system_powerdown">>,
     monitor |-> <<"qmp_capabilities", "human-monitor-command">>,
     status |-> <<"qmp_capabilities", "query-status">>,
     live |-> <<"qmp_capabilities", "query-cpus-fast", "query-memory-size-summary",
                "query-block">>,
     ping |-> <<>>]

\* The commands that hold the operation lock of the VM; the others do not ask for it.
Locking == {"stop", "monitor", "telnet"}

UserCommands == DOMAIN Script \cup {"telnet"}

VARIABLES
    user,       \* the users: what each is doing, on which connection
    links,      \* the connections: made, closed, not accepted yet, and what they have sent
    monitor     \* QEMU's QMP server

qmpVars == <<user, links, monitor>>

Links == 1 .. MaxQmpLinks

\* A request is known by the string in its "id": the command and the request.
NoId == <<"none", "none">>

Id(command, i) == <<command, Script[command][i]>>

Idle == [at |-> "idle", command |-> "none", step |-> 0, link |-> 0, result |-> "none"]

NotBusy == [id |-> NoId, kind |-> "none"]

QmpInit ==
    /\ user = [u \in Users |-> Idle]
    /\ links = [made |-> 0, closed |-> {}, waiting |-> <<>>, sent |-> [i \in Links |-> <<>>]]
    /\ monitor = [serves |-> 0, negotiated |-> FALSE, busy |-> NotBusy, out |-> <<>>,
                  executed |-> {}]

-----------------------------------------------------------------------------
(* A command of vmctl.                                                     *)

Does(u, label) == user[u].at = label

\* monitor_vm takes the socket or the telnet way by the VM's configuration.
BeginQmp(u) ==
    /\ Does(u, "idle")
    /\ \E k \in UserCommands :
        /\ k \in Locking => \A v \in Users : user[v].command \notin Locking
        /\ user' = [user EXCEPT ![u] = [Idle EXCEPT !.at = IF k = "telnet" THEN "dial" ELSE "connect",
                                                    !.command = k]]
    /\ UNCHANGED <<links, monitor>>

\* The command is over; the connection is dropped with it.  The command stays known
\* beside its result until the next one begins.
Leave(u, result) ==
    /\ user' = [user EXCEPT ![u].at = "idle", ![u].link = 0, ![u].result = result,
                            ![u].command = IF result = "done" THEN @ ELSE "none"]
    /\ links' = IF user[u].link = 0 THEN links ELSE [links EXCEPT !.closed = @ \cup {user[u].link}]

\* connect_endpoint_retry; the connection may wait for QEMU to accept it.
ConnectQmp(u) ==
    /\ Does(u, "connect")
    /\ links.made < MaxQmpLinks
    /\ links' = [links EXCEPT !.made = @ + 1, !.waiting = Append(@, links.made + 1)]
    /\ user' = [user EXCEPT ![u].at = "greeting", ![u].link = links.made + 1]
    /\ UNCHANGED monitor

\* A line that the user can read: read_qmp_message_until.
Readable(u) == user[u].link # 0 /\ user[u].link = monitor.serves /\ monitor.out # <<>>

Consume == monitor' = [monitor EXCEPT !.out = Tail(@)]

\* The step after the current one, which may be the end of the command.
NextRequest(u) ==
    IF user[u].step = Len(Script[user[u].command])
    THEN Leave(u, "done")
    ELSE /\ user' = [user EXCEPT ![u].at = "send", ![u].step = @ + 1]
         /\ UNCHANGED links

\* The first line has to be the greeting, and nothing is skipped to find it.
ReadGreeting(u) ==
    /\ Does(u, "greeting")
    /\ Readable(u)
    /\ IF Head(monitor.out).kind = "greeting" THEN NextRequest(u) ELSE Leave(u, "failed")
    /\ Consume

SendQmp(u) ==
    /\ Does(u, "send")
    /\ links' = [links EXCEPT !.sent[user[u].link] =
                    Append(@, Id(user[u].command, user[u].step))]
    /\ user' = [user EXCEPT ![u].at = "reply"]
    /\ UNCHANGED monitor

\* Mutant: the id of a reply is not looked at.
Skips_AnyId(u, message) == message.kind = "event"

\* execute_qmp goes on to the next line after an event and after a reply with another
\* id, unless that is an error without any id.
Skips(u, message) ==
    \/ message.kind = "event"
    \/ /\ message.kind \in {"return", "error"}
       /\ message.id # Id(user[u].command, user[u].step)
       /\ ~(message.kind = "error" /\ message.id = NoId)

\* What execute_qmp makes of a line.
ReadQmpReply(u) ==
    /\ Does(u, "reply")
    /\ Readable(u)
    /\ LET message == Head(monitor.out) IN
       \/ /\ Skips(u, message)
          /\ UNCHANGED <<user, links>>
       \/ /\ ~Skips(u, message)
          /\ message.kind = "return"
          /\ NextRequest(u)
       \/ /\ ~Skips(u, message)
          /\ message.kind # "return"
          /\ Leave(u, "failed")
    /\ Consume

\* The deadline of the connection, a refused connection, the end of QEMU or of vmctl.
GiveUp(u) ==
    /\ ~Does(u, "idle")
    /\ Leave(u, "failed")
    /\ UNCHANGED monitor

-----------------------------------------------------------------------------
(* The telnet monitor, which has a socket of its own and no ids: the text  *)
(* that comes until QEMU pauses is taken for the response.                 *)

Dial(u) ==
    /\ Does(u, "dial")
    /\ user' = [user EXCEPT ![u].at = "listen"]
    /\ UNCHANGED <<links, monitor>>

\* step says whether any text has come; too much of it is an error.
ReadText(u) ==
    /\ Does(u, "listen")
    /\ \/ user' = [user EXCEPT ![u].step = 1] /\ UNCHANGED links
       \/ user[u].step = 1 /\ Leave(u, "failed")
    /\ UNCHANGED monitor

\* QEMU hangs up, or pauses for 500 ms after some text.
EndOfText(u) ==
    /\ Does(u, "listen")
    /\ Leave(u, IF user[u].step = 1 THEN "text" ELSE "empty")
    /\ UNCHANGED monitor

-----------------------------------------------------------------------------
(* QEMU's QMP server.                                                      *)

AcceptQmp ==
    /\ monitor.serves = 0
    /\ links.waiting # <<>>
    /\ monitor' = [monitor EXCEPT !.serves = Head(links.waiting), !.negotiated = FALSE,
                                  !.out = <<[kind |-> "greeting", id |-> NoId]>>]
    /\ links' = [links EXCEPT !.waiting = Tail(@)]
    /\ UNCHANGED user

\* Only qmp_capabilities is accepted first, and then no more.
Outcomes_Qmp(request) ==
    IF monitor.negotiated = (request = "qmp_capabilities") THEN {"error"}
    ELSE IF request = "qmp_capabilities" THEN {"return"} ELSE {"return", "error"}

\* QEMU carries a request out; what it returns is not ready yet.
ExecuteQmp ==
    /\ monitor.serves # 0
    /\ monitor.busy = NotBusy
    /\ links.sent[monitor.serves] # <<>>
    /\ LET id == Head(links.sent[monitor.serves]) IN
       \E kind \in Outcomes_Qmp(id[2]) :
         monitor' = [monitor EXCEPT
             !.busy = [id |-> id, kind |-> kind],
             !.negotiated = @ \/ id[2] = "qmp_capabilities",
             !.executed = IF kind = "return" THEN @ \cup {id} ELSE @]
    /\ links' = [links EXCEPT !.sent[monitor.serves] = Tail(@)]
    /\ UNCHANGED user

\* The reply goes to whoever is connected by now; an error may have lost its id.
ReplyQmp ==
    /\ monitor.busy # NotBusy
    /\ Len(monitor.out) < MaxWaiting
    /\ \E id \in {monitor.busy.id} \cup (IF monitor.busy.kind = "error" THEN {NoId} ELSE {}) :
         monitor' = [monitor EXCEPT
             !.busy = NotBusy,
             !.out = IF monitor.serves = 0 THEN @
                     ELSE Append(@, [kind |-> monitor.busy.kind, id |-> id])]
    /\ UNCHANGED <<user, links>>

\* An event, or a line that is no message.
EmitQmp ==
    /\ monitor.serves # 0
    /\ Len(monitor.out) < MaxWaiting
    /\ \E kind \in {"event", "junk"} :
         monitor' = [monitor EXCEPT !.out = Append(@, [kind |-> kind, id |-> NoId])]
    /\ UNCHANGED <<user, links>>

\* The end of a connection drops what it has sent and what it has not read, but not
\* the request that QEMU is at.
HangUpQmp ==
    /\ monitor.serves \in links.closed
    /\ monitor' = [monitor EXCEPT !.serves = 0, !.out = <<>>]
    /\ links' = [links EXCEPT !.sent[monitor.serves] = <<>>]
    /\ UNCHANGED user

-----------------------------------------------------------------------------

QmpUserStep(u) ==
    \/ BeginQmp(u) \/ ConnectQmp(u) \/ ReadGreeting(u) \/ SendQmp(u) \/ ReadQmpReply(u)
    \/ GiveUp(u) \/ Dial(u) \/ ReadText(u) \/ EndOfText(u)

QmpServerStep == AcceptQmp \/ ExecuteQmp \/ ReplyQmp \/ EmitQmp \/ HangUpQmp

QmpNext == (\E u \in Users : QmpUserStep(u)) \/ QmpServerStep

QmpSpec == QmpInit /\ [][QmpNext]_qmpVars

-----------------------------------------------------------------------------
(* Properties.                                                             *)

\* A command that reports success has had every one of its requests carried out by
\* QEMU: no event, no error and no reply to another command, late or not, passes for
\* an answer.  A stop in particular waits for the guest only when the power button
\* of this QEMU has been pressed, be it by an earlier stop: what was carried out stays so.
DoneIsReal ==
    \A u \in Users : user[u].result = "done" =>
        \A i \in 1 .. Len(Script[user[u].command]) :
            Id(user[u].command, i) \in monitor.executed

=============================================================================
