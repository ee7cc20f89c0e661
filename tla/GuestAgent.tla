------------------------------ MODULE GuestAgent ------------------------------
(***************************************************************************)
(* How vmctl talks to the agent inside a guest.  QEMU passes bytes between *)
(* a socket, of which it serves one connection at a time, and a port of    *)
(* the guest.  The agent sees one stream for all connections: it answers   *)
(* in order and knows nothing of clients that come and go, so that what is *)
(* meant for one client may reach the next.  Each connection of vmctl      *)
(* therefore begins with guest-sync-delimited, whose reply is marked with  *)
(* a byte 0xff and repeats a number; here that is the number of the        *)
(* connection.  guest-exec makes a connection for each of its requests.    *)
(***************************************************************************)
EXTENDS Naturals, Sequences

CONSTANTS
    Clients,
    MaxConnections  \* bound on the connections that are ever made

ASSUME AgentAssumption == MaxConnections \in Nat

\* "ask" stands for ping, the queries, freeze, thaw and trim; "doctor" is a ping too.
Commands == {"ask", "doctor", "shutdown", "exec"}

VARIABLES
    pc, command,
    conn,       \* the connection of a client; 0 is none
    program,    \* exec: the guest's PID of the program; 0 until the agent has answered
    began,      \* exec: the connection that asked for the program (auxiliary)
    answer,     \* the last reply taken for an answer, and on which connection (auxiliary)
    result,     \* what the last command came to
    next,       \* how many connections were made
    closed,     \* the connections that vmctl has closed
    backlog,    \* the connections that QEMU has not accepted yet
    sent,       \* what each connection has sent and QEMU has not read
    open,       \* the connection that QEMU serves; 0 is none
    toGuest,    \* the requests on their way to the agent
    fromGuest,  \* the replies on their way back
    programs,   \* the programs in the guest, by the request that started them
    known       \* the programs whose status the agent can still tell

clients == <<pc, command, conn, program, began, answer, result>>
sockets == <<next, closed, backlog, sent, open>>
guest == <<toGuest, fromGuest, programs, known>>
vars == <<clients, sockets, guest>>

Connections == 1 .. MaxConnections

NoAnswer == [kind |-> "none", id |-> 0, on |-> 0]

Init ==
    /\ pc = [c \in Clients |-> "idle"]
    /\ command = [c \in Clients |-> "none"]
    /\ conn = [c \in Clients |-> 0]
    /\ program = [c \in Clients |-> 0]
    /\ began = [c \in Clients |-> 0]
    /\ answer = [c \in Clients |-> NoAnswer]
    /\ result = [c \in Clients |-> "none"]
    /\ next = 0
    /\ closed = {}
    /\ backlog = <<>>
    /\ sent = [i \in Connections |-> <<>>]
    /\ open = 0
    /\ toGuest = <<>>
    /\ fromGuest = <<>>
    /\ programs = [i \in Connections |-> "none"]
    /\ known = {}

-----------------------------------------------------------------------------
(* A command of vmctl.                                                     *)

At(c, label) == pc[c] = label

\* guest_vm holds the operation lock of the VM; doctor does not ask for it.
Begin(c) ==
    /\ At(c, "idle")
    /\ \E k \in Commands :
        /\ k # "doctor" => \A d \in Clients : command[d] \in {"none", "doctor"}
        /\ command' = [command EXCEPT ![c] = k]
    /\ pc' = [pc EXCEPT ![c] = "connect"]
    /\ program' = [program EXCEPT ![c] = 0]
    /\ began' = [began EXCEPT ![c] = 0]
    /\ answer' = [answer EXCEPT ![c] = NoAnswer]
    /\ result' = [result EXCEPT ![c] = "none"]
    /\ UNCHANGED <<conn, sockets, guest>>

\* The stream is dropped at the end of guest_command_until.
Hangup(c) ==
    /\ conn' = [conn EXCEPT ![c] = 0]
    /\ closed' = IF conn[c] = 0 THEN closed ELSE closed \cup {conn[c]}

Return(c, r) ==
    /\ Hangup(c)
    /\ pc' = [pc EXCEPT ![c] = "idle"]
    /\ command' = [command EXCEPT ![c] = "none"]
    /\ result' = [result EXCEPT ![c] = r]
    /\ UNCHANGED <<program, began>>

\* connect_endpoint_retry_with_timeout and the request of sync_guest_agent; a
\* connection can be made, and written to, before QEMU accepts it.
Connect(c) ==
    /\ At(c, "connect")
    /\ next < MaxConnections
    /\ next' = next + 1
    /\ conn' = [conn EXCEPT ![c] = next + 1]
    /\ backlog' = Append(backlog, next + 1)
    /\ sent' = [sent EXCEPT ![next + 1] = <<[kind |-> "sync", id |-> next + 1, of |-> 0]>>]
    /\ pc' = [pc EXCEPT ![c] = "sync"]
    /\ UNCHANGED <<command, program, began, answer, result, closed, open, guest>>

\* The next reply that the client can read.
Arrives(c) == conn[c] = open /\ fromGuest # <<>>

\* Mutant: any reply to a guest-sync-delimited will do.
ReadSync_AnyNumber(c) ==
    /\ At(c, "sync")
    /\ Arrives(c)
    /\ fromGuest' = Tail(fromGuest)
    /\ pc' = [pc EXCEPT ![c] = IF Head(fromGuest).kind = "sync" THEN "request" ELSE "sync"]
    /\ UNCHANGED <<command, conn, program, began, answer, result, sockets,
                   toGuest, programs, known>>

\* sync_guest_agent skips everything up to the reply with its own number.
ReadSync(c) ==
    /\ At(c, "sync")
    /\ Arrives(c)
    /\ fromGuest' = Tail(fromGuest)
    /\ pc' = [pc EXCEPT ![c] =
                IF Head(fromGuest).kind = "sync" /\ Head(fromGuest).id = conn[c]
                THEN "request" ELSE "sync"]
    /\ UNCHANGED <<command, conn, program, began, answer, result, sockets,
                   toGuest, programs, known>>

\* Mutant: guest-exec-status is sent without the PID.
Request_WithoutPid(c) ==
    [kind |-> IF command[c] # "exec" THEN command[c]
              ELSE IF program[c] = 0 THEN "exec" ELSE "status",
     id |-> conn[c]]

\* exec asks for the program, and from then on for its status.
Request(c) ==
    [kind |-> IF command[c] # "exec" THEN command[c]
              ELSE IF program[c] = 0 THEN "exec" ELSE "status",
     id |-> conn[c],
     of |-> program[c]]

SendRequest(c) ==
    /\ At(c, "request")
    /\ sent' = [sent EXCEPT ![conn[c]] = Append(@, Request(c))]
    /\ began' = [began EXCEPT ![c] = IF Request(c).kind = "exec" THEN conn[c] ELSE @]
    /\ pc' = [pc EXCEPT ![c] = "reply"]
    /\ UNCHANGED <<command, conn, program, answer, result, next, closed, backlog, open, guest>>

\* What a command whose time is over reports.
Expired(c) == IF program[c] # 0 THEN "timeout" ELSE "unavailable"

\* The deadline passes, or vmctl dies, in the middle of write_all_until.
WriteHalf(c) ==
    /\ At(c, "request")
    /\ sent' = [sent EXCEPT ![conn[c]] = Append(@, [kind |-> "half", id |-> conn[c], of |-> 0])]
    /\ \E r \in {"none", Expired(c)} : Return(c, r)
    /\ UNCHANGED <<answer, next, backlog, open, guest>>

\* Mutant: the next poll uses a new connection, and the old one stays.
PollAgain_KeepsConnection(c) ==
    /\ pc' = [pc EXCEPT ![c] = "connect"]
    /\ UNCHANGED <<conn, closed, command, began, result>>

\* guest_exec sleeps and makes its next request.
PollAgain(c) ==
    /\ Hangup(c)
    /\ pc' = [pc EXCEPT ![c] = "connect"]
    /\ UNCHANGED <<command, began, result>>

\* Mutant: the field "exited" is not looked at.
Finished_Always(r) == r.kind \in {"exited", "running"}

\* The field "exited" of guest-exec-status.
Finished(r) == r.kind = "exited"

\* The replies without the fields that the request calls for: "error", and the marked
\* reply to a sync, which is no UTF-8, never have them.
Unfit(c, r) ==
    \/ r.kind \in {"error", "sync"}
    \/ command[c] = "exec" /\ program[c] = 0 /\ r.kind # "started"
    \/ command[c] = "exec" /\ program[c] # 0 /\ r.kind \notin {"running", "exited"}

\* What guest_command_until, and guest_exec around it, make of the line they read.
TakeReply(c, r) ==
    \/ /\ Unfit(c, r)
       /\ Return(c, "rejected")
    \/ /\ ~Unfit(c, r)
       /\ command[c] # "exec"
       /\ Return(c, "answered")
    \/ /\ ~Unfit(c, r)
       /\ command[c] = "exec"
       /\ program[c] = 0
       /\ PollAgain(c)
       /\ program' = [program EXCEPT ![c] = r.id]
    \/ /\ ~Unfit(c, r)
       /\ command[c] = "exec"
       /\ program[c] # 0
       /\ Finished(r)
       /\ Return(c, "exited")
    \/ /\ ~Unfit(c, r)
       /\ command[c] = "exec"
       /\ program[c] # 0
       /\ ~Finished(r)
       /\ PollAgain(c)
       /\ UNCHANGED program

ReadReply(c) ==
    /\ At(c, "reply")
    /\ Arrives(c)
    /\ fromGuest' = Tail(fromGuest)
    /\ answer' = [answer EXCEPT ![c] =
                    [kind |-> Head(fromGuest).kind, id |-> Head(fromGuest).id, on |-> conn[c]]]
    /\ TakeReply(c, Head(fromGuest))
    /\ UNCHANGED <<next, backlog, sent, open, toGuest, programs, known>>

\* The deadline; guest-shutdown is not expected to be answered and waits 250 ms only.
Timeout(c) ==
    /\ ~At(c, "idle")
    /\ Return(c, IF command[c] = "shutdown" /\ At(c, "reply") THEN "requested"
                 ELSE Expired(c))
    /\ UNCHANGED <<answer, next, backlog, sent, open, guest>>

\* vmctl is killed; its connection is closed for it.
Die(c) ==
    /\ ~At(c, "idle")
    /\ Return(c, "none")
    /\ UNCHANGED <<answer, next, backlog, sent, open, guest>>

-----------------------------------------------------------------------------
(* QEMU.                                                                   *)

Accept ==
    /\ open = 0
    /\ backlog # <<>>
    /\ open' = Head(backlog)
    /\ backlog' = Tail(backlog)
    /\ UNCHANGED <<clients, next, closed, sent, guest>>

Forward ==
    /\ open # 0
    /\ sent[open] # <<>>
    /\ toGuest' = Append(toGuest, Head(sent[open]))
    /\ sent' = [sent EXCEPT ![open] = Tail(@)]
    /\ UNCHANGED <<clients, next, closed, backlog, open, fromGuest, programs, known>>

\* QEMU notices the end of the connection it serves.  The replies that were already
\* on the socket are lost; later ones wait in the port for the next connection.
Disconnect ==
    /\ open \in closed
    /\ open' = 0
    /\ sent' = [sent EXCEPT ![open] = <<>>]
    /\ \E k \in 1 .. Len(fromGuest) + 1 : fromGuest' = SubSeq(fromGuest, k, Len(fromGuest))
    /\ UNCHANGED <<clients, next, closed, backlog, toGuest, programs, known>>

-----------------------------------------------------------------------------
(* The agent and the programs in the guest.                                *)

\* What the agent may answer to a request; half a request is answered with an
\* error, if at all, and a shutdown that is carried out not at all.
Outcomes(q) ==
    CASE q.kind = "sync" -> {"sync"}
      [] q.kind \in {"ask", "doctor"} -> {"return", "error"}
      [] q.kind \in {"shutdown", "half"} -> {"silence", "error"}
      [] q.kind = "exec" -> {"started", "error"}
      [] q.kind = "status" ->
           IF q.of \notin known THEN {"error"}
           ELSE IF programs[q.of] = "running" THEN {"running"} ELSE {"exited"}

\* Nobody may be there to read the reply: the port drops it, or keeps it.
AgentStep ==
    /\ toGuest # <<>>
    /\ toGuest' = Tail(toGuest)
    /\ LET q == Head(toGuest) IN
       \E o \in Outcomes(q) :
         /\ \/ o # "silence" /\ fromGuest' = Append(fromGuest, [kind |-> o, id |-> q.id])
            \/ (o = "silence" \/ open = 0) /\ UNCHANGED fromGuest
         /\ programs' = IF o = "started" THEN [programs EXCEPT ![q.id] = "running"] ELSE programs
         /\ known' = CASE o = "started" -> known \cup {q.id}
                       [] o = "exited" -> known \ {q.of}
                       [] OTHER -> known
    /\ UNCHANGED <<clients, sockets>>

\* The agent, or the guest, starts again.
AgentRestart ==
    /\ toGuest' = <<>>
    /\ known' = {}
    /\ UNCHANGED <<clients, sockets, fromGuest, programs>>

ProgramEnds(i) ==
    /\ programs[i] = "running"
    /\ programs' = [programs EXCEPT ![i] = "ended"]
    /\ UNCHANGED <<clients, sockets, toGuest, fromGuest, known>>

-----------------------------------------------------------------------------

ClientStep(c) ==
    \/ Begin(c) \/ Connect(c) \/ ReadSync(c) \/ SendRequest(c) \/ WriteHalf(c)
    \/ ReadReply(c) \/ Timeout(c) \/ Die(c)

QemuStep == Accept \/ Forward \/ Disconnect

GuestStep == AgentStep \/ AgentRestart \/ \E i \in Connections : ProgramEnds(i)

Next == (\E c \in Clients : ClientStep(c)) \/ QemuStep \/ GuestStep

Spec == Init /\ [][Next]_vars

-----------------------------------------------------------------------------
(* Properties.                                                             *)

Requests ==
    [kind : {"sync", "ask", "doctor", "shutdown", "exec", "status", "half"},
     id : Connections, of : 0 .. MaxConnections]

ReplyKinds == {"sync", "return", "error", "started", "running", "exited"}

Replies == [kind : ReplyKinds, id : Connections]

TypeOK ==
    /\ pc \in [Clients -> {"idle", "connect", "sync", "request", "reply"}]
    /\ command \in [Clients -> Commands \cup {"none"}]
    /\ conn \in [Clients -> 0 .. next]
    /\ program \in [Clients -> 0 .. next]
    /\ began \in [Clients -> 0 .. next]
    /\ answer \in [Clients -> [kind : ReplyKinds \cup {"none"}, id : 0 .. next, on : 0 .. next]]
    /\ result \in [Clients -> {"none", "answered", "rejected", "unavailable", "timeout",
                               "requested", "exited"}]
    /\ next \in 0 .. MaxConnections
    /\ closed \subseteq 1 .. next
    /\ backlog \in Seq(1 .. next)
    /\ sent \in [Connections -> Seq(Requests)]
    /\ open \in 0 .. next
    /\ toGuest \in Seq(Requests)
    /\ fromGuest \in Seq(Replies)
    /\ programs \in [Connections -> {"none", "running", "ended"}]
    /\ known \subseteq Connections

\* What a client takes for the answer to its request is the agent's reply to that
\* request, whatever replies earlier clients, and its own earlier polls, have left.
AnswersAreOwn == \A c \in Clients : answer[c].id = answer[c].on

\* exec reports the end of a program only when the very program that it asked for
\* has run and ended.
ExecResultIsReal ==
    \A c \in Clients : result[c] = "exited" => began[c] # 0 /\ programs[began[c]] = "ended"

\* vmctl keeps no connection that it does not use: QEMU would serve nobody else.
ConnectionsAreReleased ==
    \A i \in 1 .. next : i \in closed \/ \E c \in Clients : conn[c] = i

=============================================================================
