--------------------------- MODULE GuestAgentProofs ---------------------------
(***************************************************************************)
(* What GuestAgent promises for any number of clients and connections.     *)
(* The argument: QEMU serves a connection only while nothing of its own is *)
(* on the way, the agent answers in order, and the reply to its sync is    *)
(* the last thing on the way when a client reads it.  From there on all    *)
(* that is on the way is the client's own.                                 *)
(***************************************************************************)
EXTENDS GuestAgent, SequenceTheorems, TLAPS

Connected(c) == pc[c] \in {"sync", "request", "reply"}

\* A client in a request has a connection, which is its own and which is not closed.
ConnInv ==
    /\ \A c \in Clients : command[c] = "none" <=> pc[c] = "idle"
    /\ \A c \in Clients : Connected(c) <=> conn[c] # 0
    /\ \A c \in Clients : conn[c] \notin closed
    /\ \A c, d \in Clients : conn[c] = conn[d] /\ conn[c] # 0 => c = d

\* Every message is of a connection that was made, and is sent on it.
MessageInv ==
    /\ \A i \in Connections : sent[i] # <<>> => i <= next
    /\ \A i \in Connections : \A k \in 1 .. Len(sent[i]) : sent[i][k].id = i
    /\ \A k \in 1 .. Len(toGuest) : toGuest[k].id <= next
    /\ \A k \in 1 .. Len(fromGuest) : fromGuest[k].id <= next

\* Nothing of connection i is on the way to the agent, or on the way back.
NoRequest(i) == \A k \in 1 .. Len(toGuest) : toGuest[k].id # i

NoReply(i) == \A k \in 1 .. Len(fromGuest) : fromGuest[k].id # i

\* The sync of connection i is not sent, or sent and the last thing on the way.
SyncOf(i) ==
    /\ open # i => sent[i] # <<>>
    /\ sent[i] # <<>> =>
        /\ Len(sent[i]) = 1
        /\ sent[i][1].kind = "sync"
        /\ NoRequest(i)
        /\ NoReply(i)
    /\ \A k \in 1 .. Len(toGuest) :
        toGuest[k].id = i => k = Len(toGuest) /\ toGuest[k].kind = "sync" /\ NoReply(i)
    /\ \A k \in 1 .. Len(fromGuest) :
        fromGuest[k].id = i => k = Len(fromGuest) /\ toGuest = <<>>

\* After it, nothing is on the way.
RequestOf(i) ==
    /\ open = i
    /\ sent[i] = <<>>
    /\ toGuest = <<>>
    /\ fromGuest = <<>>

\* What follows is of connection i.
ReplyOf(i) ==
    /\ open = i
    /\ \A k \in 1 .. Len(toGuest) : toGuest[k].id = i
    /\ \A k \in 1 .. Len(fromGuest) : fromGuest[k].id = i

ChannelInv ==
    \A c \in Clients :
        /\ pc[c] = "sync" => SyncOf(conn[c])
        /\ pc[c] = "request" => RequestOf(conn[c])
        /\ pc[c] = "reply" => ReplyOf(conn[c])

\* No connection is forgotten.
ReleaseInv == \A i \in 1 .. next : i \in closed \/ \E c \in Clients : conn[c] = i

AgentInv ==
    TypeOK /\ ConnInv /\ MessageInv /\ ChannelInv /\ ReleaseInv /\ AnswersAreOwn

\* Connection i does not ask for a program any more.
NoExec(i) ==
    /\ \A k \in 1 .. Len(sent[i]) : sent[i][k].kind # "exec"
    /\ \A k \in 1 .. Len(toGuest) : toGuest[k].id = i => toGuest[k].kind # "exec"

\* A connection asks for one program at most.
Once(i) ==
    /\ programs[i] # "none" => NoExec(i)
    /\ \A k, l \in 1 .. Len(sent[i]) :
        sent[i][k].kind = "exec" /\ sent[i][l].kind = "exec" => k = l
    /\ \A k, l \in 1 .. Len(toGuest) :
        /\ toGuest[k].id = i /\ toGuest[k].kind = "exec"
        /\ toGuest[l].id = i /\ toGuest[l].kind = "exec"
        => k = l
    /\ \A k \in 1 .. Len(sent[i]), l \in 1 .. Len(toGuest) :
        sent[i][k].kind = "exec" /\ toGuest[l].id = i => toGuest[l].kind # "exec"

OnceInv == \A i \in Connections : Once(i)

\* Programs are those of connections that have asked for them; the agent tells the
\* status of programs that it has started.
ProgramInv ==
    /\ \A i \in Connections : programs[i] # "none" => i <= next
    /\ \A i \in known : programs[i] # "none"
    /\ \A c \in Clients : pc[c] \in {"sync", "request"} => programs[conn[c]] = "none"

\* An exec that polls asks for the status of the program it began, and is told the truth.
PollOf(c) ==
    /\ \A k \in 1 .. Len(sent[conn[c]]) :
        sent[conn[c]][k].kind = "status" /\ sent[conn[c]][k].of = program[c]
    /\ \A k \in 1 .. Len(toGuest) : toGuest[k].kind = "status" /\ toGuest[k].of = program[c]
    /\ \A k \in 1 .. Len(fromGuest) :
        fromGuest[k].kind = "exited" => programs[program[c]] = "ended"

ExecInv ==
    \A c \in Clients :
        /\ pc[c] # "idle" => result[c] = "none"
        /\ program[c] # 0 => program[c] = began[c]
        /\ pc[c] = "reply" /\ command[c] = "exec" =>
            IF program[c] = 0 THEN began[c] = conn[c] ELSE PollOf(c)

ResultInv == AgentInv /\ OnceInv /\ ProgramInv /\ ExecInv /\ ExecResultIsReal

-----------------------------------------------------------------------------

\* The rest of a sequence after its first element.
LEMMA TailOf ==
    ASSUME NEW S, NEW s \in Seq(S), s # <<>>
    PROVE  /\ Len(s) \in Nat \ {0}
           /\ Tail(s) \in Seq(S)
           /\ Len(Tail(s)) = Len(s) - 1
           /\ \A k \in 1 .. Len(Tail(s)) : k + 1 \in 1 .. Len(s) /\ Tail(s)[k] = s[k + 1]
           /\ Head(s) = s[1]
           /\ s[1] \in S
  <1>1. Len(s) \in Nat \ {0}
    BY EmptySeq
  <1>2. Tail(s) \in Seq(S) /\ Len(Tail(s)) = Len(s) - 1
    BY HeadTailProperties
  <1>3. \A k \in 1 .. Len(Tail(s)) : Tail(s)[k] = s[k + 1]
    BY HeadTailProperties
  <1>4. Head(s) = s[1] /\ s[1] \in S
    BY <1>1, ElementOfSeq
  <1> QED
    BY <1>1, <1>2, <1>3, <1>4

\* What QEMU may have lost of a sequence is its beginning.
LEMMA RestOf ==
    ASSUME NEW S, NEW s \in Seq(S), NEW n \in 1 .. Len(s) + 1
    PROVE  /\ SubSeq(s, n, Len(s)) \in Seq(S)
           /\ Len(SubSeq(s, n, Len(s))) = Len(s) - n + 1
           /\ \A k \in 1 .. Len(SubSeq(s, n, Len(s))) :
                /\ k + n - 1 \in 1 .. Len(s)
                /\ SubSeq(s, n, Len(s))[k] = s[k + n - 1]
  <1>1. Len(s) \in Nat
    BY LenProperties
  <1>2. \A k \in n .. Len(s) : s[k] \in S
    BY <1>1, ElementOfSeq
  <1>3. /\ SubSeq(s, n, Len(s)) \in Seq(S)
        /\ Len(SubSeq(s, n, Len(s))) = IF n <= Len(s) THEN Len(s) - n + 1 ELSE 0
        /\ \A k \in 1 .. Len(s) - n + 1 : SubSeq(s, n, Len(s))[k] = s[n + k - 1]
    BY <1>1, <1>2, SubSeqProperties
  <1>4. Len(SubSeq(s, n, Len(s))) = Len(s) - n + 1
    BY <1>1, <1>3
  <1> QED
    BY <1>1, <1>3, <1>4

\* A client in a request has a connection, and a command.
LEMMA HasConnection ==
    ASSUME TypeOK, ConnInv, NEW c \in Clients, Connected(c)
    PROVE  conn[c] # 0 /\ conn[c] \in Connections /\ command[c] # "none"
  <1>1. next \in 0 .. MaxConnections /\ conn[c] \in 0 .. next
    BY DEF TypeOK
  <1>2. conn[c] # 0 /\ command[c] # "none"
    BY DEF ConnInv, Connected
  <1> QED
    BY <1>1, <1>2, AgentAssumption DEF Connections

\* A client that is connected sends a request of its connection.
LEMMA RequestType ==
    ASSUME TypeOK, NEW c \in Clients, conn[c] # 0, command[c] # "none"
    PROVE  Request(c) \in Requests
  BY AgentAssumption DEF TypeOK, Request, Requests, Connections, Commands

\* The types of what all the ways out of a request change.
LEMMA ReturnType ==
    ASSUME TypeOK, NEW c \in Clients, NEW r, Return(c, r),
           r \in {"none", "answered", "rejected", "unavailable", "timeout", "requested", "exited"},
           next' = next
    PROVE  /\ pc' \in [Clients -> {"idle", "connect", "sync", "request", "reply"}]
           /\ command' \in [Clients -> Commands \cup {"none"}]
           /\ conn' \in [Clients -> 0 .. next]
           /\ program' \in [Clients -> 0 .. next]
           /\ began' \in [Clients -> 0 .. next]
           /\ result' \in [Clients -> {"none", "answered", "rejected", "unavailable", "timeout",
                                       "requested", "exited"}]
           /\ closed' \subseteq 1 .. next
  <1>1. next \in Nat /\ conn[c] \in 0 .. next
    BY AgentAssumption DEF TypeOK
  <1>2. conn' \in [Clients -> 0 .. next]
    BY <1>1 DEF TypeOK, Return, Hangup
  <1>3. closed' \subseteq 1 .. next
    <2>1. closed \subseteq 1 .. next
      BY DEF TypeOK
    <2>2. closed' = IF conn[c] = 0 THEN closed ELSE closed \cup {conn[c]}
      BY DEF Return, Hangup
    <2>3. conn[c] # 0 => conn[c] \in 1 .. next
      BY <1>1
    <2> QED
      BY <2>1, <2>2, <2>3
  <1> QED
    BY <1>2, <1>3 DEF TypeOK, Return

\* The types of what the way to the next poll changes.
LEMMA PollType ==
    ASSUME TypeOK, NEW c \in Clients, PollAgain(c), next' = next
    PROVE  /\ pc' \in [Clients -> {"idle", "connect", "sync", "request", "reply"}]
           /\ command' \in [Clients -> Commands \cup {"none"}]
           /\ conn' \in [Clients -> 0 .. next]
           /\ began' \in [Clients -> 0 .. next]
           /\ result' \in [Clients -> {"none", "answered", "rejected", "unavailable", "timeout",
                                       "requested", "exited"}]
           /\ closed' \subseteq 1 .. next
  <1>1. next \in Nat /\ conn[c] \in 0 .. next
    BY AgentAssumption DEF TypeOK
  <1>2. conn' \in [Clients -> 0 .. next]
    BY <1>1 DEF TypeOK, PollAgain, Hangup
  <1>3. closed' \subseteq 1 .. next
    <2>1. closed \subseteq 1 .. next
      BY DEF TypeOK
    <2>2. closed' = IF conn[c] = 0 THEN closed ELSE closed \cup {conn[c]}
      BY DEF PollAgain, Hangup
    <2>3. conn[c] # 0 => conn[c] \in 1 .. next
      BY <1>1
    <2> QED
      BY <2>1, <2>2, <2>3
  <1> QED
    BY <1>2, <1>3 DEF TypeOK, PollAgain

\* A client keeps the types.
LEMMA ClientTypeStep ==
    ASSUME TypeOK, ConnInv, MessageInv, NEW c \in Clients, ClientStep(c)
    PROVE  TypeOK'
  <1>1. CASE Begin(c)
    BY <1>1 DEF Begin, TypeOK, At, Commands, NoAnswer, ReplyKinds, sockets, guest
  <1>2. CASE Connect(c)
    <2>1. next + 1 \in Connections /\ next' = next + 1 /\ next \in Nat
      BY <1>2, AgentAssumption DEF Connect, TypeOK, Connections
    <2>2. [kind |-> "sync", id |-> next + 1, of |-> 0] \in Requests
      BY <2>1, AgentAssumption DEF Requests
    <2>3. backlog' \in Seq(1 .. next')
      <3>1. backlog \in Seq(1 .. next + 1)
        BY <2>1, SeqMonotonic DEF TypeOK
      <3> QED
        BY <1>2, <2>1, <3>1, AppendProperties DEF Connect
    <2>4. sent' \in [Connections -> Seq(Requests)]
      BY <1>2, <2>1, <2>2 DEF Connect, TypeOK
    <2>10. 0 .. next \subseteq 0 .. next' /\ 1 .. next \subseteq 1 .. next' /\ next + 1 \in 0 .. next'
      BY <2>1
    <2>5. conn' \in [Clients -> 0 .. next']
      <3>1. conn \in [Clients -> 0 .. next] /\ conn' = [conn EXCEPT ![c] = next + 1]
        BY <1>2 DEF Connect, TypeOK
      <3> QED
        BY <2>10, <3>1
    <2>6. answer' \in [Clients -> [kind : ReplyKinds \cup {"none"}, id : 0 .. next', on : 0 .. next']]
      <3>1. /\ answer \in [Clients -> [kind : ReplyKinds \cup {"none"}, id : 0 .. next, on : 0 .. next]]
            /\ answer' = answer
        BY <1>2 DEF Connect, TypeOK
      <3> QED
        BY <2>10, <3>1
    <2>7. /\ program' \in [Clients -> 0 .. next']
          /\ began' \in [Clients -> 0 .. next']
      <3>1. /\ program \in [Clients -> 0 .. next] /\ program' = program
            /\ began \in [Clients -> 0 .. next] /\ began' = began
        BY <1>2 DEF Connect, TypeOK
      <3> QED
        BY <2>10, <3>1
    <2>8. closed' \subseteq 1 .. next' /\ open' \in 0 .. next'
      BY <1>2, <2>10 DEF Connect, TypeOK
    <2>9. next' \in 0 .. MaxConnections
      BY <2>1, AgentAssumption DEF Connections
    <2> QED
      BY <1>2, <2>3, <2>4, <2>5, <2>6, <2>7, <2>8, <2>9 DEF Connect, TypeOK, guest
  <1>3. CASE ReadSync(c)
    <2>1. fromGuest' \in Seq(Replies)
      BY <1>3, TailOf DEF ReadSync, Arrives, TypeOK
    <2> QED
      BY <1>3, <2>1 DEF ReadSync, TypeOK, sockets
  <1>4. CASE SendRequest(c)
    <2>1. conn[c] # 0 /\ conn[c] \in Connections /\ command[c] # "none"
      BY <1>4, HasConnection DEF SendRequest, At, Connected
    <2>2. Append(sent[conn[c]], Request(c)) \in Seq(Requests)
      BY <2>1, RequestType, AppendProperties DEF TypeOK
    <2>3. sent' \in [Connections -> Seq(Requests)]
      BY <1>4, <2>1, <2>2 DEF SendRequest, TypeOK
    <2> QED
      BY <1>4, <2>3 DEF SendRequest, TypeOK, guest
  <1>5. CASE WriteHalf(c)
    <2>1. conn[c] # 0 /\ conn[c] \in Connections
      BY <1>5, HasConnection DEF WriteHalf, At, Connected
    <2>2. [kind |-> "half", id |-> conn[c], of |-> 0] \in Requests
      BY <2>1, AgentAssumption DEF Requests
    <2>3. Append(sent[conn[c]], [kind |-> "half", id |-> conn[c], of |-> 0]) \in Seq(Requests)
      BY <2>1, <2>2, AppendProperties DEF TypeOK
    <2>4. sent' \in [Connections -> Seq(Requests)]
      BY <1>5, <2>1, <2>3 DEF WriteHalf, TypeOK
    <2> QED
      BY <1>5, <2>4, ReturnType DEF WriteHalf, Expired, TypeOK, guest
  <1>6. CASE ReadReply(c)
    <2> DEFINE r == Head(fromGuest)
    <2>1. /\ fromGuest' \in Seq(Replies)
          /\ r \in Replies
          /\ r.id <= next
      BY <1>6, TailOf DEF ReadReply, Arrives, TypeOK, MessageInv
    <2>2. /\ r.kind \in ReplyKinds
          /\ r.id \in 0 .. next
      <3>1. next \in Nat
        BY AgentAssumption DEF TypeOK
      <3> HIDE DEF r
      <3> QED
        BY <2>1, <3>1, AgentAssumption DEF Replies, Connections
    <2>3. answer' \in [Clients -> [kind : ReplyKinds \cup {"none"}, id : 0 .. next, on : 0 .. next]]
      BY <1>6, <2>2 DEF ReadReply, TypeOK
    <2>4. CASE \E x \in {"rejected", "answered", "exited"} : Return(c, x)
      BY <1>6, <2>1, <2>3, <2>4, ReturnType DEF ReadReply, TypeOK
    <2>5. CASE PollAgain(c) /\ program' \in [Clients -> 0 .. next]
      BY <1>6, <2>1, <2>3, <2>5, PollType DEF ReadReply, TypeOK
    <2> QED
      BY <1>6, <2>2, <2>4, <2>5 DEF ReadReply, TakeReply, TypeOK
  <1>7. CASE Timeout(c)
    BY <1>7, ReturnType DEF Timeout, Expired, TypeOK, guest
  <1>8. CASE Die(c)
    BY <1>8, ReturnType DEF Die, TypeOK, guest
  <1> QED
    BY <1>1, <1>2, <1>3, <1>4, <1>5, <1>6, <1>7, <1>8 DEF ClientStep

\* QEMU keeps the types.
LEMMA QemuTypeStep ==
    ASSUME TypeOK, QemuStep
    PROVE  TypeOK'
  <1>1. CASE Accept
    BY <1>1, TailOf DEF Accept, TypeOK, clients, guest
  <1>2. CASE Forward
    <2>1. open \in Connections
      BY <1>2, AgentAssumption DEF Forward, TypeOK, Connections
    <2>2. Head(sent[open]) \in Requests /\ Tail(sent[open]) \in Seq(Requests)
      BY <1>2, <2>1, TailOf DEF Forward, TypeOK
    <2>3. toGuest' \in Seq(Requests)
      BY <1>2, <2>2, AppendProperties DEF Forward, TypeOK
    <2> QED
      BY <1>2, <2>1, <2>2, <2>3 DEF Forward, TypeOK, clients
  <1>3. CASE Disconnect
    <2>1. PICK n \in 1 .. Len(fromGuest) + 1 : fromGuest' = SubSeq(fromGuest, n, Len(fromGuest))
      BY <1>3 DEF Disconnect
    <2>2. fromGuest' \in Seq(Replies)
      BY <2>1, RestOf DEF TypeOK
    <2>3. <<>> \in Seq(Requests)
      BY EmptySeq
    <2>4. sent \in [Connections -> Seq(Requests)] /\ sent' = [sent EXCEPT ![open] = <<>>]
      BY <1>3 DEF Disconnect, TypeOK
    <2>5. sent' \in [Connections -> Seq(Requests)]
      BY <2>3, <2>4
    <2>6. open' \in 0 .. next'
      BY <1>3, AgentAssumption DEF Disconnect, TypeOK
    <2>7. UNCHANGED <<clients, next, closed, backlog, toGuest, programs, known>>
      BY <1>3 DEF Disconnect
    <2> QED
      BY <2>2, <2>5, <2>6, <2>7 DEF TypeOK, clients
  <1> QED
    BY <1>1, <1>2, <1>3 DEF QemuStep

\* The agent answers a request, if at all, with a reply of its connection.
LEMMA AgentReplies ==
    ASSUME TypeOK, AgentStep
    PROVE  \E e \in Replies :
             /\ e.id = toGuest[1].id
             /\ e.kind \in Outcomes(toGuest[1]) \/ fromGuest' = fromGuest
             /\ fromGuest' = fromGuest \/ fromGuest' = Append(fromGuest, e)
  <1>1. Head(toGuest) = toGuest[1] /\ toGuest[1] \in Requests
    BY TailOf DEF AgentStep, TypeOK
  <1>2. PICK o \in Outcomes(toGuest[1]) :
          \/ o # "silence" /\ fromGuest' = Append(fromGuest, [kind |-> o, id |-> toGuest[1].id])
          \/ (o = "silence" \/ open = 0) /\ UNCHANGED fromGuest
    BY <1>1 DEF AgentStep
  <1>3. o \in ReplyKinds \cup {"silence"} /\ toGuest[1].id \in Connections
    BY <1>1, <1>2 DEF Outcomes, ReplyKinds, Requests
  <1>4. CASE o # "silence"
    <2>1. [kind |-> o, id |-> toGuest[1].id] \in Replies
      BY <1>3, <1>4 DEF Replies
    <2> QED
      BY <1>2, <2>1
  <1>5. CASE o = "silence"
    <2>1. [kind |-> "error", id |-> toGuest[1].id] \in Replies
      BY <1>3 DEF Replies, ReplyKinds
    <2> QED
      BY <1>2, <1>5, <2>1
  <1> QED
    BY <1>4, <1>5

\* It starts a program only when it is asked to, and tells the truth about its end.
LEMMA AgentPrograms ==
    ASSUME TypeOK, AgentStep
    PROVE  /\ \/ programs' = programs /\ known' \subseteq known
              \/ /\ toGuest[1].kind = "exec"
                 /\ programs' = [programs EXCEPT ![toGuest[1].id] = "running"]
                 /\ known' = known \cup {toGuest[1].id}
           /\ \A k \in 1 .. Len(fromGuest') :
                \/ k \in 1 .. Len(fromGuest) /\ fromGuest'[k] = fromGuest[k]
                \/ fromGuest'[k].kind = "exited" /\ toGuest[1].kind = "status" =>
                     toGuest[1].of \in known /\ programs[toGuest[1].of] # "running"
  <1>1. Head(toGuest) = toGuest[1] /\ toGuest[1] \in Requests
    BY TailOf DEF AgentStep, TypeOK
  <1>2. PICK o \in Outcomes(toGuest[1]) :
          /\ \/ o # "silence" /\ fromGuest' = Append(fromGuest, [kind |-> o, id |-> toGuest[1].id])
             \/ (o = "silence" \/ open = 0) /\ UNCHANGED fromGuest
          /\ programs' = IF o = "started" THEN [programs EXCEPT ![toGuest[1].id] = "running"]
                         ELSE programs
          /\ known' = CASE o = "started" -> known \cup {toGuest[1].id}
                        [] o = "exited" -> known \ {toGuest[1].of}
                        [] OTHER -> known
    BY <1>1 DEF AgentStep
  <1>3. /\ o = "started" => toGuest[1].kind = "exec"
        /\ o = "exited" /\ toGuest[1].kind = "status" =>
             toGuest[1].of \in known /\ programs[toGuest[1].of] # "running"
        /\ o \in ReplyKinds \cup {"silence"}
    BY <1>1, <1>2 DEF Outcomes, Requests, ReplyKinds
  <1>4. CASE fromGuest' = fromGuest
    BY <1>2, <1>3, <1>4
  <1>5. CASE o # "silence" /\ fromGuest' = Append(fromGuest, [kind |-> o, id |-> toGuest[1].id])
    <2>1. [kind |-> o, id |-> toGuest[1].id] \in Replies
      BY <1>1, <1>3, <1>5 DEF Replies, Requests
    <2>2. fromGuest \in Seq(Replies) /\ Len(fromGuest) \in Nat
      BY LenProperties DEF TypeOK
    <2>3. /\ Len(fromGuest') = Len(fromGuest) + 1
          /\ \A k \in 1 .. Len(fromGuest) : fromGuest'[k] = fromGuest[k]
          /\ fromGuest'[Len(fromGuest) + 1].kind = o
      BY <1>5, <2>1, <2>2, AppendProperties
    <2>4. \A k \in 1 .. Len(fromGuest') :
            \/ k \in 1 .. Len(fromGuest) /\ fromGuest'[k] = fromGuest[k]
            \/ fromGuest'[k].kind = o
      BY <2>2, <2>3
    <2> QED
      BY <1>2, <1>3, <2>4
  <1> QED
    BY <1>2, <1>4, <1>5

\* The guest keeps the types.
LEMMA GuestTypeStep ==
    ASSUME TypeOK, GuestStep
    PROVE  TypeOK'
  <1>1. CASE AgentStep
    <2> DEFINE q == Head(toGuest)
    <2>1. q \in Requests /\ toGuest' \in Seq(Requests)
      BY <1>1, TailOf DEF AgentStep, TypeOK
    <2>2. PICK o \in Outcomes(q) :
            /\ \/ o # "silence" /\ fromGuest' = Append(fromGuest, [kind |-> o, id |-> q.id])
               \/ (o = "silence" \/ open = 0) /\ UNCHANGED fromGuest
            /\ programs' = IF o = "started" THEN [programs EXCEPT ![q.id] = "running"] ELSE programs
            /\ known' = CASE o = "started" -> known \cup {q.id}
                          [] o = "exited" -> known \ {q.of}
                          [] OTHER -> known
      BY <1>1 DEF AgentStep
    <2>3. o \in ReplyKinds \cup {"silence"}
      BY <2>1, <2>2 DEF Outcomes, ReplyKinds, Requests
    <2>4. q.id \in Connections
      BY <2>1 DEF Requests
    <2>5. fromGuest' \in Seq(Replies)
      <3>1. CASE o = "silence" \/ UNCHANGED fromGuest
        BY <2>2, <3>1 DEF TypeOK
      <3>2. CASE o # "silence" /\ fromGuest' = Append(fromGuest, [kind |-> o, id |-> q.id])
        <4>1. [kind |-> o, id |-> q.id] \in Replies
          BY <2>3, <2>4, <3>2 DEF Replies
        <4> QED
          BY <3>2, <4>1, AppendProperties DEF TypeOK
      <3> QED
        BY <2>2, <3>1, <3>2
    <2>6. programs' \in [Connections -> {"none", "running", "ended"}]
      BY <2>2, <2>4 DEF TypeOK
    <2>7. known' \subseteq Connections
      BY <2>2, <2>4 DEF TypeOK
    <2> QED
      BY <1>1, <2>1, <2>5, <2>6, <2>7 DEF AgentStep, TypeOK, clients, sockets
  <1>2. CASE AgentRestart
    <2>1. <<>> \in Seq(Requests)
      BY EmptySeq
    <2> QED
      BY <1>2, <2>1 DEF AgentRestart, TypeOK, clients, sockets
  <1>3. CASE \E i \in Connections : ProgramEnds(i)
    BY <1>3 DEF ProgramEnds, TypeOK, clients, sockets
  <1> QED
    BY <1>1, <1>2, <1>3 DEF GuestStep

-----------------------------------------------------------------------------

\* A step that ends a request closes the connection, and leaves the others alone.
LEMMA LeaveStep ==
    ASSUME NEW c \in Clients, WriteHalf(c) \/ ReadReply(c) \/ Timeout(c) \/ Die(c)
    PROVE  /\ Hangup(c)
           /\ \/ /\ pc' = [pc EXCEPT ![c] = "idle"]
                 /\ command' = [command EXCEPT ![c] = "none"]
              \/ /\ pc' = [pc EXCEPT ![c] = "connect"]
                 /\ pc[c] # "idle"
                 /\ command' = command
           /\ UNCHANGED <<next, backlog, open, toGuest>>
  <1>1. CASE WriteHalf(c)
    BY <1>1 DEF WriteHalf, Return, guest
  <1>2. CASE ReadReply(c)
    BY <1>2 DEF ReadReply, TakeReply, Return, PollAgain, At
  <1>3. CASE Timeout(c)
    BY <1>3 DEF Timeout, Return, guest
  <1>4. CASE Die(c)
    BY <1>4 DEF Die, Return, guest
  <1> QED
    BY <1>1, <1>2, <1>3, <1>4

\* The connections of the clients are their own.
LEMMA ConnStep ==
    ASSUME TypeOK, ConnInv, Next
    PROVE  ConnInv'
  <1>1. next \in Nat /\ closed \subseteq 1 .. next /\ \A c \in Clients : conn[c] \in 0 .. next
    BY AgentAssumption DEF TypeOK
  <1>2. ASSUME NEW c \in Clients, ClientStep(c) PROVE ConnInv'
    <2>1. CASE Begin(c)
      BY <2>1 DEF Begin, ConnInv, Connected, TypeOK, At, Commands, sockets
    <2>2. CASE Connect(c)
      <3>1. /\ conn' = [conn EXCEPT ![c] = next + 1]
            /\ pc' = [pc EXCEPT ![c] = "sync"]
            /\ pc[c] = "connect"
            /\ closed' = closed /\ command' = command
        BY <2>2 DEF Connect, At
      <3>2. \A d \in Clients : conn'[d] = IF d = c THEN next + 1 ELSE conn[d]
        BY <3>1 DEF TypeOK
      <3>3. \A d \in Clients : pc'[d] = IF d = c THEN "sync" ELSE pc[d]
        BY <3>1 DEF TypeOK
      <3>4. \A d \in Clients : conn'[d] \notin closed'
        BY <1>1, <3>1, <3>2 DEF ConnInv
      <3>5. \A d \in Clients : Connected(d)' <=> conn'[d] # 0
        BY <1>1, <3>2, <3>3 DEF ConnInv, Connected
      <3>6. \A d \in Clients : command'[d] = "none" <=> pc'[d] = "idle"
        BY <3>1, <3>3 DEF ConnInv
      <3>7. \A d, e \in Clients : conn'[d] = conn'[e] /\ conn'[d] # 0 => d = e
        BY <1>1, <3>2 DEF ConnInv
      <3> QED
        BY <3>4, <3>5, <3>6, <3>7 DEF ConnInv
    <2>3. CASE ReadSync(c)
      BY <2>3 DEF ReadSync, ConnInv, Connected, TypeOK, At, sockets
    <2>4. CASE SendRequest(c)
      BY <2>4 DEF SendRequest, ConnInv, Connected, TypeOK, At
    <2>5. CASE WriteHalf(c) \/ ReadReply(c) \/ Timeout(c) \/ Die(c)
      <3>1. /\ conn' = [conn EXCEPT ![c] = 0]
            /\ closed' \subseteq closed \cup {conn[c]}
        BY <2>5, LeaveStep DEF Hangup
      <3>2. conn[c] = 0 => closed' = closed
        BY <2>5, LeaveStep DEF Hangup
      <3>3. \A d \in Clients : conn'[d] \notin closed'
        BY <1>1, <3>1, <3>2 DEF ConnInv, TypeOK
      <3>4. \A d \in Clients : Connected(d)' <=> conn'[d] # 0
        <4>1. \A d \in Clients : IF d = c THEN pc'[d] \in {"idle", "connect"} ELSE pc'[d] = pc[d]
          <5>1. \E l \in {"idle", "connect"} : pc' = [pc EXCEPT ![c] = l]
            BY <2>5, LeaveStep
          <5> QED
            BY <5>1 DEF TypeOK
        <4>2. \A d \in Clients : conn'[d] = IF d = c THEN 0 ELSE conn[d]
          BY <3>1 DEF TypeOK
        <4> QED
          BY <4>1, <4>2 DEF ConnInv, Connected
      <3>5. \A d \in Clients : command'[d] = "none" <=> pc'[d] = "idle"
        <4>1. CASE pc' = [pc EXCEPT ![c] = "idle"] /\ command' = [command EXCEPT ![c] = "none"]
          BY <4>1 DEF ConnInv, TypeOK
        <4>2. CASE pc' = [pc EXCEPT ![c] = "connect"] /\ pc[c] # "idle" /\ command' = command
          BY <4>2 DEF ConnInv, TypeOK
        <4> QED
          BY <2>5, <4>1, <4>2, LeaveStep
      <3>6. \A d, e \in Clients : conn'[d] = conn'[e] /\ conn'[d] # 0 => d = e
        BY <3>1 DEF ConnInv, TypeOK
      <3> QED
        BY <3>3, <3>4, <3>5, <3>6 DEF ConnInv
    <2> QED
      BY <1>2, <2>1, <2>2, <2>3, <2>4, <2>5 DEF ClientStep
  <1>3. CASE QemuStep
    BY <1>3 DEF QemuStep, Accept, Forward, Disconnect, clients, ConnInv, Connected
  <1>4. CASE GuestStep
    BY <1>4 DEF GuestStep, AgentStep, AgentRestart, ProgramEnds, clients, sockets, ConnInv, Connected
  <1> QED
    BY <1>2, <1>3, <1>4 DEF Next

\* A connection that is given up is closed.
LEMMA ReleaseStep ==
    ASSUME TypeOK, ConnInv, ReleaseInv, Next
    PROVE  ReleaseInv'
  <1>1. next \in Nat
    BY AgentAssumption DEF TypeOK
  <1>2. ASSUME NEW c \in Clients, ClientStep(c) PROVE ReleaseInv'
    <2>1. CASE Begin(c)
      BY <2>1 DEF Begin, ReleaseInv, sockets
    <2>2. CASE Connect(c)
      <3>1. conn[c] = 0
        BY <2>2 DEF Connect, At, ConnInv, Connected
      <3>2. ASSUME NEW i \in 1 .. next + 1 PROVE i \in closed \/ \E d \in Clients : conn'[d] = i
        <4>1. CASE i = next + 1
          BY <2>2, <4>1 DEF Connect, TypeOK
        <4>2. CASE i \in 1 .. next
          BY <2>2, <3>1, <4>2 DEF Connect, TypeOK, ReleaseInv
        <4> QED
          BY <1>1, <3>2, <4>1, <4>2
      <3> QED
        BY <2>2, <3>2 DEF Connect, ReleaseInv
    <2>3. CASE ReadSync(c)
      BY <2>3 DEF ReadSync, ReleaseInv, sockets
    <2>4. CASE SendRequest(c)
      BY <2>4 DEF SendRequest, ReleaseInv
    <2>5. CASE WriteHalf(c) \/ ReadReply(c) \/ Timeout(c) \/ Die(c)
      <3>1. /\ conn' = [conn EXCEPT ![c] = 0]
            /\ closed' = IF conn[c] = 0 THEN closed ELSE closed \cup {conn[c]}
            /\ next' = next
        BY <2>5, LeaveStep DEF Hangup
      <3>2. ASSUME NEW i \in 1 .. next PROVE i \in closed' \/ \E d \in Clients : conn'[d] = i
        <4>1. CASE i = conn[c]
          BY <1>1, <3>1, <4>1
        <4>2. CASE i # conn[c]
          BY <3>1, <4>2 DEF TypeOK, ReleaseInv
        <4> QED
          BY <4>1, <4>2
      <3> QED
        BY <3>1, <3>2 DEF ReleaseInv
    <2> QED
      BY <1>2, <2>1, <2>2, <2>3, <2>4, <2>5 DEF ClientStep
  <1>3. CASE QemuStep
    BY <1>3 DEF QemuStep, Accept, Forward, Disconnect, clients, ReleaseInv
  <1>4. CASE GuestStep
    BY <1>4 DEF GuestStep, AgentStep, AgentRestart, ProgramEnds, clients, sockets, ReleaseInv
  <1> QED
    BY <1>2, <1>3, <1>4 DEF Next

-----------------------------------------------------------------------------

\* What is on the way has the number of the connection it is of.
LEMMA MessageStep ==
    ASSUME TypeOK, ConnInv, MessageInv, Next
    PROVE  MessageInv'
  <1>1. next \in Nat /\ open \in 0 .. next /\ next \in 0 .. MaxConnections
    BY AgentAssumption DEF TypeOK
  <1>2. ASSUME NEW c \in Clients, ClientStep(c) PROVE MessageInv'
    <2>1. CASE Begin(c)
      BY <2>1 DEF Begin, MessageInv, sockets, guest
    <2>2. CASE Connect(c)
      <3>1. /\ next' = next + 1
            /\ next + 1 \in Connections
            /\ sent' = [sent EXCEPT ![next + 1] = <<[kind |-> "sync", id |-> next + 1, of |-> 0]>>]
            /\ UNCHANGED <<toGuest, fromGuest>>
        BY <2>2, <1>1, AgentAssumption DEF Connect, Connections, guest
      <3>2. \A i \in Connections : i # next + 1 => sent'[i] = sent[i]
        BY <3>1 DEF TypeOK
      <3>3. sent'[next + 1] = <<[kind |-> "sync", id |-> next + 1, of |-> 0]>>
        BY <3>1 DEF TypeOK
      <3>4. \A i \in Connections : sent'[i] # <<>> => i <= next'
        BY <1>1, <3>1, <3>2, AgentAssumption DEF MessageInv, Connections
      <3>5. \A i \in Connections : \A k \in 1 .. Len(sent'[i]) : sent'[i][k].id = i
        BY <3>2, <3>3 DEF MessageInv
      <3>6. /\ \A k \in 1 .. Len(toGuest') : toGuest'[k].id <= next'
            /\ \A k \in 1 .. Len(fromGuest') : fromGuest'[k].id <= next'
        <4>1. /\ \A k \in 1 .. Len(toGuest) : toGuest[k].id \in Nat
              /\ \A k \in 1 .. Len(fromGuest) : fromGuest[k].id \in Nat
          <5>1. /\ \A k \in 1 .. Len(toGuest) : toGuest[k] \in Requests
                /\ \A k \in 1 .. Len(fromGuest) : fromGuest[k] \in Replies
            BY ElementOfSeq DEF TypeOK
          <5>2. \A q \in Requests : q.id \in Nat
            BY AgentAssumption DEF Requests, Connections
          <5>3. \A r \in Replies : r.id \in Nat
            BY AgentAssumption DEF Replies, Connections
          <5> QED
            BY <5>1, <5>2, <5>3
        <4> QED
          BY <1>1, <3>1, <4>1 DEF MessageInv
      <3> QED
        BY <3>4, <3>5, <3>6 DEF MessageInv
    <2>3. CASE ReadSync(c) \/ ReadReply(c)
      <3>1. /\ fromGuest \in Seq(Replies) /\ fromGuest # <<>>
            /\ fromGuest' = Tail(fromGuest)
            /\ UNCHANGED <<next, sent, toGuest>>
        BY <2>3 DEF ReadSync, ReadReply, Arrives, sockets, TypeOK
      <3> QED
        BY <3>1, TailOf DEF MessageInv
    <2>4. CASE SendRequest(c) \/ WriteHalf(c)
      <3>1. PICK e \in Requests :
              /\ e.id = conn[c]
              /\ sent' = [sent EXCEPT ![conn[c]] = Append(@, e)]
              /\ conn[c] \in Connections
              /\ UNCHANGED <<next, toGuest, fromGuest>>
        <4>1. conn[c] # 0 /\ conn[c] \in Connections /\ command[c] # "none"
          BY <2>4, HasConnection DEF SendRequest, WriteHalf, At, Connected
        <4>2. CASE SendRequest(c)
          BY <4>1, <4>2, RequestType DEF SendRequest, Request, guest
        <4>3. CASE WriteHalf(c)
          <5>1. [kind |-> "half", id |-> conn[c], of |-> 0] \in Requests
            BY <4>1, AgentAssumption DEF Requests
          <5> QED
            BY <4>1, <4>3, <5>1 DEF WriteHalf, guest
        <4> QED
          BY <2>4, <4>2, <4>3
      <3>2. \A i \in Connections : i # conn[c] => sent'[i] = sent[i]
        BY <3>1 DEF TypeOK
      <3>3. sent[conn[c]] \in Seq(Requests) /\ sent'[conn[c]] = Append(sent[conn[c]], e)
        BY <3>1 DEF TypeOK
      <3>4. \A k \in 1 .. Len(sent'[conn[c]]) : sent'[conn[c]][k].id = conn[c]
        <4>1. Len(sent[conn[c]]) \in Nat
          BY <3>3, LenProperties
        <4> QED
          BY <3>1, <3>3, <4>1, AppendProperties DEF MessageInv
      <3>5. conn[c] <= next
        BY <1>1 DEF TypeOK
      <3> QED
        BY <3>1, <3>2, <3>4, <3>5 DEF MessageInv
    <2>5. CASE Timeout(c) \/ Die(c)
      BY <2>5 DEF Timeout, Die, MessageInv, guest
    <2> QED
      BY <1>2, <2>1, <2>2, <2>3, <2>4, <2>5 DEF ClientStep
  <1>3. CASE Accept
    BY <1>3 DEF Accept, clients, guest, MessageInv
  <1>4. CASE Forward
    <2>1. /\ open \in Connections
          /\ sent[open] \in Seq(Requests) /\ sent[open] # <<>>
          /\ toGuest \in Seq(Requests)
          /\ toGuest' = Append(toGuest, Head(sent[open]))
          /\ sent' = [sent EXCEPT ![open] = Tail(@)]
          /\ UNCHANGED <<next, fromGuest>>
      BY <1>1, <1>4, AgentAssumption DEF Forward, TypeOK, Connections
    <2>2. /\ Head(sent[open]) \in Requests
          /\ Head(sent[open]).id = open
      BY <2>1, TailOf DEF MessageInv
    <2>3. \A i \in Connections : sent'[i] = IF i = open THEN Tail(sent[i]) ELSE sent[i]
      BY <2>1 DEF TypeOK
    <2>4. \A k \in 1 .. Len(sent'[open]) : sent'[open][k].id = open
      BY <2>1, <2>3, TailOf DEF MessageInv
    <2>5. \A k \in 1 .. Len(toGuest') : toGuest'[k].id <= next
      <3>1. Len(toGuest) \in Nat
        BY <2>1, LenProperties
      <3> QED
        BY <1>1, <2>1, <2>2, <3>1, AppendProperties DEF MessageInv
    <2>6. \A i \in Connections : sent'[i] # <<>> => i <= next
      BY <1>1, <2>1, <2>3 DEF MessageInv
    <2>7. \A i \in Connections : \A k \in 1 .. Len(sent'[i]) : sent'[i][k].id = i
      BY <2>1, <2>3, <2>4 DEF MessageInv
    <2> QED
      BY <2>1, <2>5, <2>6, <2>7 DEF MessageInv
  <1>5. CASE Disconnect
    <2>1. PICK n \in 1 .. Len(fromGuest) + 1 : fromGuest' = SubSeq(fromGuest, n, Len(fromGuest))
      BY <1>5 DEF Disconnect
    <2>2. \A k \in 1 .. Len(fromGuest') : fromGuest'[k].id <= next
      BY <2>1, RestOf DEF TypeOK, MessageInv
    <2>3. \A i \in Connections : sent'[i] = IF i = open THEN <<>> ELSE sent[i]
      BY <1>5 DEF Disconnect, TypeOK
    <2>4. next' = next /\ toGuest' = toGuest
      BY <1>5 DEF Disconnect
    <2> QED
      BY <2>2, <2>3, <2>4 DEF MessageInv
  <1>6. CASE AgentStep
    <2>1. /\ toGuest \in Seq(Requests) /\ toGuest # <<>>
          /\ toGuest' = Tail(toGuest)
          /\ UNCHANGED <<next, sent>>
      BY <1>6 DEF AgentStep, TypeOK, sockets
    <2>2. \A k \in 1 .. Len(fromGuest') : fromGuest'[k].id <= next
      <3>1. PICK e \in Replies :
              /\ e.id = toGuest[1].id
              /\ fromGuest' = fromGuest \/ fromGuest' = Append(fromGuest, e)
        BY <1>6, <2>1, AgentReplies
      <3>2. e.id <= next
        BY <2>1, <3>1, TailOf DEF MessageInv
      <3>3. fromGuest \in Seq(Replies) /\ Len(fromGuest) \in Nat
        BY LenProperties DEF TypeOK
      <3> QED
        BY <3>1, <3>2, <3>3, AppendProperties DEF MessageInv
    <2> QED
      BY <2>1, <2>2, TailOf DEF MessageInv
  <1>7. CASE AgentRestart
    BY <1>7 DEF AgentRestart, clients, sockets, MessageInv
  <1>8. CASE \E i \in Connections : ProgramEnds(i)
    BY <1>8 DEF ProgramEnds, clients, sockets, MessageInv
  <1> QED
    BY <1>2, <1>3, <1>4, <1>5, <1>6, <1>7, <1>8 DEF Next, QemuStep, GuestStep

-----------------------------------------------------------------------------

\* What one client does leaves the channel of another as it must be.
LEMMA ChannelOfOthers ==
    ASSUME TypeOK, ConnInv, MessageInv, ChannelInv,
           NEW c \in Clients, ClientStep(c), NEW d \in Clients, d # c
    PROVE  /\ pc'[d] = pc[d]
           /\ conn'[d] = conn[d]
           /\ pc[d] = "sync" => SyncOf(conn[d])'
           /\ pc[d] = "request" => RequestOf(conn[d])'
           /\ pc[d] = "reply" => ReplyOf(conn[d])'
  <1> DEFINE i == conn[d]
  <1>1. /\ next \in Nat
        /\ i \in 0 .. next
        /\ Connected(d) => i \in Connections
        /\ Connected(d) => i # conn[c]
    <2>1. next \in 0 .. MaxConnections /\ i \in 0 .. next
      BY DEF TypeOK
    <2>2. Connected(d) => i # 0 /\ i # conn[c]
      BY DEF ConnInv
    <2>3. next \in Nat /\ (i # 0 => i \in Connections)
      BY <2>1, AgentAssumption DEF Connections
    <2> QED
      BY <2>1, <2>2, <2>3
  <1>2. /\ pc'[d] = pc[d]
        /\ conn'[d] = conn[d]
        /\ open' = open
        /\ toGuest' = toGuest
        /\ Connected(d) => sent'[i] = sent[i]
        /\ \/ fromGuest' = fromGuest
           \/ open = conn[c] /\ fromGuest # <<>> /\ fromGuest' = Tail(fromGuest)
    <2>1. CASE Begin(c)
      BY <2>1 DEF Begin, TypeOK, sockets, guest
    <2>2. CASE Connect(c)
      BY <2>2, <1>1 DEF Connect, TypeOK, guest
    <2>3. CASE ReadSync(c)
      BY <2>3 DEF ReadSync, Arrives, TypeOK, sockets
    <2>4. CASE SendRequest(c)
      BY <2>4, <1>1 DEF SendRequest, TypeOK, guest
    <2>5. CASE WriteHalf(c)
      BY <2>5, <1>1 DEF WriteHalf, Return, Hangup, TypeOK, guest
    <2>6. CASE ReadReply(c)
      <3>1. /\ conn' = [conn EXCEPT ![c] = 0]
            /\ \E l \in {"idle", "connect"} : pc' = [pc EXCEPT ![c] = l]
        BY <2>6, LeaveStep DEF Hangup
      <3>2. pc'[d] = pc[d] /\ conn'[d] = conn[d]
        BY <3>1 DEF TypeOK
      <3> QED
        BY <2>6, <3>2 DEF ReadReply, Arrives
    <2>7. CASE Timeout(c) \/ Die(c)
      <3>1. /\ conn' = [conn EXCEPT ![c] = 0]
            /\ \E l \in {"idle", "connect"} : pc' = [pc EXCEPT ![c] = l]
        BY <2>7, LeaveStep DEF Hangup
      <3>2. pc'[d] = pc[d] /\ conn'[d] = conn[d]
        BY <3>1 DEF TypeOK
      <3> QED
        BY <2>7, <3>2 DEF Timeout, Die, guest
    <2> QED
      BY <2>1, <2>2, <2>3, <2>4, <2>5, <2>6, <2>7 DEF ClientStep
  <1>3. CASE fromGuest' = fromGuest
    BY <1>2, <1>3 DEF ChannelInv, SyncOf, RequestOf, ReplyOf, NoRequest, NoReply, Connected
  <1>4. CASE open = conn[c] /\ fromGuest # <<>> /\ fromGuest' = Tail(fromGuest)
    <2>1. Connected(d) => open # i
      BY <1>1, <1>4
    <2>2. pc[d] \notin {"request", "reply"}
      BY <2>1 DEF ChannelInv, RequestOf, ReplyOf, Connected
    <2>3. CASE pc[d] = "sync"
      <3>1. SyncOf(i) /\ sent[i] # <<>>
        BY <2>1, <2>3 DEF ChannelInv, SyncOf, Connected
      <3>2. NoReply(i)'
        <4>1. \A k \in 1 .. Len(fromGuest') : k + 1 \in 1 .. Len(fromGuest) /\ fromGuest'[k] = fromGuest[k + 1]
          BY <1>4, TailOf DEF TypeOK
        <4> QED
          BY <1>2, <3>1, <4>1 DEF SyncOf, NoReply
      <3> QED
        BY <1>2, <2>3, <3>1, <3>2 DEF SyncOf, NoRequest, NoReply, Connected
    <2> QED
      BY <1>2, <2>2, <2>3
  <1> QED
    BY <1>2, <1>3, <1>4

\* What a client does leaves its own channel as it must be.
LEMMA ChannelOfOwn ==
    ASSUME TypeOK, ConnInv, MessageInv, ChannelInv, NEW c \in Clients, ClientStep(c)
    PROVE  /\ pc'[c] = "sync" => SyncOf(conn[c])'
           /\ pc'[c] = "request" => RequestOf(conn[c])'
           /\ pc'[c] = "reply" => ReplyOf(conn[c])'
  <1>1. next \in Nat /\ open \in 0 .. next
    BY AgentAssumption DEF TypeOK
  <1>2. CASE Begin(c)
    BY <1>2 DEF Begin, TypeOK
  <1>3. CASE Connect(c)
    <2>1. /\ pc'[c] = "sync"
          /\ conn'[c] = next + 1
          /\ sent'[next + 1] = <<[kind |-> "sync", id |-> next + 1, of |-> 0]>>
          /\ UNCHANGED <<open, toGuest, fromGuest>>
      BY SMTT(30), <1>1, <1>3, AgentAssumption DEF Connect, TypeOK, Connections, guest
    <2>2. /\ \A k \in 1 .. Len(toGuest) : toGuest[k].id # next + 1
          /\ \A k \in 1 .. Len(fromGuest) : fromGuest[k].id # next + 1
      BY <1>1 DEF MessageInv
    <2>3. /\ Len(sent'[next + 1]) = 1
          /\ sent'[next + 1][1].kind = "sync"
          /\ sent'[next + 1] # <<>>
      BY <2>1
    <2> QED
      BY <2>1, <2>2, <2>3 DEF SyncOf, NoRequest, NoReply
  <1>4. CASE ReadSync(c)
    <2>1. /\ pc[c] = "sync" /\ SyncOf(conn[c])
          /\ conn[c] = open /\ conn'[c] = conn[c]
          /\ fromGuest \in Seq(Replies) /\ fromGuest # <<>>
          /\ fromGuest' = Tail(fromGuest)
          /\ UNCHANGED <<open, sent, toGuest>>
      BY <1>4 DEF ReadSync, Arrives, At, ChannelInv, TypeOK, sockets
    <2>2. /\ Len(fromGuest) \in Nat \ {0}
          /\ Head(fromGuest) = fromGuest[1]
          /\ fromGuest' \in Seq(Replies)
          /\ Len(fromGuest') = Len(fromGuest) - 1
          /\ \A k \in 1 .. Len(fromGuest') : k + 1 \in 1 .. Len(fromGuest) /\ fromGuest'[k] = fromGuest[k + 1]
      BY <2>1, TailOf
    <2>3. CASE Head(fromGuest).kind = "sync" /\ Head(fromGuest).id = conn[c]
      <3>1. pc'[c] = "request"
        BY <1>4, <2>3 DEF ReadSync, TypeOK
      <3>2. Len(fromGuest) = 1 /\ toGuest = <<>>
        BY <2>1, <2>2, <2>3 DEF SyncOf
      <3>3. fromGuest' = <<>>
        BY <2>2, <3>2, EmptySeq
      <3>4. sent[conn[c]] = <<>>
        <4>1. ~ NoReply(conn[c])
          BY <2>2, <2>3 DEF NoReply
        <4> QED
          BY <2>1, <4>1 DEF SyncOf
      <3> QED
        BY <2>1, <3>1, <3>2, <3>3, <3>4 DEF RequestOf
    <2>4. CASE ~(Head(fromGuest).kind = "sync" /\ Head(fromGuest).id = conn[c])
      <3>1. pc'[c] = "sync"
        BY <1>4, <2>4 DEF ReadSync, TypeOK
      <3>2. NoReply(conn[c]) => NoReply(conn[c])'
        BY <2>1, <2>2 DEF NoReply
      <3>3. \A k \in 1 .. Len(fromGuest') :
              fromGuest'[k].id = conn[c] => k = Len(fromGuest') /\ toGuest = <<>>
        <4>1. \A k \in 1 .. Len(fromGuest) :
                fromGuest[k].id = conn[c] => k = Len(fromGuest) /\ toGuest = <<>>
          BY <2>1 DEF SyncOf
        <4> QED
          BY <2>2, <4>1
      <3> QED
        BY <2>1, <3>1, <3>2, <3>3 DEF SyncOf, NoRequest
    <2> QED
      BY <2>3, <2>4
  <1>5. CASE SendRequest(c)
    BY <1>5 DEF SendRequest, At, ChannelInv, RequestOf, ReplyOf, TypeOK, guest
  <1>6. CASE WriteHalf(c) \/ ReadReply(c) \/ Timeout(c) \/ Die(c)
    <2>1. \E l \in {"idle", "connect"} : pc' = [pc EXCEPT ![c] = l]
      BY <1>6, LeaveStep
    <2> QED
      BY <2>1 DEF TypeOK
  <1> QED
    BY <1>2, <1>3, <1>4, <1>5, <1>6 DEF ClientStep

\* What QEMU does leaves the channel of a client as it must be.
LEMMA ChannelOfQemu ==
    ASSUME TypeOK, ConnInv, MessageInv, ChannelInv, QemuStep
    PROVE  ChannelInv'
  <1> SUFFICES ASSUME NEW c \in Clients, Connected(c)
               PROVE  /\ pc[c] = "sync" => SyncOf(conn[c])'
                      /\ pc[c] = "request" => RequestOf(conn[c])'
                      /\ pc[c] = "reply" => ReplyOf(conn[c])'
    BY DEF QemuStep, Accept, Forward, Disconnect, clients, ChannelInv, Connected
  <1> DEFINE i == conn[c]
  <1>1. /\ conn' = conn
        /\ i # 0 /\ i \in Connections
        /\ pc[c] = "sync" => SyncOf(i)
        /\ pc[c] = "request" => RequestOf(i)
        /\ pc[c] = "reply" => ReplyOf(i)
    <2>1. conn' = conn
      BY DEF QemuStep, Accept, Forward, Disconnect, clients
    <2>2. i # 0
      BY DEF ConnInv
    <2>3. i \in 0 .. next /\ next \in 0 .. MaxConnections
      BY DEF TypeOK
    <2>4. i \in Connections
      BY <2>2, <2>3, AgentAssumption DEF Connections
    <2> QED
      BY <2>1, <2>2, <2>4 DEF ChannelInv
  <1>2. CASE Accept
    <2>1. open = 0 /\ UNCHANGED <<sent, toGuest, fromGuest>>
      BY <1>2 DEF Accept, guest
    <2>2. pc[c] = "sync" /\ SyncOf(i) /\ sent[i] # <<>>
      BY <1>1, <2>1 DEF Connected, RequestOf, ReplyOf, SyncOf
    <2> QED
      BY <1>1, <2>1, <2>2 DEF SyncOf, NoRequest, NoReply
  <1>3. CASE Forward
    <2>1. /\ open \in Connections
          /\ sent[open] \in Seq(Requests) /\ sent[open] # <<>>
          /\ toGuest \in Seq(Requests)
          /\ toGuest' = Append(toGuest, Head(sent[open]))
          /\ sent' = [sent EXCEPT ![open] = Tail(@)]
          /\ UNCHANGED <<open, fromGuest>>
      BY <1>3, AgentAssumption DEF Forward, TypeOK, Connections
    <2>2. /\ Head(sent[open]) = sent[open][1]
          /\ sent[open][1] \in Requests
          /\ sent[open][1].id = open
          /\ Len(sent[open]) \in Nat \ {0}
          /\ Tail(sent[open]) \in Seq(Requests)
          /\ Len(Tail(sent[open])) = Len(sent[open]) - 1
      BY <2>1, TailOf DEF MessageInv
    <2>3. /\ Len(toGuest) \in Nat
          /\ Len(toGuest') = Len(toGuest) + 1
          /\ \A k \in 1 .. Len(toGuest) : toGuest'[k] = toGuest[k]
          /\ toGuest'[Len(toGuest) + 1] = sent[open][1]
      BY <2>1, <2>2, AppendProperties, LenProperties
    <2>4. CASE pc[c] = "sync" /\ open = i
      <3>1. /\ Len(sent[i]) = 1
            /\ sent[i][1].kind = "sync"
            /\ NoRequest(i)
            /\ NoReply(i)
        BY <1>1, <2>1, <2>4 DEF SyncOf
      <3>2. sent'[i] = <<>>
        <4>1. sent'[i] = Tail(sent[open])
          BY <2>1, <2>4 DEF TypeOK
        <4>2. Len(Tail(sent[open])) = 0
          BY <2>2, <2>4, <3>1
        <4> QED
          BY <2>2, <4>1, <4>2, EmptySeq
      <3>3. \A k \in 1 .. Len(toGuest') : toGuest'[k].id = i =>
              k = Len(toGuest') /\ toGuest'[k].kind = "sync"
        BY <2>2, <2>3, <2>4, <3>1 DEF NoRequest
      <3> QED
        BY <1>1, <2>1, <2>4, <3>1, <3>2, <3>3 DEF SyncOf, NoReply
    <2>5. CASE pc[c] = "sync" /\ open # i
      <3>1. SyncOf(i) /\ sent[i] # <<>> /\ sent'[i] = sent[i]
        BY <1>1, <2>1, <2>5 DEF SyncOf, TypeOK
      <3>2. NoRequest(i)'
        BY <1>1, <2>2, <2>3, <2>5, <3>1 DEF SyncOf, NoRequest
      <3> QED
        BY <1>1, <2>1, <2>5, <3>1, <3>2 DEF SyncOf, NoRequest, NoReply
    <2>6. CASE pc[c] = "request"
      BY <1>1, <2>1, <2>6 DEF RequestOf
    <2>7. CASE pc[c] = "reply"
      BY <1>1, <2>1, <2>2, <2>3, <2>7 DEF ReplyOf
    <2> QED
      BY <2>4, <2>5, <2>6, <2>7 DEF Connected
  <1>4. CASE Disconnect
    <2>1. /\ open # i
          /\ sent' = [sent EXCEPT ![open] = <<>>]
          /\ toGuest' = toGuest
      BY <1>4 DEF Disconnect, ConnInv
    <2>2. pc[c] = "sync" /\ SyncOf(i) /\ sent[i] # <<>> /\ sent'[i] = sent[i]
      BY <1>1, <2>1 DEF Connected, RequestOf, ReplyOf, SyncOf, TypeOK
    <2>3. PICK n \in 1 .. Len(fromGuest) + 1 : fromGuest' = SubSeq(fromGuest, n, Len(fromGuest))
      BY <1>4 DEF Disconnect
    <2>4. NoReply(i)'
      <3>1. \A k \in 1 .. Len(fromGuest') :
              k + n - 1 \in 1 .. Len(fromGuest) /\ fromGuest'[k] = fromGuest[k + n - 1]
        <4>1. fromGuest \in Seq(Replies)
          BY DEF TypeOK
        <4> QED
          BY <2>3, <4>1, RestOf
      <3> QED
        BY <1>1, <2>2, <3>1 DEF SyncOf, NoReply
    <2> QED
      BY <1>1, <2>1, <2>2, <2>4 DEF SyncOf, NoRequest, NoReply
  <1> QED
    BY <1>2, <1>3, <1>4 DEF QemuStep

\* What the guest does leaves the channel of a client as it must be.
LEMMA ChannelOfGuest ==
    ASSUME TypeOK, ConnInv, MessageInv, ChannelInv, GuestStep
    PROVE  ChannelInv'
  <1> SUFFICES ASSUME NEW c \in Clients, Connected(c)
               PROVE  /\ pc[c] = "sync" => SyncOf(conn[c])'
                      /\ pc[c] = "request" => RequestOf(conn[c])'
                      /\ pc[c] = "reply" => ReplyOf(conn[c])'
    BY DEF GuestStep, AgentStep, AgentRestart, ProgramEnds, clients, ChannelInv, Connected
  <1> DEFINE i == conn[c]
  <1>1. /\ UNCHANGED <<conn, open, sent>>
        /\ pc[c] = "sync" => SyncOf(i)
        /\ pc[c] = "request" => RequestOf(i)
        /\ pc[c] = "reply" => ReplyOf(i)
    BY DEF GuestStep, AgentStep, AgentRestart, ProgramEnds, clients, sockets, ChannelInv
  <1>2. CASE AgentStep
    <2>1. /\ toGuest \in Seq(Requests) /\ toGuest # <<>>
          /\ toGuest' = Tail(toGuest)
      BY <1>2 DEF AgentStep, TypeOK
    <2>2. /\ Len(toGuest) \in Nat \ {0}
          /\ toGuest' \in Seq(Requests)
          /\ Len(toGuest') = Len(toGuest) - 1
          /\ \A k \in 1 .. Len(toGuest') : k + 1 \in 1 .. Len(toGuest) /\ toGuest'[k] = toGuest[k + 1]
      BY <2>1, TailOf
    <2>3. PICK e \in Replies :
            /\ e.id = toGuest[1].id
            /\ fromGuest' = fromGuest \/ fromGuest' = Append(fromGuest, e)
      BY <1>2, AgentReplies
    <2>4. /\ Len(fromGuest) \in Nat
          /\ \/ fromGuest' = fromGuest
             \/ /\ Len(fromGuest') = Len(fromGuest) + 1
                /\ \A k \in 1 .. Len(fromGuest) : fromGuest'[k] = fromGuest[k]
                /\ fromGuest'[Len(fromGuest) + 1].id = toGuest[1].id
      <3>1. fromGuest \in Seq(Replies) /\ Len(fromGuest) \in Nat
        BY LenProperties DEF TypeOK
      <3> QED
        BY <2>3, <3>1, AppendProperties
    <2>5. CASE pc[c] = "sync" /\ toGuest[1].id = i
      <3>1. SyncOf(i) /\ Len(toGuest) = 1 /\ NoReply(i) /\ sent[i] = <<>>
        BY <1>1, <2>2, <2>5 DEF SyncOf, NoRequest
      <3>2. toGuest' = <<>>
        BY <2>2, <3>1, EmptySeq
      <3>3. \A k \in 1 .. Len(fromGuest') : fromGuest'[k].id = i => k = Len(fromGuest')
        BY <2>4, <3>1 DEF NoReply
      <3>4. \A k \in 1 .. Len(toGuest') : FALSE
        BY <3>2
      <3> QED
        BY <1>1, <2>5, <3>1, <3>2, <3>3, <3>4 DEF SyncOf
    <2>6. CASE pc[c] = "sync" /\ toGuest[1].id # i
      <3>1. SyncOf(i) /\ NoReply(i)
        <4>1. \A k \in 1 .. Len(fromGuest) : fromGuest[k].id # i
          BY <1>1, <2>1, <2>6 DEF SyncOf
        <4> QED
          BY <1>1, <2>6, <4>1 DEF NoReply
      <3>2. NoReply(i)'
        BY <1>1, <2>4, <2>6, <3>1 DEF NoReply
      <3>3. NoRequest(i) => NoRequest(i)'
        BY <1>1, <2>2 DEF NoRequest
      <3>4. \A k \in 1 .. Len(toGuest') : toGuest'[k].id = i =>
              k = Len(toGuest') /\ toGuest'[k].kind = "sync"
        <4>1. \A k \in 1 .. Len(toGuest) : toGuest[k].id = i =>
                k = Len(toGuest) /\ toGuest[k].kind = "sync"
          BY <3>1 DEF SyncOf
        <4>2. ASSUME NEW k \in 1 .. Len(toGuest'), toGuest'[k].id = i
              PROVE  k = Len(toGuest') /\ toGuest'[k].kind = "sync"
          <5>1. k + 1 = Len(toGuest) /\ toGuest'[k].kind = "sync"
            BY <2>2, <4>1, <4>2
          <5> QED
            BY <2>2, <5>1
        <4> QED
          BY <4>2
      <3>5. \A k \in 1 .. Len(fromGuest') : fromGuest'[k].id # i
        BY <1>1, <3>2 DEF NoReply
      <3> QED
        BY <1>1, <2>6, <3>1, <3>2, <3>3, <3>4, <3>5 DEF SyncOf
    <2>7. CASE pc[c] = "request"
      BY <1>1, <2>1, <2>7 DEF RequestOf
    <2>8. CASE pc[c] = "reply"
      <3>1. toGuest[1].id = i
        BY <1>1, <2>2, <2>8 DEF ReplyOf
      <3>2. \A k \in 1 .. Len(toGuest') : toGuest'[k].id = i
        BY <1>1, <2>2, <2>8 DEF ReplyOf
      <3>3. \A k \in 1 .. Len(fromGuest') : fromGuest'[k].id = i
        BY <1>1, <2>4, <2>8, <3>1 DEF ReplyOf
      <3> QED
        BY <1>1, <2>8, <3>2, <3>3 DEF ReplyOf
    <2> QED
      BY <2>5, <2>6, <2>7, <2>8 DEF Connected
  <1>3. CASE AgentRestart
    <2>1. /\ toGuest' = <<>> /\ fromGuest' = fromGuest
          /\ \A k \in 1 .. Len(toGuest') : FALSE
      BY <1>3 DEF AgentRestart
    <2> QED
      BY <1>1, <2>1 DEF Connected, SyncOf, RequestOf, ReplyOf, NoRequest, NoReply
  <1>4. CASE \E j \in Connections : ProgramEnds(j)
    BY <1>1, <1>4 DEF ProgramEnds, SyncOf, RequestOf, ReplyOf, NoRequest, NoReply
  <1> QED
    BY <1>2, <1>3, <1>4 DEF GuestStep

\* A client reads its answer when only its own replies are on the way.
LEMMA AnswerStep ==
    ASSUME TypeOK, ChannelInv, AnswersAreOwn, Next
    PROVE  AnswersAreOwn'
  <1>1. ASSUME NEW c \in Clients, ClientStep(c) PROVE AnswersAreOwn'
    <2>1. CASE ReadReply(c)
      <3>1. /\ fromGuest # <<>>
            /\ answer' = [answer EXCEPT ![c] =
                            [kind |-> Head(fromGuest).kind, id |-> Head(fromGuest).id, on |-> conn[c]]]
        BY <2>1 DEF ReadReply, Arrives
      <3>2. Len(fromGuest) \in Nat \ {0} /\ Head(fromGuest) = fromGuest[1]
        BY <3>1, TailOf DEF TypeOK
      <3>3. Head(fromGuest).id = conn[c]
        BY <2>1, <3>2 DEF ReadReply, At, ChannelInv, ReplyOf
      <3> QED
        BY <3>1, <3>3 DEF AnswersAreOwn, TypeOK
    <2>2. CASE Begin(c)
      BY <2>2 DEF Begin, AnswersAreOwn, NoAnswer, TypeOK
    <2>3. CASE ~ReadReply(c) /\ ~Begin(c)
      BY <1>1, <2>3 DEF ClientStep, Connect, ReadSync, SendRequest, WriteHalf, Timeout, Die, AnswersAreOwn
    <2> QED
      BY <2>1, <2>2, <2>3
  <1>2. CASE QemuStep \/ GuestStep
    BY <1>2 DEF QemuStep, Accept, Forward, Disconnect, GuestStep, AgentStep, AgentRestart, ProgramEnds,
       clients, AnswersAreOwn
  <1> QED
    BY <1>1, <1>2 DEF Next

-----------------------------------------------------------------------------

\* Before the first command nothing is on the way.
LEMMA AgentInit ==
    ASSUME Init
    PROVE  AgentInv
  <1>1. TypeOK
    BY AgentAssumption, EmptySeq DEF Init, TypeOK, NoAnswer
  <1>2. ConnInv
    BY DEF Init, ConnInv, Connected
  <1>3. MessageInv
    BY DEF Init, MessageInv
  <1>4. ChannelInv /\ ReleaseInv /\ AnswersAreOwn
    BY DEF Init, ChannelInv, ReleaseInv, AnswersAreOwn, NoAnswer
  <1> QED
    BY <1>1, <1>2, <1>3, <1>4 DEF AgentInv

\* Every step keeps the invariant of the channel.
LEMMA AgentNext ==
    ASSUME AgentInv, [Next]_vars
    PROVE  AgentInv'
  <1>1. CASE UNCHANGED vars
    BY <1>1 DEF vars, clients, sockets, guest, AgentInv, TypeOK, ConnInv, Connected, MessageInv, ChannelInv,
       SyncOf, RequestOf, ReplyOf, NoRequest, NoReply, ReleaseInv, AnswersAreOwn
  <1>2. CASE Next
    <2> USE DEF AgentInv
    <2>1. TypeOK'
      BY <1>2, ClientTypeStep, QemuTypeStep, GuestTypeStep DEF Next
    <2>2. ConnInv' /\ ReleaseInv' /\ MessageInv' /\ AnswersAreOwn'
      BY <1>2, ConnStep, ReleaseStep, MessageStep, AnswerStep
    <2>3. ASSUME NEW c \in Clients, ClientStep(c) PROVE ChannelInv'
      BY <2>3, ChannelOfOwn, ChannelOfOthers DEF ChannelInv
    <2>4. ChannelInv'
      BY <1>2, <2>3, ChannelOfQemu, ChannelOfGuest DEF Next
    <2> QED
      BY <2>1, <2>2, <2>4
  <1> QED
    BY <1>1, <1>2

\* The invariant of the channel holds in every reachable state.
THEOREM ChannelInvariance == Spec => []AgentInv
  <1>1. Init => AgentInv
    BY AgentInit
  <1>2. AgentInv /\ [Next]_vars => AgentInv'
    BY AgentNext
  <1> QED
    BY <1>1, <1>2, PTL DEF Spec

\* guest_command_until takes for the answer to its request only the agent's reply to
\* that request, for any number of clients and connections.
THEOREM AnswersAreOwnHolds == Spec => []AnswersAreOwn
  <1>1. AgentInv => AnswersAreOwn
    BY DEF AgentInv
  <1> QED
    BY <1>1, ChannelInvariance, PTL

\* Every connection that vmctl has made is in use or closed.
THEOREM ConnectionsAreReleasedHolds == Spec => []ConnectionsAreReleased
  <1>1. AgentInv => ConnectionsAreReleased
    BY DEF AgentInv, ReleaseInv, ConnectionsAreReleased
  <1> QED
    BY <1>1, ChannelInvariance, PTL

-----------------------------------------------------------------------------

\* A client asks for a program only on a connection on which nothing was asked.
LEMMA OnceOfClient ==
    ASSUME AgentInv, OnceInv, ProgramInv, NEW c \in Clients, ClientStep(c)
    PROVE  OnceInv'
  <1> SUFFICES ASSUME NEW i \in Connections
               PROVE  Once(i)'
    BY DEF OnceInv
  <1>1. /\ Once(i) /\ sent[i] \in Seq(Requests)
        /\ Len(sent[i]) \in Nat
        /\ next \in Nat /\ i \in Nat
        /\ conn[c] \in 0 .. next
    BY AgentAssumption, LenProperties DEF OnceInv, AgentInv, TypeOK, Connections
  <1>2. CASE sent'[i] = sent[i] /\ UNCHANGED <<toGuest, programs>>
    BY <1>1, <1>2 DEF Once, NoExec
  <1>3. CASE Connect(c)
    <2>1. CASE i = next + 1
      <3>1. /\ sent'[i] = <<[kind |-> "sync", id |-> i, of |-> 0]>>
            /\ UNCHANGED <<toGuest, programs>>
        BY <1>3, <2>1 DEF Connect, AgentInv, TypeOK, guest
      <3>2. \A k \in 1 .. Len(toGuest) : toGuest[k].id # i
        BY <1>1, <2>1 DEF AgentInv, MessageInv
      <3>3. Len(sent'[i]) = 1 /\ sent'[i][1].kind = "sync"
        BY <3>1
      <3> QED
        BY <3>1, <3>2, <3>3 DEF Once, NoExec
    <2>2. CASE i # next + 1
      BY <1>2, <1>3, <2>2 DEF Connect, AgentInv, TypeOK, guest
    <2> QED
      BY <2>1, <2>2
  <1>4. CASE SendRequest(c)
    <2>1. /\ RequestOf(conn[c])
          /\ programs[conn[c]] = "none"
          /\ UNCHANGED <<toGuest, programs>>
      BY <1>4 DEF SendRequest, At, AgentInv, ChannelInv, ProgramInv, guest
    <2>2. CASE i = conn[c]
      <3>1. command[c] # "none" /\ conn[c] # 0
        BY <1>4, <2>2 DEF SendRequest, At, AgentInv, ConnInv, Connected
      <3>2. /\ Request(c) \in Requests
            /\ sent[i] = <<>> /\ toGuest = <<>>
            /\ sent'[i] = Append(sent[i], Request(c))
        BY <1>4, <2>1, <2>2, <3>1, RequestType DEF SendRequest, RequestOf, AgentInv, TypeOK
      <3>3. Len(sent'[i]) = 1 /\ Len(toGuest) = 0
        BY <1>1, <3>2, AppendProperties
      <3> QED
        BY <2>1, <2>2, <3>3 DEF Once, NoExec
    <2>3. CASE i # conn[c]
      BY <1>2, <1>4, <2>1, <2>3 DEF SendRequest, AgentInv, TypeOK
    <2> QED
      BY <2>2, <2>3
  <1>5. CASE WriteHalf(c)
    <2>1. UNCHANGED <<toGuest, programs>>
      BY <1>5 DEF WriteHalf, guest
    <2>2. CASE i = conn[c]
      <3>1. [kind |-> "half", id |-> conn[c], of |-> 0] \in Requests
        BY <2>2, AgentAssumption DEF Requests
      <3>2. sent'[i] = Append(sent[i], [kind |-> "half", id |-> conn[c], of |-> 0])
        BY <1>5, <2>2 DEF WriteHalf, AgentInv, TypeOK
      <3>3. /\ Len(sent'[i]) = Len(sent[i]) + 1
            /\ \A k \in 1 .. Len(sent[i]) : sent'[i][k] = sent[i][k]
            /\ sent'[i][Len(sent[i]) + 1].kind = "half"
        BY <1>1, <3>1, <3>2, AppendProperties
      <3>4. \A k \in 1 .. Len(sent'[i]) : sent'[i][k].kind = "exec" =>
              k \in 1 .. Len(sent[i]) /\ sent[i][k].kind = "exec"
        BY SMTT(30), <1>1, <3>3
      <3> QED
        BY <1>1, <2>1, <3>4 DEF Once, NoExec
    <2>3. CASE i # conn[c]
      BY <1>2, <1>5, <2>1, <2>3 DEF WriteHalf, AgentInv, TypeOK
    <2> QED
      BY <2>2, <2>3
  <1>6. CASE Begin(c) \/ ReadSync(c) \/ ReadReply(c) \/ Timeout(c) \/ Die(c)
    BY <1>2, <1>6 DEF Begin, ReadSync, ReadReply, Timeout, Die, sockets, guest
  <1> QED
    BY <1>3, <1>4, <1>5, <1>6 DEF ClientStep

\* QEMU hands a request on once; the agent starts a program once.
LEMMA OnceOfOthers ==
    ASSUME AgentInv, OnceInv, QemuStep \/ GuestStep
    PROVE  OnceInv'
  <1> SUFFICES ASSUME NEW i \in Connections
               PROVE  Once(i)'
    BY DEF OnceInv
  <1>1. /\ Once(i) /\ sent[i] \in Seq(Requests)
        /\ Len(sent[i]) \in Nat
        /\ toGuest \in Seq(Requests)
        /\ Len(toGuest) \in Nat
    BY AgentAssumption, LenProperties DEF OnceInv, AgentInv, TypeOK
  <1>2. CASE sent'[i] = sent[i] /\ UNCHANGED <<toGuest, programs>>
    BY <1>1, <1>2 DEF Once, NoExec
  <1>3. CASE Accept
    BY <1>2, <1>3 DEF Accept, guest
  <1>4. CASE Forward
    <2>1. /\ open \in Connections
          /\ sent[open] \in Seq(Requests) /\ sent[open] # <<>>
          /\ toGuest' = Append(toGuest, Head(sent[open]))
          /\ sent' = [sent EXCEPT ![open] = Tail(@)]
          /\ UNCHANGED programs
      BY <1>4, AgentAssumption DEF Forward, AgentInv, TypeOK, Connections
    <2>2. /\ Head(sent[open]) = sent[open][1]
          /\ sent[open][1] \in Requests
          /\ sent[open][1].id = open
          /\ Len(sent[open]) \in Nat \ {0}
          /\ Len(Tail(sent[open])) = Len(sent[open]) - 1
          /\ \A k \in 1 .. Len(Tail(sent[open])) :
               k + 1 \in 1 .. Len(sent[open]) /\ Tail(sent[open])[k] = sent[open][k + 1]
      BY <2>1, TailOf DEF AgentInv, MessageInv
    <2>3. /\ Len(toGuest') = Len(toGuest) + 1
          /\ \A k \in 1 .. Len(toGuest) : toGuest'[k] = toGuest[k]
          /\ toGuest'[Len(toGuest) + 1] = sent[open][1]
      BY <1>1, <2>1, <2>2, AppendProperties
    <2>4. CASE i = open
      <3>1. sent'[i] = Tail(sent[i])
        BY <2>1, <2>4 DEF AgentInv, TypeOK
      <3>2. \A k \in 1 .. Len(sent'[i]) : k + 1 \in 1 .. Len(sent[i]) /\ sent'[i][k] = sent[i][k + 1]
        BY <2>2, <2>4, <3>1
      <3>3. \A k \in 1 .. Len(toGuest') :
              \/ k \in 1 .. Len(toGuest) /\ toGuest'[k] = toGuest[k]
              \/ k = Len(toGuest) + 1 /\ toGuest'[k] = sent[i][1]
        BY <1>1, <2>3, <2>4
      <3>4. 1 \in 1 .. Len(sent[i])
        BY <2>2, <2>4
      <3>5. programs'[i] # "none" => NoExec(i)'
        BY ZenonT(30), <1>1, <2>1, <3>2, <3>3, <3>4 DEF Once, NoExec
      <3>6. \A k, l \in 1 .. Len(sent'[i]) :
              sent'[i][k].kind = "exec" /\ sent'[i][l].kind = "exec" => k = l
        <4>1. ASSUME NEW k \in 1 .. Len(sent'[i]), NEW l \in 1 .. Len(sent'[i]),
                     sent'[i][k].kind = "exec", sent'[i][l].kind = "exec"
              PROVE  k = l
          <5>1. k + 1 = l + 1
            BY <1>1, <3>2, <4>1 DEF Once
          <5>2. Len(sent'[i]) \in Nat
            BY <2>2, <2>4, <3>1
          <5> QED
            BY <5>1, <5>2
        <4> QED
          BY <4>1
      <3>7. \A k, l \in 1 .. Len(toGuest') :
              /\ toGuest'[k].id = i /\ toGuest'[k].kind = "exec"
              /\ toGuest'[l].id = i /\ toGuest'[l].kind = "exec"
              => k = l
        BY ZenonT(30), <1>1, <3>3, <3>4 DEF Once
      <3>8. \A k \in 1 .. Len(sent'[i]), l \in 1 .. Len(toGuest') :
              sent'[i][k].kind = "exec" /\ toGuest'[l].id = i => toGuest'[l].kind # "exec"
        <4>1. ASSUME NEW k \in 1 .. Len(sent'[i]), NEW l \in 1 .. Len(toGuest'),
                     sent'[i][k].kind = "exec", toGuest'[l].id = i, toGuest'[l].kind = "exec"
              PROVE  FALSE
          <5>1. sent[i][k + 1].kind = "exec" /\ k + 1 \in 1 .. Len(sent[i]) /\ k + 1 # 1
            <6>1. Len(sent'[i]) \in Nat
              BY <2>2, <2>4, <3>1
            <6> QED
              BY SMTT(30), <3>2, <4>1, <6>1
          <5>2. CASE l \in 1 .. Len(toGuest) /\ toGuest'[l] = toGuest[l]
            BY <1>1, <4>1, <5>1, <5>2 DEF Once
          <5>3. CASE toGuest'[l] = sent[i][1]
            BY <1>1, <3>4, <4>1, <5>1, <5>3 DEF Once
          <5> QED
            BY <3>3, <5>2, <5>3
        <4> QED
          BY <4>1
      <3> QED
        BY <3>5, <3>6, <3>7, <3>8 DEF Once
    <2>5. CASE i # open
      <3>1. sent'[i] = sent[i]
        BY <2>1, <2>5 DEF AgentInv, TypeOK
      <3>2. \A k \in 1 .. Len(toGuest') : toGuest'[k].id = i =>
              k \in 1 .. Len(toGuest) /\ toGuest'[k] = toGuest[k]
        BY <1>1, <2>2, <2>3, <2>5
      <3> QED
        <4>1. programs'[i] # "none" => NoExec(i)'
          BY <1>1, <2>1, <3>1, <3>2 DEF Once, NoExec
        <4>2. QED
          BY <1>1, <3>1, <3>2, <4>1 DEF Once
    <2> QED
      BY <2>4, <2>5
  <1>5. CASE Disconnect
    <2>1. CASE i = open
      <3>1. /\ sent'[i] = <<>>
            /\ UNCHANGED <<toGuest, programs>>
        BY <1>5, <2>1 DEF Disconnect, AgentInv, TypeOK
      <3>2. \A k \in 1 .. Len(sent'[i]) : FALSE
        BY <3>1
      <3> QED
        BY <1>1, <3>1, <3>2 DEF Once, NoExec
    <2>2. CASE i # open
      BY <1>2, <1>5, <2>2 DEF Disconnect, AgentInv, TypeOK
    <2> QED
      BY <2>1, <2>2
  <1>6. CASE AgentStep
    <2>1. toGuest # <<>> /\ toGuest' = Tail(toGuest) /\ sent' = sent
      BY <1>6 DEF AgentStep, sockets
    <2>2. /\ Len(toGuest) \in Nat \ {0}
          /\ Len(toGuest') = Len(toGuest) - 1
          /\ \A k \in 1 .. Len(toGuest') : k + 1 \in 1 .. Len(toGuest) /\ toGuest'[k] = toGuest[k + 1]
      BY <1>1, <2>1, TailOf
    <2>3. \/ programs'[i] = programs[i]
          \/ toGuest[1].id = i /\ toGuest[1].kind = "exec"
      <3>1. \/ programs' = programs
            \/ /\ toGuest[1].kind = "exec"
               /\ programs' = [programs EXCEPT ![toGuest[1].id] = "running"]
        BY <1>6, AgentPrograms DEF AgentInv
      <3>2. programs \in [Connections -> {"none", "running", "ended"}]
        BY DEF AgentInv, TypeOK
      <3> QED
        BY <3>1, <3>2
    <2>4. \A k, l \in 1 .. Len(toGuest') :
            /\ toGuest'[k].id = i /\ toGuest'[k].kind = "exec"
            /\ toGuest'[l].id = i /\ toGuest'[l].kind = "exec"
            => k = l
      <3>1. ASSUME NEW k \in 1 .. Len(toGuest'), NEW l \in 1 .. Len(toGuest'),
                   toGuest'[k].id = i, toGuest'[k].kind = "exec",
                   toGuest'[l].id = i, toGuest'[l].kind = "exec"
            PROVE  k = l
        <4>1. k + 1 = l + 1
          BY <1>1, <2>2, <3>1 DEF Once
        <4> QED
          BY <2>2, <4>1
      <3> QED
        BY <3>1
    <2>5. programs'[i] # "none" => NoExec(i)'
      <3>1. CASE programs'[i] = programs[i]
        BY <1>1, <2>1, <2>2, <3>1 DEF Once, NoExec
      <3>2. CASE toGuest[1].id = i /\ toGuest[1].kind = "exec"
        <4>1. \A k \in 1 .. Len(sent[i]) : sent[i][k].kind # "exec"
          BY <1>1, <2>2, <3>2 DEF Once
        <4>2. \A k \in 1 .. Len(toGuest') : toGuest'[k].id = i => toGuest'[k].kind # "exec"
          <5>1. \A k \in 1 .. Len(toGuest') : k + 1 # 1
            BY <2>2
          <5> QED
            BY <1>1, <2>2, <3>2, <5>1 DEF Once
        <4> QED
          BY <2>1, <4>1, <4>2 DEF NoExec
      <3> QED
        BY <2>3, <3>1, <3>2
    <2> QED
      BY <1>1, <2>1, <2>2, <2>4, <2>5 DEF Once
  <1>7. CASE AgentRestart
    <2>1. /\ toGuest' = <<>> /\ UNCHANGED <<sent, programs>>
          /\ \A k \in 1 .. Len(toGuest') : FALSE
      BY <1>7 DEF AgentRestart, sockets
    <2> QED
      BY <1>1, <2>1 DEF Once, NoExec
  <1>8. CASE \E j \in Connections : ProgramEnds(j)
    <2>1. /\ UNCHANGED <<sent, toGuest>>
          /\ programs'[i] # "none" => programs[i] # "none"
      BY <1>8 DEF ProgramEnds, sockets, AgentInv, TypeOK
    <2> QED
      BY <1>1, <2>1 DEF Once, NoExec
  <1> QED
    BY <1>3, <1>4, <1>5, <1>6, <1>7, <1>8 DEF QemuStep, GuestStep

\* A client that has not sent its request yet has no program.
LEMMA ProgramStep ==
    ASSUME AgentInv, OnceInv, ProgramInv, Next
    PROVE  ProgramInv'
  <1> USE DEF AgentInv
  <1>1. /\ next \in Nat
        /\ programs \in [Connections -> {"none", "running", "ended"}]
        /\ \A c \in Clients : pc[c] \in {"sync", "request"} => conn[c] \in Connections
    <2>1. \A c \in Clients : pc[c] \in {"sync", "request"} => conn[c] \in Connections
      BY HasConnection DEF Connected
    <2>2. next \in Nat
      BY AgentAssumption DEF TypeOK
    <2> QED
      BY <2>1, <2>2 DEF TypeOK
  <1>2. ASSUME NEW c \in Clients, ClientStep(c) PROVE ProgramInv'
    <2>1. UNCHANGED <<programs, known>>
      BY <1>2 DEF ClientStep, Begin, Connect, ReadSync, SendRequest, WriteHalf, ReadReply, Timeout, Die, guest
    <2>2. next' \in Nat /\ next <= next'
      BY <1>1, <1>2 DEF ClientStep, Begin, Connect, ReadSync, SendRequest, WriteHalf, ReadReply, Timeout,
         Die, sockets
    <2>3. ASSUME NEW d \in Clients, pc'[d] \in {"sync", "request"}
          PROVE  programs'[conn'[d]] = "none"
      <3>1. CASE d # c
        <4>1. pc'[d] = pc[d] /\ conn'[d] = conn[d]
          BY <1>2, <3>1, ChannelOfOthers
        <4> QED
          BY <2>1, <2>3, <4>1 DEF ProgramInv
      <3>2. CASE d = c /\ Connect(c)
        <4>1. conn'[c] = next + 1 /\ next + 1 \in Connections
          BY <1>1, <3>2, AgentAssumption DEF Connect, TypeOK, Connections
        <4> QED
          BY <1>1, <2>1, <3>2, <4>1 DEF ProgramInv
      <3>3. CASE d = c /\ ReadSync(c)
        BY <2>1, <3>3 DEF ReadSync, At, ProgramInv, sockets
      <3>4. CASE d = c /\ (Begin(c) \/ SendRequest(c))
        BY <2>3, <3>4 DEF Begin, SendRequest, TypeOK
      <3>5. CASE d = c /\ (WriteHalf(c) \/ ReadReply(c) \/ Timeout(c) \/ Die(c))
        <4>1. \E l \in {"idle", "connect"} : pc' = [pc EXCEPT ![c] = l]
          BY <3>5, LeaveStep
        <4> QED
          BY <2>3, <3>5, <4>1 DEF TypeOK
      <3> QED
        BY <1>2, <3>1, <3>2, <3>3, <3>4, <3>5 DEF ClientStep
    <2>4. \A i \in Connections : programs'[i] # "none" => i <= next'
      BY <1>1, <2>1, <2>2, AgentAssumption DEF ProgramInv, Connections
    <2> QED
      BY <2>1, <2>3, <2>4 DEF ProgramInv
  <1>3. CASE QemuStep
    BY <1>3 DEF QemuStep, Accept, Forward, Disconnect, clients, guest, ProgramInv
  <1>4. CASE AgentStep
    <2>1. UNCHANGED <<pc, conn, next>>
      BY <1>4 DEF AgentStep, clients, sockets
    <2>2. CASE programs' = programs /\ known' \subseteq known
      BY <2>1, <2>2 DEF ProgramInv
    <2>3. CASE /\ toGuest[1].kind = "exec"
               /\ programs' = [programs EXCEPT ![toGuest[1].id] = "running"]
               /\ known' = known \cup {toGuest[1].id}
      <3>1. /\ toGuest # <<>> /\ Len(toGuest) \in Nat \ {0}
            /\ toGuest[1] \in Requests
        BY <1>4, TailOf DEF AgentStep, TypeOK
      <3>2. toGuest[1].id \in Connections /\ toGuest[1].id <= next
        BY <3>1 DEF Requests, MessageInv
      <3>3. \A i \in Connections : programs'[i] # "none" => i <= next
        BY <1>1, <2>3, <3>2 DEF ProgramInv
      <3>4. known \subseteq Connections
        BY DEF TypeOK
      <3>5. \A i \in known' : programs'[i] # "none"
        BY <1>1, <2>3, <3>2, <3>4 DEF ProgramInv
      <3>6. \A c \in Clients : pc[c] \in {"sync", "request"} => conn[c] # toGuest[1].id
        <4>1. ASSUME NEW c \in Clients, pc[c] = "sync" PROVE conn[c] # toGuest[1].id
          BY <2>3, <3>1, <4>1 DEF ChannelInv, SyncOf
        <4>2. ASSUME NEW c \in Clients, pc[c] = "request" PROVE FALSE
          BY <3>1, <4>2 DEF ChannelInv, RequestOf
        <4> QED
          BY <4>1, <4>2
      <3>7. \A c \in Clients : pc[c] \in {"sync", "request"} => programs'[conn[c]] = "none"
        BY <1>1, <2>3, <3>6 DEF ProgramInv
      <3> QED
        BY <2>1, <3>3, <3>5, <3>7 DEF ProgramInv
    <2> QED
      BY <1>4, <2>2, <2>3, AgentPrograms
  <1>5. CASE AgentRestart
    BY <1>5 DEF AgentRestart, clients, sockets, ProgramInv
  <1>6. CASE \E i \in Connections : ProgramEnds(i)
    <2>1. /\ UNCHANGED <<pc, conn, next, known>>
          /\ \A i \in Connections : programs'[i] = "none" <=> programs[i] = "none"
      BY <1>1, <1>6 DEF ProgramEnds, clients, sockets
    <2>2. known \subseteq Connections
      BY DEF TypeOK
    <2> QED
      BY <1>1, <2>1, <2>2 DEF ProgramInv
  <1> QED
    BY <1>2, <1>3, <1>4, <1>5, <1>6 DEF Next, GuestStep

\* A client that polls, while another takes a step.
LEMMA ExecOfOthers ==
    ASSUME AgentInv, ExecInv, NEW c \in Clients, ClientStep(c), NEW d \in Clients, d # c,
           pc[d] = "reply", PollOf(d)
    PROVE  PollOf(d)'
  <1> USE DEF AgentInv
  <1>1. /\ pc'[d] = pc[d] /\ conn'[d] = conn[d]
        /\ ReplyOf(conn[d]) /\ ReplyOf(conn[d])'
    BY ChannelOfOthers DEF ChannelInv
  <1>2. /\ conn[d] # 0 /\ conn[d] # conn[c]
        /\ conn[d] \in 0 .. next /\ next \in Nat
    BY AgentAssumption DEF ConnInv, Connected, TypeOK
  <1>3. /\ UNCHANGED <<toGuest, fromGuest, programs>>
        /\ sent'[conn[d]] = sent[conn[d]]
        /\ program'[d] = program[d]
    <2>1. ~ Arrives(c)
      BY <1>1, <1>2 DEF Arrives, ReplyOf
    <2>2. ~ ReadSync(c) /\ ~ ReadReply(c)
      BY <2>1 DEF ReadSync, ReadReply
    <2>3. UNCHANGED <<toGuest, fromGuest, programs>>
      BY <2>2 DEF ClientStep, Begin, Connect, SendRequest, WriteHalf, Timeout, Die, guest
    <2>4. program'[d] = program[d]
      BY <2>2 DEF ClientStep, Begin, Connect, SendRequest, WriteHalf, Timeout, Die, Return, TypeOK
    <2>5. sent'[conn[d]] = sent[conn[d]]
      <3>1. CASE Begin(c) \/ Timeout(c) \/ Die(c)
        BY <3>1 DEF Begin, Timeout, Die, sockets
      <3>2. CASE Connect(c)
        BY <1>2, <3>2 DEF Connect, TypeOK
      <3>3. CASE SendRequest(c) \/ WriteHalf(c)
        <4>1. \E e : sent' = [sent EXCEPT ![conn[c]] = Append(@, e)]
          BY <3>3 DEF SendRequest, WriteHalf
        <4>2. sent \in [Connections -> Seq(Requests)] /\ conn[d] \in Connections
          <5>1. next \in 0 .. MaxConnections /\ sent \in [Connections -> Seq(Requests)]
            BY DEF TypeOK
          <5>2. conn[d] \in Connections
            BY <1>2, <5>1, AgentAssumption DEF Connections
          <5> QED
            BY <5>1, <5>2
        <4> QED
          BY <1>2, <4>1, <4>2
      <3> QED
        BY <2>2, <3>1, <3>2, <3>3 DEF ClientStep
    <2> QED
      BY <2>3, <2>4, <2>5
  <1> QED
    BY <1>1, <1>3 DEF PollOf

\* What a client does keeps what it knows of its program.
LEMMA ExecOfClient ==
    ASSUME AgentInv, ExecInv, NEW c \in Clients, ClientStep(c)
    PROVE  ExecInv'
  <1> USE DEF AgentInv
  <1> SUFFICES ASSUME NEW d \in Clients
               PROVE  /\ pc'[d] # "idle" => result'[d] = "none"
                      /\ program'[d] # 0 => program'[d] = began'[d]
                      /\ pc'[d] = "reply" /\ command'[d] = "exec" =>
                          IF program'[d] = 0 THEN began'[d] = conn'[d] ELSE PollOf(d)'
    BY DEF ExecInv
  <1>1. CASE d # c
    <2>1. pc'[d] = pc[d] /\ conn'[d] = conn[d]
      BY <1>1, ChannelOfOthers
    <2>2. /\ program'[d] = program[d]
          /\ began'[d] = began[d]
          /\ command'[d] = command[d]
          /\ result'[d] = result[d]
      <3>1. CASE Begin(c) \/ Connect(c) \/ ReadSync(c) \/ SendRequest(c)
        <4>1. CASE Begin(c)
          BY <1>1, <4>1 DEF Begin, TypeOK
        <4>2. CASE Connect(c) \/ ReadSync(c)
          BY <1>1, <4>2 DEF Connect, ReadSync
        <4>3. CASE SendRequest(c)
          BY <1>1, <4>3 DEF SendRequest, TypeOK
        <4> QED
          BY <3>1, <4>1, <4>2, <4>3
      <3>2. CASE WriteHalf(c) \/ Timeout(c) \/ Die(c)
        <4>1. \E x : Return(c, x)
          BY <3>2 DEF WriteHalf, Timeout, Die
        <4> QED
          BY <1>1, <4>1 DEF Return, TypeOK
      <3>3. CASE ReadReply(c)
        <4>1. \/ \E x : Return(c, x)
              \/ /\ PollAgain(c)
                 /\ program' = program \/ \E p : program' = [program EXCEPT ![c] = p]
          BY <3>3 DEF ReadReply, TakeReply
        <4>2. CASE \E x : Return(c, x)
          BY <1>1, <4>2 DEF Return, TypeOK
        <4>3. CASE /\ PollAgain(c)
                   /\ program' = program \/ \E p : program' = [program EXCEPT ![c] = p]
          BY <1>1, <4>3 DEF PollAgain, TypeOK
        <4> QED
          BY <4>1, <4>2, <4>3
      <3> QED
        BY <3>1, <3>2, <3>3 DEF ClientStep
    <2> QED
      BY <1>1, <2>1, <2>2, ExecOfOthers DEF ExecInv
  <1>2. CASE d = c /\ Begin(c)
    BY <1>2 DEF Begin, TypeOK
  <1>3. CASE d = c /\ (Connect(c) \/ ReadSync(c))
    BY <1>3 DEF Connect, ReadSync, At, TypeOK, ExecInv
  <1>4. CASE d = c /\ SendRequest(c)
    <2>1. /\ RequestOf(conn[c]) /\ pc[c] = "request"
          /\ conn[c] # 0 /\ command[c] # "none"
          /\ conn[c] \in 0 .. next /\ next \in 0 .. MaxConnections
          /\ UNCHANGED <<conn, program, command, result, toGuest, fromGuest>>
          /\ sent' = [sent EXCEPT ![conn[c]] = Append(@, Request(c))]
          /\ began' = [began EXCEPT ![c] = IF Request(c).kind = "exec" THEN conn[c] ELSE @]
      BY <1>4 DEF SendRequest, At, ChannelInv, ConnInv, Connected, TypeOK, guest
    <2>2. result'[c] = "none"
      BY <2>1 DEF ExecInv
    <2>3. program[c] # 0 => program[c] = began'[c]
      BY <2>1 DEF Request, Commands, TypeOK, ExecInv
    <2>4. CASE command[c] = "exec" /\ program[c] = 0
      BY <1>4, <2>1, <2>2, <2>4 DEF Request, TypeOK
    <2>5. CASE command[c] = "exec" /\ program[c] # 0
      <3>1. /\ Request(c) \in Requests
            /\ Request(c).kind = "status" /\ Request(c).of = program[c]
        BY <2>1, <2>5, RequestType DEF Request
      <3>2. conn[c] \in Connections
        BY <2>1, AgentAssumption DEF Connections
      <3>3. sent[conn[c]] = <<>> /\ sent'[conn[c]] = Append(<<>>, Request(c))
        BY <2>1, <3>2 DEF RequestOf, TypeOK
      <3>4. sent'[conn[c]] = <<Request(c)>>
        BY <3>1, <3>3
      <3>5. Len(sent'[conn[c]]) = 1 /\ sent'[conn[c]][1] = Request(c)
        BY <3>4
      <3>6. /\ \A k \in 1 .. Len(toGuest) : FALSE
            /\ \A k \in 1 .. Len(fromGuest) : FALSE
        BY <2>1 DEF RequestOf
      <3>7. PollOf(c)'
        BY <2>1, <3>1, <3>5, <3>6 DEF PollOf
      <3> QED
        BY <1>4, <2>1, <2>2, <2>3, <2>5, <3>7
    <2>6. CASE command[c] # "exec"
      BY <1>4, <2>1, <2>2, <2>3, <2>6
    <2> QED
      BY <2>4, <2>5, <2>6
  <1>5. CASE d = c /\ (WriteHalf(c) \/ Timeout(c) \/ Die(c))
    BY <1>5 DEF WriteHalf, Timeout, Die, Return, TypeOK, ExecInv
  <1>6. CASE d = c /\ ReadReply(c)
    <2> DEFINE r == Head(fromGuest)
    <2>1. r.id = conn[c] /\ pc[c] = "reply"
      <3>1. fromGuest # <<>> /\ pc[c] = "reply" /\ ReplyOf(conn[c])
        BY <1>6 DEF ReadReply, Arrives, At, ChannelInv
      <3>2. Len(fromGuest) \in Nat \ {0} /\ r = fromGuest[1]
        BY <3>1, TailOf DEF TypeOK
      <3> HIDE DEF r
      <3> QED
        BY <3>1, <3>2 DEF ReplyOf
    <2>2. TakeReply(c, r)
      BY <1>6 DEF ReadReply
    <2> HIDE DEF r
    <2>3. CASE \E x : Return(c, x)
      BY <1>6, <2>3 DEF Return, TypeOK, ExecInv
    <2>4. CASE PollAgain(c) /\ UNCHANGED program
      BY <1>6, <2>1, <2>4 DEF PollAgain, TypeOK, ExecInv
    <2>5. CASE /\ PollAgain(c) /\ command[c] = "exec" /\ program[c] = 0
               /\ program' = [program EXCEPT ![c] = r.id]
      BY <1>6, <2>1, <2>5 DEF PollAgain, TypeOK, ExecInv
    <2> QED
      BY <2>2, <2>3, <2>4, <2>5 DEF TakeReply
  <1> QED
    BY <1>1, <1>2, <1>3, <1>4, <1>5, <1>6 DEF ClientStep

\* What QEMU and the guest do keeps what a client knows of its program.
LEMMA ExecOfGuest ==
    ASSUME AgentInv, OnceInv, ProgramInv, ExecInv, QemuStep \/ GuestStep
    PROVE  ExecInv'
  <1> USE DEF AgentInv
  <1>1. UNCHANGED clients
    BY DEF QemuStep, Accept, Forward, Disconnect, GuestStep, AgentStep, AgentRestart, ProgramEnds
  <1> SUFFICES ASSUME NEW c \in Clients, pc[c] = "reply", PollOf(c), program[c] # 0
               PROVE  PollOf(c)'
    BY <1>1 DEF ExecInv, clients
  <1> DEFINE i == conn[c]
  <1>2. /\ UNCHANGED <<conn, program>>
        /\ ReplyOf(i) /\ i # 0 /\ open = i
        /\ next \in 0 .. MaxConnections /\ i \in 0 .. next
    BY <1>1 DEF clients, ChannelInv, ReplyOf, ConnInv, Connected, TypeOK
  <1>3. i \in Connections /\ program[c] \in Connections
    <2>1. program[c] \in 0 .. next
      BY DEF TypeOK
    <2> QED
      BY <1>2, <2>1, AgentAssumption DEF Connections
  <1>4. CASE Accept
    BY <1>2, <1>4 DEF Accept
  <1>5. CASE Forward
    <2>1. /\ sent[i] \in Seq(Requests) /\ sent[i] # <<>>
          /\ toGuest \in Seq(Requests)
          /\ toGuest' = Append(toGuest, Head(sent[i]))
          /\ sent'[i] = Tail(sent[i])
          /\ UNCHANGED <<fromGuest, programs>>
      BY <1>2, <1>3, <1>5 DEF Forward, TypeOK
    <2>2. /\ Head(sent[i]) = sent[i][1]
          /\ sent[i][1] \in Requests
          /\ 1 \in 1 .. Len(sent[i])
          /\ \A k \in 1 .. Len(sent'[i]) : k + 1 \in 1 .. Len(sent[i]) /\ sent'[i][k] = sent[i][k + 1]
      BY <2>1, TailOf
    <2>3. /\ Len(toGuest) \in Nat
          /\ Len(toGuest') = Len(toGuest) + 1
          /\ \A k \in 1 .. Len(toGuest) : toGuest'[k] = toGuest[k]
          /\ toGuest'[Len(toGuest) + 1] = sent[i][1]
      BY <2>1, <2>2, AppendProperties, LenProperties
    <2>4. \A k \in 1 .. Len(sent'[i]) : sent'[i][k].kind = "status" /\ sent'[i][k].of = program[c]
      BY <2>2 DEF PollOf
    <2>5. \A k \in 1 .. Len(toGuest') : toGuest'[k].kind = "status" /\ toGuest'[k].of = program[c]
      BY <2>2, <2>3 DEF PollOf
    <2> QED
      BY <1>2, <2>1, <2>4, <2>5 DEF PollOf
  <1>6. CASE Disconnect
    BY <1>2, <1>6 DEF Disconnect, ConnInv
  <1>7. CASE AgentStep
    <2>1. /\ toGuest \in Seq(Requests) /\ toGuest # <<>>
          /\ toGuest' = Tail(toGuest)
          /\ sent' = sent
      BY <1>7 DEF AgentStep, TypeOK, sockets
    <2>2. /\ 1 \in 1 .. Len(toGuest)
          /\ \A k \in 1 .. Len(toGuest') : k + 1 \in 1 .. Len(toGuest) /\ toGuest'[k] = toGuest[k + 1]
      BY <2>1, TailOf
    <2>3. toGuest[1].kind = "status" /\ toGuest[1].of = program[c]
      BY <2>2 DEF PollOf
    <2>4. programs' = programs
      BY <1>7, <2>3, AgentPrograms
    <2>5. \A k \in 1 .. Len(fromGuest') : fromGuest'[k].kind = "exited" => programs[program[c]] = "ended"
      <3>1. \A k \in 1 .. Len(fromGuest') :
              \/ k \in 1 .. Len(fromGuest) /\ fromGuest'[k] = fromGuest[k]
              \/ fromGuest'[k].kind = "exited" =>
                   program[c] \in known /\ programs[program[c]] # "running"
        BY <1>7, <2>3, AgentPrograms
      <3>2. program[c] \in known /\ programs[program[c]] # "running" => programs[program[c]] = "ended"
        BY <1>3 DEF ProgramInv, TypeOK
      <3> QED
        BY <3>1, <3>2 DEF PollOf
    <2>6. \A k \in 1 .. Len(toGuest') : toGuest'[k].kind = "status" /\ toGuest'[k].of = program[c]
      BY <2>2 DEF PollOf
    <2> QED
      BY <1>2, <2>1, <2>4, <2>5, <2>6 DEF PollOf
  <1>8. CASE AgentRestart
    <2>1. /\ UNCHANGED <<sent, fromGuest, programs>>
          /\ \A k \in 1 .. Len(toGuest') : FALSE
      BY <1>8 DEF AgentRestart, sockets
    <2> QED
      BY <1>2, <2>1 DEF PollOf
  <1>9. CASE \E j \in Connections : ProgramEnds(j)
    <2>1. /\ UNCHANGED <<sent, toGuest, fromGuest>>
          /\ programs[program[c]] = "ended" => programs'[program[c]] = "ended"
      BY <1>3, <1>9 DEF ProgramEnds, sockets, TypeOK
    <2> QED
      BY <1>2, <2>1 DEF PollOf
  <1> QED
    BY <1>4, <1>5, <1>6, <1>7, <1>8, <1>9 DEF QemuStep, GuestStep

\* A program that exec has seen the end of does not run again, and no client says
\* that a program has ended which has not.
LEMMA ResultStep ==
    ASSUME AgentInv, OnceInv, ExecInv, ExecResultIsReal, Next
    PROVE  ExecResultIsReal'
  <1> USE DEF AgentInv
  <1>1. ASSUME NEW c \in Clients, ClientStep(c) PROVE ExecResultIsReal'
    <2>1. programs' = programs
      BY <1>1 DEF ClientStep, Begin, Connect, ReadSync, SendRequest, WriteHalf, ReadReply, Timeout, Die, guest
    <2>2. ASSUME NEW d \in Clients, result'[d] = "exited"
          PROVE  began'[d] # 0 /\ programs[began'[d]] = "ended"
      <3>1. CASE Begin(c)
        BY <2>2, <3>1 DEF Begin, TypeOK, ExecResultIsReal
      <3>2. CASE Connect(c) \/ ReadSync(c)
        BY <2>2, <3>2 DEF Connect, ReadSync, ExecResultIsReal
      <3>3. CASE SendRequest(c)
        <4>1. result[c] = "none" /\ result' = result
          BY <3>3 DEF SendRequest, At, ExecInv
        <4>2. d # c
          BY <2>2, <4>1
        <4> QED
          BY <2>2, <3>3, <4>1, <4>2 DEF SendRequest, TypeOK, ExecResultIsReal
      <3>4. CASE WriteHalf(c) \/ Timeout(c) \/ Die(c)
        <4>1. \E x \in {"none", "unavailable", "timeout", "requested"} : Return(c, x)
          BY <3>4 DEF WriteHalf, Timeout, Expired, Die
        <4> QED
          BY <2>2, <4>1 DEF Return, TypeOK, ExecResultIsReal
      <3>5. CASE ReadReply(c)
        <4> DEFINE r == Head(fromGuest)
        <4>1. TakeReply(c, r)
          BY <3>5 DEF ReadReply
        <4>2. CASE d # c
          BY SMTT(30), <2>2, <4>1, <4>2 DEF TakeReply, Return, PollAgain, TypeOK, ExecResultIsReal
        <4>3. CASE d = c
          <5>1. result[c] = "none" /\ pc[c] = "reply"
            BY <3>5 DEF ReadReply, At, ExecInv
          <5>2. /\ command[c] = "exec" /\ program[c] # 0
                /\ r.kind = "exited" /\ Return(c, "exited")
            BY <2>2, <4>1, <4>3, <5>1 DEF TakeReply, Return, PollAgain, Finished, TypeOK
          <5>3. program[c] = began[c] /\ PollOf(c)
            BY <5>1, <5>2 DEF ExecInv
          <5>4. fromGuest # <<>> /\ Len(fromGuest) \in Nat \ {0} /\ r = fromGuest[1]
            BY <3>5, TailOf DEF ReadReply, Arrives, TypeOK
          <5> HIDE DEF r
          <5>5. programs[program[c]] = "ended"
            BY <5>2, <5>3, <5>4 DEF PollOf
          <5> QED
            BY <4>3, <5>2, <5>3, <5>5 DEF Return
        <4> QED
          BY <4>2, <4>3
      <3> QED
        BY <1>1, <3>1, <3>2, <3>3, <3>4, <3>5 DEF ClientStep
    <2> QED
      BY <2>1, <2>2 DEF ExecResultIsReal
  <1>2. CASE QemuStep \/ GuestStep
    <2>1. UNCHANGED clients
      BY <1>2 DEF QemuStep, Accept, Forward, Disconnect, GuestStep, AgentStep, AgentRestart, ProgramEnds
    <2>2. ASSUME NEW i \in Connections, programs[i] = "ended" PROVE programs'[i] = "ended"
      <3>1. CASE QemuStep \/ AgentRestart
        BY <2>2, <3>1 DEF QemuStep, Accept, Forward, Disconnect, guest, AgentRestart
      <3>2. CASE AgentStep
        <4>1. toGuest # <<>> /\ Len(toGuest) \in Nat \ {0}
          BY <3>2, TailOf DEF AgentStep, TypeOK
        <4>2. ~ (toGuest[1].kind = "exec" /\ toGuest[1].id = i)
          BY <2>2, <4>1 DEF OnceInv, Once, NoExec
        <4>3. \/ programs' = programs
              \/ /\ toGuest[1].kind = "exec"
                 /\ programs' = [programs EXCEPT ![toGuest[1].id] = "running"]
          BY <3>2, AgentPrograms
        <4> QED
          BY <2>2, <4>2, <4>3 DEF TypeOK
      <3>3. CASE \E j \in Connections : ProgramEnds(j)
        BY <2>2, <3>3 DEF ProgramEnds, TypeOK
      <3> QED
        BY <1>2, <3>1, <3>2, <3>3 DEF GuestStep
    <2>3. \A c \in Clients : began[c] # 0 => began[c] \in Connections
      <3>1. next \in 0 .. MaxConnections /\ began \in [Clients -> 0 .. next]
        BY DEF TypeOK
      <3> QED
        BY <3>1, AgentAssumption DEF Connections
    <2> QED
      BY <2>1, <2>2, <2>3 DEF ExecResultIsReal, clients
  <1> QED
    BY <1>1, <1>2 DEF Next

\* The invariant of guest_exec holds in every reachable state.
THEOREM ExecInvariance == Spec => []ResultInv
  <1>1. ASSUME Init PROVE ResultInv
    <2>1. OnceInv /\ ProgramInv
      BY <1>1 DEF Init, OnceInv, Once, NoExec, ProgramInv
    <2>2. ExecInv /\ ExecResultIsReal
      BY <1>1 DEF Init, ExecInv, ExecResultIsReal
    <2> QED
      BY <1>1, <2>1, <2>2, AgentInit DEF ResultInv
  <1>2. ASSUME ResultInv, [Next]_vars PROVE ResultInv'
    <2>1. AgentInv'
      BY <1>2, AgentNext DEF ResultInv
    <2>2. CASE UNCHANGED vars
      BY <1>2, <2>1, <2>2 DEF vars, clients, sockets, guest, ResultInv, OnceInv, Once, NoExec, ProgramInv,
         ExecInv, PollOf, ExecResultIsReal
    <2>3. CASE Next
      <3>1. OnceInv'
        BY <1>2, <2>3, OnceOfClient, OnceOfOthers DEF Next, ResultInv
      <3>2. ProgramInv' /\ ExecResultIsReal'
        BY <1>2, <2>3, ProgramStep, ResultStep DEF ResultInv
      <3>3. ExecInv'
        BY <1>2, <2>3, ExecOfClient, ExecOfGuest DEF Next, ResultInv
      <3> QED
        BY <2>1, <3>1, <3>2, <3>3 DEF ResultInv
    <2> QED
      BY <1>2, <2>2, <2>3
  <1> QED
    BY <1>1, <1>2, PTL DEF Spec

\* guest_exec reports the end of a program only when the program that it asked for has
\* run and ended, whatever clients, restarts of the agent and lost replies come between.
THEOREM ExecResultIsRealHolds == Spec => []ExecResultIsReal
  <1>1. ResultInv => ExecResultIsReal
    BY DEF ResultInv
  <1> QED
    BY <1>1, ExecInvariance, PTL

\* However the agent, the guest and the clients interleave, the channel holds requests
\* and replies of connections that have been made.
THEOREM AgentTypeCorrect == Spec => []TypeOK
  <1>1. AgentInv => TypeOK
    BY DEF AgentInv
  <1> QED
    BY <1>1, ChannelInvariance, PTL

=============================================================================
