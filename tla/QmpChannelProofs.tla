--------------------------- MODULE QmpChannelProofs ---------------------------
(***************************************************************************)
(* For any number of users and connections a command over QMP is reported  *)
(* as done only when QEMU has carried out every request of its script.     *)
(* The argument: QEMU writes a "return" only for what it has carried out,  *)
(* to whomever it serves by then; a reply carries the id of its request;   *)
(* and a command goes on only with the reply that has the id of its own.   *)
(***************************************************************************)
EXTENDS QmpChannel, SequenceTheorems, TLAPS

Requests ==
    {NoId} \cup UNION {{Id(k, i) : i \in 1 .. Len(Script[k])} : k \in DOMAIN Script}

Kinds == {"none", "greeting", "return", "error", "event", "junk"}

QmpLabels == {"idle", "connect", "greeting", "send", "reply", "dial", "listen"}

Results == {"none", "done", "failed", "text", "empty"}

UserRecords ==
    [at : QmpLabels, command : UserCommands \cup {"none"}, step : Nat, link : 0 .. MaxQmpLinks,
     result : Results]

UserTypeOK == user \in [Users -> UserRecords]

LinksTypeOK ==
    links \in [made : 0 .. MaxQmpLinks, closed : SUBSET Nat, waiting : Seq(Links),
               sent : [Links -> Seq(Requests)]]

MonitorTypeOK ==
    monitor \in [serves : 0 .. MaxQmpLinks, negotiated : BOOLEAN,
                 busy : [id : Requests, kind : Kinds],
                 out : Seq([kind : Kinds, id : Requests]), executed : SUBSET Requests]

\* What a command that is past the greeting has asked for before has been carried out.
Past(u) ==
    /\ user[u].step \in 1 .. Len(Script[user[u].command])
    /\ \A i \in 1 .. user[u].step - 1 : Id(user[u].command, i) \in monitor.executed

\* A command that goes by a script, and how far it is.
UserInv ==
    \A u \in Users :
        /\ user[u].at \in {"connect", "greeting", "send", "reply"} =>
                user[u].command \in DOMAIN Script
        /\ user[u].at \in {"connect", "greeting"} => user[u].step = 0
        /\ user[u].at \in {"send", "reply"} => Past(u)
        /\ user[u].at # "idle" => user[u].result = "none"
        /\ user[u].result = "done" => user[u].command \in DOMAIN Script

\* QEMU says of nothing that it is done before it is.
ReplyInv ==
    /\ monitor.busy.kind = "return" => monitor.busy.id \in monitor.executed
    /\ \A k \in 1 .. Len(monitor.out) :
            monitor.out[k].kind = "return" => monitor.out[k].id \in monitor.executed

QmpInv ==
    UserTypeOK /\ LinksTypeOK /\ MonitorTypeOK /\ UserInv /\ ReplyInv /\ DoneIsReal

-----------------------------------------------------------------------------

\* The scripts, one by one.
LEMMA Scripts ==
    /\ DOMAIN Script = {"stop", "monitor", "status", "live", "ping"}
    /\ \A k \in DOMAIN Script : Len(Script[k]) \in Nat
  BY DEF Script

\* What a script asks for is a request.
LEMMA IdIsRequest ==
    ASSUME NEW k \in DOMAIN Script, NEW i \in 1 .. Len(Script[k])
    PROVE  Id(k, i) \in Requests
  BY DEF Requests

\* A step changes the state of its own user.
LEMMA UserStaysTyped ==
    ASSUME UserTypeOK, NEW u \in Users, NEW r \in UserRecords, user' = [user EXCEPT ![u] = r]
    PROVE  /\ UserTypeOK'
           /\ user'[u] = r
           /\ \A v \in Users \ {u} : user'[v] = user[v]
  BY DEF UserTypeOK

\* A command that ends leaves its state behind.
LEMMA LeaveKeeps ==
    ASSUME QmpInv, NEW u \in Users, NEW result \in {"done", "failed", "text", "empty"},
           Leave(u, result), monitor'.executed = monitor.executed,
           result = "done" =>
                /\ user[u].command \in DOMAIN Script
                /\ \A i \in 1 .. Len(Script[user[u].command]) :
                        Id(user[u].command, i) \in monitor.executed
    PROVE  UserTypeOK' /\ LinksTypeOK' /\ UserInv' /\ DoneIsReal'
<1> DEFINE k == IF result = "done" THEN user[u].command ELSE "none"
           r == [user[u] EXCEPT !.at = "idle", !.link = 0, !.result = result, !.command = k]
<1>1. user[u] \in UserRecords /\ 0 \in 0 .. MaxQmpLinks
  BY QmpAssumption DEF QmpInv, UserTypeOK, UserRecords
<1>2. /\ r \in UserRecords
      /\ r.at = "idle" /\ r.result = result /\ r.command = k
  BY <1>1 DEF UserRecords, QmpLabels, Results
<1>3. user' = [user EXCEPT ![u] = r]
  BY <1>1 DEF QmpInv, UserTypeOK, UserRecords, Leave
<1>4. /\ UserTypeOK' /\ user'[u] = r
      /\ \A v \in Users \ {u} : user'[v] = user[v]
  BY <1>2, <1>3, UserStaysTyped DEF QmpInv
<1>5. LinksTypeOK'
  <2>1. user[u].link \in Nat
    BY <1>1, QmpAssumption DEF UserRecords
  <2>2. CASE user[u].link = 0
    BY <2>2 DEF QmpInv, LinksTypeOK, Leave
  <2>3. CASE user[u].link # 0
    <3>1. links' = [links EXCEPT !.closed = links.closed \cup {user[u].link}]
      BY <2>3 DEF Leave
    <3> QED BY <2>1, <3>1 DEF QmpInv, LinksTypeOK
  <2> QED BY <2>2, <2>3
<1>8. result = "done" => k = user[u].command
  OBVIOUS
<1> HIDE DEF r, k
<1>6. UserInv'
  BY <1>2, <1>4, <1>8 DEF QmpInv, UserInv, Past
<1>7. DoneIsReal'
  BY <1>2, <1>4, <1>8 DEF QmpInv, DoneIsReal
<1> QED BY <1>4, <1>5, <1>6, <1>7

\* After the reply to its request, or the greeting, a command sends the next request or
\* is done.
LEMMA NextRequestKeeps ==
    ASSUME QmpInv, NEW u \in Users, NextRequest(u), monitor'.executed = monitor.executed,
           user[u].at \in {"greeting", "reply"},
           user[u].at = "reply" =>
                Id(user[u].command, user[u].step) \in monitor.executed
    PROVE  UserTypeOK' /\ LinksTypeOK' /\ UserInv' /\ DoneIsReal'
<1> DEFINE k == user[u].command
           n == user[u].step
<1>1. /\ k \in DOMAIN Script /\ n \in 0 .. Len(Script[k]) /\ Len(Script[k]) \in Nat
      /\ \A i \in 1 .. n : Id(k, i) \in monitor.executed
  <2>1. k \in DOMAIN Script /\ Len(Script[k]) \in Nat
    BY Scripts DEF QmpInv, UserInv
  <2>2. CASE user[u].at = "greeting"
    BY <2>1, <2>2 DEF QmpInv, UserInv
  <2>3. CASE user[u].at = "reply"
    <3>1. n \in 1 .. Len(Script[k]) /\ \A i \in 1 .. n - 1 : Id(k, i) \in monitor.executed
      BY <2>3 DEF QmpInv, UserInv, Past
    <3>2. \A i \in 1 .. n : i = n \/ i \in 1 .. n - 1
      BY <3>1
    <3> QED BY <2>1, <2>3, <3>1, <3>2
  <2> QED BY <2>2, <2>3
<1>2. CASE n = Len(Script[k])
  <2>1. Leave(u, "done")
    BY <1>2 DEF NextRequest
  <2> QED BY <1>1, <1>2, <2>1, LeaveKeeps
<1>3. CASE n # Len(Script[k])
  <2>1. /\ user' = [user EXCEPT ![u].at = "send", ![u].step = n + 1]
        /\ links' = links
    BY <1>3 DEF NextRequest
  <2> DEFINE r == [user[u] EXCEPT !.at = "send", !.step = n + 1]
  <2>2. user[u] \in UserRecords /\ n + 1 \in Nat
    BY <1>1 DEF QmpInv, UserTypeOK, UserRecords
  <2>8. r \in UserRecords
    BY <2>2 DEF UserRecords, QmpLabels
  <2>9. user' = [user EXCEPT ![u] = r]
    BY <2>1, <2>2 DEF QmpInv, UserTypeOK, UserRecords
  <2>10. UserTypeOK' /\ user'[u] = r /\ \A v \in Users \ {u} : user'[v] = user[v]
    BY <2>8, <2>9, UserStaysTyped DEF QmpInv
  <2>3. /\ user'[u].at = "send" /\ user'[u].command = k /\ user'[u].step = n + 1
        /\ user'[u].result = user[u].result
        /\ \A v \in Users \ {u} : user'[v] = user[v]
    BY <2>2, <2>10 DEF UserRecords
  <2>4. n + 1 \in 1 .. Len(Script[k]) /\ n + 1 - 1 = n
    BY <1>1, <1>3
  <2>11. Past(u)'
    BY <1>1, <2>3, <2>4 DEF Past
  <2>5. UserInv'
    BY <1>1, <2>3, <2>11 DEF QmpInv, UserInv, Past
  <2>6. user[u].result = "none"
    BY DEF QmpInv, UserInv
  <2>7. DoneIsReal'
    BY <2>3, <2>6 DEF QmpInv, DoneIsReal
  <2> QED BY <2>1, <2>10, <2>5, <2>7 DEF QmpInv, LinksTypeOK
<1> QED BY <1>2, <1>3

\* Reading a line leaves QEMU's replies as they were.
LEMMA ConsumeKeeps ==
    ASSUME QmpInv, monitor.out # <<>>, Consume
    PROVE  MonitorTypeOK' /\ ReplyInv' /\ monitor'.executed = monitor.executed
<1>1. /\ monitor.out \in Seq([kind : Kinds, id : Requests])
      /\ monitor' = [monitor EXCEPT !.out = Tail(monitor.out)]
  BY DEF QmpInv, MonitorTypeOK, Consume
<1>2. /\ Tail(monitor.out) \in Seq([kind : Kinds, id : Requests])
      /\ Len(Tail(monitor.out)) = Len(monitor.out) - 1
      /\ \A k \in 1 .. Len(Tail(monitor.out)) : Tail(monitor.out)[k] = monitor.out[k + 1]
  BY <1>1, HeadTailProperties
<1>3. \A k \in 1 .. Len(Tail(monitor.out)) : k + 1 \in 1 .. Len(monitor.out)
  BY <1>1, <1>2, LenProperties
<1>4. MonitorTypeOK' /\ monitor'.executed = monitor.executed
  BY <1>1, <1>2 DEF QmpInv, MonitorTypeOK
<1>5. monitor'.busy = monitor.busy /\ monitor'.out = Tail(monitor.out)
  BY <1>1 DEF QmpInv, MonitorTypeOK
<1> QED BY <1>2, <1>3, <1>4, <1>5 DEF QmpInv, ReplyInv

-----------------------------------------------------------------------------

\* The steps of the commands, one by one.
LEMMA UserKeeps ==
    ASSUME QmpInv, NEW u \in Users, QmpUserStep(u)
    PROVE  QmpInv'
<1>1. CASE BeginQmp(u)
  <2>1. PICK k \in UserCommands :
          user' = [user EXCEPT ![u] = [Idle EXCEPT !.at = IF k = "telnet" THEN "dial" ELSE "connect",
                                                   !.command = k]]
    BY <1>1 DEF BeginQmp
  <2> DEFINE r == [Idle EXCEPT !.at = IF k = "telnet" THEN "dial" ELSE "connect", !.command = k]
  <2>0. Idle \in UserRecords
    BY QmpAssumption DEF Idle, UserRecords, QmpLabels, Results
  <2>2. /\ r \in UserRecords /\ r.at = IF k = "telnet" THEN "dial" ELSE "connect"
        /\ r.command = k /\ r.step = 0 /\ r.link = 0 /\ r.result = "none"
    BY <2>0 DEF UserRecords, QmpLabels, Idle
  <2>3. UserTypeOK' /\ user'[u] = r /\ \A v \in Users \ {u} : user'[v] = user[v]
    BY <2>1, <2>2, UserStaysTyped DEF QmpInv
  <2>4. links' = links /\ monitor' = monitor
    BY <1>1 DEF BeginQmp
  <2> HIDE DEF r
  <2>5. UserInv'
    BY <2>2, <2>3, <2>4 DEF QmpInv, UserInv, Past, UserCommands
  <2>6. DoneIsReal'
    BY <2>2, <2>3, <2>4 DEF QmpInv, DoneIsReal
  <2> QED BY <2>3, <2>4, <2>5, <2>6 DEF QmpInv, LinksTypeOK, MonitorTypeOK, ReplyInv
<1>2. CASE ConnectQmp(u)
  <2>1. /\ user[u].at = "connect" /\ links.made + 1 \in Links /\ monitor' = monitor
        /\ user' = [user EXCEPT ![u].at = "greeting", ![u].link = links.made + 1]
        /\ links' = [links EXCEPT !.made = links.made + 1,
                                  !.waiting = Append(links.waiting, links.made + 1)]
    BY <1>2, QmpAssumption DEF ConnectQmp, Does, QmpInv, LinksTypeOK, Links
  <2>8. links.made + 1 \in 0 .. MaxQmpLinks
    BY <2>1, QmpAssumption DEF Links
  <2>9. Append(links.waiting, links.made + 1) \in Seq(Links)
    BY <2>1, AppendProperties DEF QmpInv, LinksTypeOK
  <2>2. LinksTypeOK'
    BY <2>1, <2>8, <2>9 DEF QmpInv, LinksTypeOK
  <2>10. UserTypeOK'
    BY ZenonT(30), <2>1, <2>8 DEF QmpInv, UserTypeOK, UserRecords, QmpLabels
  <2>3. /\ user'[u].at = "greeting" /\ user'[u].command = user[u].command
        /\ user'[u].step = user[u].step /\ user'[u].result = user[u].result
        /\ \A v \in Users \ {u} : user'[v] = user[v]
    BY <2>1 DEF QmpInv, UserTypeOK, UserRecords
  <2>4. UserInv'
    BY ZenonT(30), <2>1, <2>3 DEF QmpInv, UserInv, Past
  <2>5. DoneIsReal'
    BY ZenonT(30), <2>1, <2>3 DEF QmpInv, DoneIsReal
  <2> QED BY <2>1, <2>2, <2>4, <2>5, <2>10 DEF QmpInv, MonitorTypeOK, ReplyInv
<1>3. CASE ReadGreeting(u)
  <2>1. MonitorTypeOK' /\ ReplyInv' /\ monitor'.executed = monitor.executed
    BY <1>3, ConsumeKeeps DEF ReadGreeting, Readable
  <2>2. CASE NextRequest(u)
    BY <1>3, <2>1, <2>2, NextRequestKeeps DEF ReadGreeting, Does, QmpInv
  <2>3. CASE Leave(u, "failed")
    BY <2>1, <2>3, LeaveKeeps DEF QmpInv
  <2> QED BY <1>3, <2>2, <2>3 DEF ReadGreeting
<1>4. CASE SendQmp(u)
  <2> DEFINE id == Id(user[u].command, user[u].step)
  <2>1. /\ user[u].at = "send" /\ monitor' = monitor
        /\ user' = [user EXCEPT ![u].at = "reply"]
        /\ links' = [links EXCEPT !.sent[user[u].link] = Append(links.sent[user[u].link], id)]
    BY <1>4 DEF SendQmp, Does
  <2>2. id \in Requests
    BY <2>1, IdIsRequest DEF QmpInv, UserInv, Past
  <2>3. UserTypeOK'
    BY <2>1 DEF QmpInv, UserTypeOK, UserRecords, QmpLabels
  <2>4. LinksTypeOK'
    <3>1. links.sent \in [Links -> Seq(Requests)]
      BY DEF QmpInv, LinksTypeOK
    <3>2. [links.sent EXCEPT ![user[u].link] = Append(links.sent[user[u].link], id)]
            \in [Links -> Seq(Requests)]
      BY <2>2, <3>1, AppendProperties
    <3> QED BY <2>1, <3>2 DEF QmpInv, LinksTypeOK
  <2>5. /\ user'[u].at = "reply" /\ user'[u].command = user[u].command
        /\ user'[u].step = user[u].step /\ user'[u].result = user[u].result
        /\ \A v \in Users \ {u} : user'[v] = user[v]
    BY <2>1 DEF QmpInv, UserTypeOK, UserRecords
  <2>6. UserInv'
    BY <2>1, <2>5 DEF QmpInv, UserInv, Past
  <2>7. DoneIsReal'
    BY <2>1, <2>5 DEF QmpInv, DoneIsReal
  <2> QED BY <2>1, <2>3, <2>4, <2>6, <2>7 DEF QmpInv, MonitorTypeOK, ReplyInv
<1>5. CASE ReadQmpReply(u)
  <2>1. MonitorTypeOK' /\ ReplyInv' /\ monitor'.executed = monitor.executed
    BY <1>5, ConsumeKeeps DEF ReadQmpReply, Readable
  <2> DEFINE message == Head(monitor.out)
  <2>2. CASE UNCHANGED <<user, links>>
    BY <2>1, <2>2 DEF QmpInv, UserTypeOK, LinksTypeOK, UserInv, Past, DoneIsReal
  <2>3. CASE ~Skips(u, message) /\ message.kind = "return" /\ NextRequest(u)
    <3>1. message.id = Id(user[u].command, user[u].step)
      BY <2>3 DEF Skips
    <3>2. monitor.out # <<>> /\ message = monitor.out[1] /\ 1 \in 1 .. Len(monitor.out)
      BY <1>5, LenProperties, EmptySeq DEF ReadQmpReply, Readable, QmpInv, MonitorTypeOK
    <3>3. Id(user[u].command, user[u].step) \in monitor.executed
      BY <2>3, <3>1, <3>2 DEF QmpInv, ReplyInv
    <3> QED BY <1>5, <2>1, <2>3, <3>3, NextRequestKeeps DEF ReadQmpReply, Does, QmpInv
  <2>4. CASE Leave(u, "failed")
    BY <2>1, <2>4, LeaveKeeps DEF QmpInv
  <2> QED BY <1>5, <2>2, <2>3, <2>4 DEF ReadQmpReply
<1>6. CASE GiveUp(u)
  BY <1>6, LeaveKeeps DEF GiveUp, QmpInv, MonitorTypeOK, ReplyInv
<1>7. CASE Dial(u)
  <2>1. /\ user'[u].at = "listen" /\ user'[u].command = user[u].command
        /\ user'[u].step = user[u].step /\ user'[u].result = user[u].result
        /\ user[u].at = "dial" /\ UNCHANGED <<links, monitor>>
        /\ \A v \in Users \ {u} : user'[v] = user[v]
    BY <1>7 DEF Dial, Does, QmpInv, UserTypeOK
  <2>2. UserTypeOK'
    BY <1>7 DEF Dial, QmpInv, UserTypeOK, UserRecords, QmpLabels
  <2>3. UserInv' /\ DoneIsReal'
    BY <2>1 DEF QmpInv, UserInv, Past, DoneIsReal
  <2> QED BY <2>1, <2>2, <2>3 DEF QmpInv, LinksTypeOK, MonitorTypeOK, ReplyInv
<1>8. CASE ReadText(u)
  <2>1. CASE Leave(u, "failed")
    BY <1>8, <2>1, LeaveKeeps DEF ReadText, QmpInv, MonitorTypeOK, ReplyInv
  <2>2. CASE user' = [user EXCEPT ![u].step = 1] /\ UNCHANGED links
    <3>1. /\ user'[u].at = user[u].at /\ user'[u].command = user[u].command
          /\ user'[u].result = user[u].result
          /\ user[u].at = "listen" /\ UNCHANGED <<links, monitor>>
          /\ \A v \in Users \ {u} : user'[v] = user[v]
      BY <1>8, <2>2 DEF ReadText, Does, QmpInv, UserTypeOK
    <3>2. UserTypeOK'
      BY <2>2 DEF QmpInv, UserTypeOK, UserRecords
    <3>3. UserInv' /\ DoneIsReal'
      BY <3>1 DEF QmpInv, UserInv, Past, DoneIsReal
    <3> QED BY <3>1, <3>2, <3>3 DEF QmpInv, LinksTypeOK, MonitorTypeOK, ReplyInv
  <2> QED BY <1>8, <2>1, <2>2 DEF ReadText
<1>9. CASE EndOfText(u)
  BY <1>9, LeaveKeeps DEF EndOfText, QmpInv, MonitorTypeOK, ReplyInv
<1> QED BY <1>1, <1>2, <1>3, <1>4, <1>5, <1>6, <1>7, <1>8, <1>9 DEF QmpUserStep

\* QEMU's steps change no user, and forget nothing that was carried out.
LEMMA ServerKeepsUsers ==
    ASSUME QmpInv, UNCHANGED user, monitor.executed \subseteq monitor'.executed
    PROVE  UserTypeOK' /\ UserInv' /\ DoneIsReal'
  BY DEF QmpInv, UserTypeOK, UserInv, Past, DoneIsReal

\* One more line from QEMU, which is no answer or one to what was carried out.
LEMMA LineKeeps ==
    ASSUME MonitorTypeOK, ReplyInv, NEW line \in [kind : Kinds, id : Requests],
           line.kind = "return" => line.id \in monitor.executed
    PROVE  /\ Append(monitor.out, line) \in Seq([kind : Kinds, id : Requests])
           /\ \A k \in 1 .. Len(Append(monitor.out, line)) :
                Append(monitor.out, line)[k].kind = "return" =>
                    Append(monitor.out, line)[k].id \in monitor.executed
  BY AppendProperties DEF MonitorTypeOK, ReplyInv

\* The steps of QEMU, one by one.
LEMMA ServerKeeps ==
    ASSUME QmpInv, QmpServerStep
    PROVE  QmpInv'
<1> USE DEF QmpInv
<1>1. CASE AcceptQmp
  <2>1. /\ Head(links.waiting) \in Links /\ Tail(links.waiting) \in Seq(Links)
    BY <1>1, HeadTailProperties DEF AcceptQmp, LinksTypeOK
  <2>2. LinksTypeOK'
    BY <1>1, <2>1 DEF AcceptQmp, LinksTypeOK
  <2>3. NoId \in Requests
    BY DEF Requests
  <2>4. /\ monitor' = [monitor EXCEPT !.serves = Head(links.waiting), !.negotiated = FALSE,
                                  !.out = <<[kind |-> "greeting", id |-> NoId]>>]
        /\ Head(links.waiting) \in 0 .. MaxQmpLinks
        /\ <<[kind |-> "greeting", id |-> NoId]>> \in Seq([kind : Kinds, id : Requests])
    BY <1>1, <2>1, <2>3 DEF AcceptQmp, Links, Kinds
  <2>5. MonitorTypeOK' /\ monitor'.executed = monitor.executed
    BY <2>4 DEF MonitorTypeOK
  <2>6. /\ monitor'.busy = monitor.busy
        /\ monitor'.out = <<[kind |-> "greeting", id |-> NoId]>>
    BY <2>4 DEF MonitorTypeOK
  <2>7. ReplyInv'
    BY <2>5, <2>6 DEF ReplyInv
  <2> QED BY <1>1, <2>2, <2>5, <2>7, ServerKeepsUsers DEF AcceptQmp
<1>2. CASE ExecuteQmp
  <2>1. links.sent[monitor.serves] \in Seq(Requests) /\ monitor.serves \in Links
    BY <1>2, QmpAssumption DEF ExecuteQmp, MonitorTypeOK, LinksTypeOK, Links
  <2> DEFINE id == Head(links.sent[monitor.serves])
  <2>2. id \in Requests /\ Tail(links.sent[monitor.serves]) \in Seq(Requests)
    BY <1>2, <2>1, HeadTailProperties DEF ExecuteQmp
  <2>3. LinksTypeOK'
    BY <1>2, <2>1, <2>2 DEF ExecuteQmp, LinksTypeOK
  <2>4. PICK kind \in Outcomes_Qmp(id[2]) :
          monitor' = [monitor EXCEPT
             !.busy = [id |-> id, kind |-> kind],
             !.negotiated = @ \/ id[2] = "qmp_capabilities",
             !.executed = IF kind = "return" THEN @ \cup {id} ELSE @]
    BY <1>2 DEF ExecuteQmp
  <2>5. kind \in Kinds
    BY DEF Outcomes_Qmp, Kinds
  <2>6. /\ monitor'.busy = [id |-> id, kind |-> kind] /\ monitor'.out = monitor.out
        /\ monitor'.serves = monitor.serves
        /\ monitor'.executed = IF kind = "return" THEN monitor.executed \cup {id}
                               ELSE monitor.executed
    BY <2>4 DEF MonitorTypeOK
  <2>7. MonitorTypeOK'
    BY <2>2, <2>4, <2>5 DEF MonitorTypeOK
  <2>8. ReplyInv'
    BY <2>6 DEF ReplyInv
  <2> QED BY <1>2, <2>3, <2>6, <2>7, <2>8, ServerKeepsUsers DEF ExecuteQmp
<1>3. CASE ReplyQmp
  <2>1. PICK id \in {monitor.busy.id} \cup (IF monitor.busy.kind = "error" THEN {NoId} ELSE {}) :
         monitor' = [monitor EXCEPT
             !.busy = NotBusy,
             !.out = IF monitor.serves = 0 THEN @
                     ELSE Append(@, [kind |-> monitor.busy.kind, id |-> id])]
    BY <1>3 DEF ReplyQmp
  <2> DEFINE line == [kind |-> monitor.busy.kind, id |-> id]
  <2>2. /\ line \in [kind : Kinds, id : Requests]
        /\ line.kind = "return" => line.id \in monitor.executed
    BY <2>1 DEF MonitorTypeOK, ReplyInv, Requests, Kinds
  <2>3. /\ monitor'.busy = NotBusy /\ monitor'.executed = monitor.executed
        /\ monitor'.out = IF monitor.serves = 0 THEN monitor.out ELSE Append(monitor.out, line)
    BY <2>1 DEF MonitorTypeOK
  <2>4. Append(monitor.out, line) \in Seq([kind : Kinds, id : Requests])
    BY <2>2, LineKeeps
  <2>5. NotBusy \in [id : Requests, kind : Kinds] /\ NotBusy.kind # "return"
    BY DEF NotBusy, Requests, Kinds
  <2>6. MonitorTypeOK'
    BY <2>1, <2>4, <2>5 DEF MonitorTypeOK
  <2>7. ReplyInv'
    BY <2>2, <2>3, <2>5, LineKeeps DEF ReplyInv
  <2> QED BY <1>3, <2>3, <2>6, <2>7, ServerKeepsUsers DEF ReplyQmp, LinksTypeOK
<1>4. CASE EmitQmp
  <2>1. PICK kind \in {"event", "junk"} :
          monitor' = [monitor EXCEPT !.out = Append(@, [kind |-> kind, id |-> NoId])]
    BY <1>4 DEF EmitQmp
  <2> DEFINE line == [kind |-> kind, id |-> NoId]
  <2>2. line \in [kind : Kinds, id : Requests] /\ line.kind # "return"
    BY DEF Requests, Kinds
  <2>3. /\ monitor'.busy = monitor.busy /\ monitor'.executed = monitor.executed
        /\ monitor'.out = Append(monitor.out, line)
    BY <2>1 DEF MonitorTypeOK
  <2>4. Append(monitor.out, line) \in Seq([kind : Kinds, id : Requests])
    BY <2>2, LineKeeps
  <2>5. MonitorTypeOK'
    BY <2>1, <2>4 DEF MonitorTypeOK
  <2>6. ReplyInv'
    BY <2>2, <2>3, LineKeeps DEF ReplyInv
  <2> QED BY <1>4, <2>3, <2>5, <2>6, ServerKeepsUsers DEF EmitQmp, LinksTypeOK
<1>5. CASE HangUpQmp
  <2>1. /\ monitor' = [monitor EXCEPT !.serves = 0, !.out = <<>>]
        /\ links' = [links EXCEPT !.sent[monitor.serves] = <<>>] /\ user' = user
    BY <1>5 DEF HangUpQmp
  <2>2. MonitorTypeOK' /\ LinksTypeOK'
    <3>1. <<>> \in Seq(Requests) /\ <<>> \in Seq([kind : Kinds, id : Requests])
          /\ 0 \in 0 .. MaxQmpLinks
      BY QmpAssumption, EmptySeq
    <3>2. [links.sent EXCEPT ![monitor.serves] = <<>>] \in [Links -> Seq(Requests)]
      BY <3>1 DEF LinksTypeOK
    <3> QED BY <2>1, <3>1, <3>2 DEF MonitorTypeOK, LinksTypeOK
  <2>3. /\ monitor'.busy = monitor.busy /\ monitor'.executed = monitor.executed
        /\ monitor'.out = <<>>
    BY <2>1 DEF MonitorTypeOK
  <2>4. ReplyInv'
    BY <2>3 DEF ReplyInv
  <2> QED BY <2>1, <2>2, <2>3, <2>4, ServerKeepsUsers
<1> QED BY <1>1, <1>2, <1>3, <1>4, <1>5 DEF QmpServerStep

-----------------------------------------------------------------------------

\* At first there are no commands and no connections.
LEMMA QmpStarts ==
    ASSUME QmpInit
    PROVE  QmpInv
<1>1. UserTypeOK
  BY QmpAssumption DEF QmpInit, UserTypeOK, UserRecords, Results, Idle, QmpLabels
<1>2. LinksTypeOK
  BY QmpAssumption DEF QmpInit, LinksTypeOK
<1>3. MonitorTypeOK
  BY QmpAssumption DEF QmpInit, MonitorTypeOK, NotBusy, Requests, Kinds
<1>4. UserInv /\ DoneIsReal
  BY DEF QmpInit, UserInv, DoneIsReal, Idle
<1>5. ReplyInv
  BY DEF QmpInit, ReplyInv, NotBusy
<1> QED BY <1>1, <1>2, <1>3, <1>4, <1>5 DEF QmpInv

\* A script goes on only with replies to what QEMU has carried out.
THEOREM QmpInvariance == QmpSpec => []QmpInv
<1>1. QmpInit => QmpInv
  BY QmpStarts
<1>2. QmpInv /\ [QmpNext]_qmpVars => QmpInv'
  <2>1. CASE QmpNext
    BY <2>1, UserKeeps, ServerKeeps DEF QmpNext
  <2>2. CASE UNCHANGED qmpVars
    BY <2>2 DEF qmpVars, QmpInv, UserTypeOK, LinksTypeOK, MonitorTypeOK, UserInv, Past, ReplyInv,
       DoneIsReal
  <2> QED BY <2>1, <2>2
<1> QED BY <1>1, <1>2, PTL DEF QmpSpec

\* execute_qmp takes for the reply to its request only one that QEMU has given after it
\* had carried that request out, whatever else is on the socket, for any number of users
\* and connections.
THEOREM DoneIsRealHolds == QmpSpec => []DoneIsReal
<1>1. QmpInv => DoneIsReal
  BY DEF QmpInv
<1> QED BY <1>1, QmpInvariance, PTL

=============================================================================
