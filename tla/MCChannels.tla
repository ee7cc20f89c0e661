----------------------------- MODULE MCChannels -----------------------------
(* The two channels of a running VM for TLC: the guest agent's and QMP's.  *)
(* They share no state, so a behaviour uses one of them and the other      *)
(* rests; every action of both is a disjunct of its own.                   *)
EXTENDS GuestAgent, QmpChannel, TLC

VARIABLE channel    \* the one that is used

MCInit == Init /\ QmpInit /\ channel \in {"agent", "qmp"}

Agent(Step) == channel = "agent" /\ Step /\ UNCHANGED <<qmpVars, channel>>

Qmp(Step) == channel = "qmp" /\ Step /\ UNCHANGED <<vars, channel>>

MCNext ==
    \/ \E c \in Clients : Agent(Begin(c))
    \/ \E c \in Clients : Agent(Connect(c))
    \/ \E c \in Clients : Agent(ReadSync(c))
    \/ \E c \in Clients : Agent(SendRequest(c))
    \/ \E c \in Clients : Agent(WriteHalf(c))
    \/ \E c \in Clients : Agent(ReadReply(c))
    \/ \E c \in Clients : Agent(Timeout(c))
    \/ \E c \in Clients : Agent(Die(c))
    \/ Agent(Accept)
    \/ Agent(Forward)
    \/ Agent(Disconnect)
    \/ Agent(AgentStep)
    \/ Agent(AgentRestart)
    \/ \E i \in Connections : Agent(ProgramEnds(i))
    \/ \E u \in Users : Qmp(BeginQmp(u))
    \/ \E u \in Users : Qmp(ConnectQmp(u))
    \/ \E u \in Users : Qmp(ReadGreeting(u))
    \/ \E u \in Users : Qmp(SendQmp(u))
    \/ \E u \in Users : Qmp(ReadQmpReply(u))
    \/ \E u \in Users : Qmp(GiveUp(u))
    \/ \E u \in Users : Qmp(Dial(u))
    \/ \E u \in Users : Qmp(ReadText(u))
    \/ \E u \in Users : Qmp(EndOfText(u))
    \/ Qmp(AcceptQmp)
    \/ Qmp(ExecuteQmp)
    \/ Qmp(ReplyQmp)
    \/ Qmp(EmitQmp)
    \/ Qmp(HangUpQmp)

MCSpec == MCInit /\ [][MCNext]_<<vars, qmpVars, channel>>

\* Clients are interchangeable, and so are users.
Symmetry == Permutations(Clients) \cup Permutations(Users)

=============================================================================
