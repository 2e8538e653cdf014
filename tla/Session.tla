------------------------------ MODULE Session -------------------------------
(***************************************************************************)
(* ServiceLink driven by any game: the calls of game.c come at any time, in *)
(* the orders its contexts allow.  History variables follow what was sent   *)
(* on the present link.                                                     *)
(***************************************************************************)
EXTENDS ServiceLink, FiniteSets

VARIABLES
    told,       \* history: a score was indicated on this link
    written,    \* history: the last score written on this link, or Nothing
    readHere    \* history: the attributes read on this link

history == <<told, written, readHere>>
sessionVars == <<linkVars, call, history>>

Nothing == MaxScore + 1

\* Types of the link and of the history kept beside it.
SessionTypeOK ==
    /\ LinkTypeOK
    /\ told \in BOOLEAN
    /\ written \in 0 .. Nothing
    /\ readHere \subseteq Attribute

SessionInit ==
    /\ LinkInit
    /\ call = [d \in Device |-> NoCalls]
    /\ told = FALSE /\ written = Nothing /\ readHere = {}

-----------------------------------------------------------------------------
\* The calls game.c makes: states from the main loop only, and no score from an
\* interrupt while the main loop publishes one (what keeps a score at zero until
\* PLAYING, see Game, also keeps the interrupts from scoring during its reset).
GameCalls(d) ==
    /\ ~fault[d] /\ InterruptIdle(d)
    /\ \/ \E s \in IndicatedState :
              call[d]["main"] = NoCall /\ MakeCall(d, "main", StateCall(s))
       \/ \E c \in Context, s \in Score :
              /\ call[d]["main"] = NoCall \/ (c = "isr" /\ call[d]["main"].op # "set_score")
              /\ MakeCall(d, c, ScoreCall(s))
    /\ UNCHANGED <<linkVars, history>>

NewLink ==
    /\ Connect
    /\ told' = FALSE /\ written' = Nothing /\ readHere' = {}

Interrupt(d) ==
    /\ IF d = Server THEN ServerInterrupt
       ELSE ClientInterrupt \/ \E s \in IndicatedState : ClientGameState(s)
    /\ readHere' = IF d = Client /\ Head(events[d]).type = "read_rsp"
                   THEN readHere \union {Head(events[d]).attr} ELSE readHere
    /\ UNCHANGED <<told, written>>

Publishes(d, c) ==
    /\ Send(d, c)
    /\ told' = (told \/ (d = Server /\ call[d][c].op = "set_score" /\ HvxGoes(c)))
    /\ written' = IF d = Client /\ Usable(d) THEN call[d][c].score ELSE written
    /\ UNCHANGED readHere

SessionNext ==
    \/ NewLink
    \/ LinkLoss /\ UNCHANGED history
    \/ Stack /\ UNCHANGED history
    \/ \E d \in Device :
        \/ GameCalls(d)
        \/ Interrupt(d)
        \/ LinkReset(d) /\ UNCHANGED history
        \/ \E c \in Context : (CallChecks(d, c) /\ UNCHANGED history) \/ Publishes(d, c)

\* The stacks work, a pending interrupt is served when the running one returns,
\* and a call that can proceed does: the hardware takes interrupts and the loops on
\* NRF_ERROR_BUSY try again.  Links need not be lost, devices need not be reset,
\* and players need not play.
SessionFairness ==
    /\ WF_sessionVars(Stack /\ UNCHANGED history)
    /\ \A d \in Device :
        /\ WF_sessionVars(Interrupt(d))
        /\ \A c \in Context :
            WF_sessionVars((CallChecks(d, c) /\ UNCHANGED history) \/ Publishes(d, c))

SessionSpec == SessionInit /\ [][SessionNext]_sessionVars
FairSessionSpec == SessionSpec /\ SessionFairness

-----------------------------------------------------------------------------
(***************************************************************************)
(* Properties.                                                             *)
(***************************************************************************)
Tokens(seq, types) == Cardinality({i \in 1 .. Len(seq) : seq[i].type \in types})

\* A busy flag is backed by exactly one message: an unconfirmed indication or its
\* confirmation is somewhere on its way, and so is an unanswered request or its
\* answer.  No handler forgets to confirm or to reply (service_client.c:144,
\* service_server.c:390 and :406), so a send never spins for nothing.
BusyIsBacked ==
    linkUp =>
        /\ Tokens(toClient, {"hvx"}) + Tokens(events[Client], {"hvx"})
               + Tokens(toServer, {"confirm"}) = (IF hvxBusy THEN 1 ELSE 0)
        /\ Tokens(toServer, {"discover", "read", "write"})
               + Tokens(events[Server], {"read", "write"})
               + Tokens(toClient, {"discovered", "read_rsp", "write_rsp"})
               = (IF requestBusy THEN 1 ELSE 0)

Publishing(d) == \E c \in Context : call[d][c].op = "set_score"
Quiet == linkUp /\ ~hvxBusy /\ ~requestBusy /\ \A d \in Device : events[d] = <<>>

\* When nothing is under way the two devices agree on both scores: once a score
\* was indicated on this link the client holds the server's current score, and
\* the server holds the last score the client wrote, although each send may have
\* found the stack busy and been preempted by others.
QuietMeansAgreed ==
    Quiet =>
        /\ told /\ ~Publishing(Server) => serverScoreView = serverScore
        /\ written # Nothing /\ ~Publishing(Client) => clientScore = written

\* The chain of reads that the READ_RSP handler continues is never broken unless
\* the client wrote a score meanwhile (service_client.c:94-109 ignore the code).
ChainIsRead ==
    Quiet /\ clientState = "CONNECTED" /\ written = Nothing => readHere = Attribute

\* A connection becomes a session, with both indications enabled, unless the link
\* is lost or a device stops - even if the server's game calls from the moment
\* the info is read.
SessionForms ==
    linkUp ~> \/ ~linkUp \/ (\E d \in Device : fault[d])
              \/ clientState = "CONNECTED" /\ serverState = "CONNECTED" /\ cccd = Indicated

\* "Keep trying to send the message if it is busy." (service_client.c:280): a send
\* that keeps trying gets through, unless the link is lost or a device stops.
SendsGetThrough ==
    \A d \in Device, c \in Context :
        c \in sending[d] ~> c \notin sending[d] \/ ~linkUp \/ (\E e \in Device : fault[e])

\* APP_ERROR_CHECK(err_code) after a send (service_server.c:209): the send is not
\* refused for any reason but the one that is excused.
NoFault == \A d \in Device : ~fault[d]

=============================================================================
