-------------------------------- MODULE WaComm ------------------------------
(***************************************************************************)
(* The way of the messages between a client and the diags: the websocket   *)
(* thread with its one connection (agent/core/comm/wa_comm_ws.c), CommTask *)
(* (wa_comm.c) and AgentTask (wa_init.c); and the main thread, which waits *)
(* for them to call WA_MAIN_Quit and then stops them one after the other   *)
(* (wa_main.c, WA_COMM_Exit, WA_INIT_Exit).  The diags stay outside: they  *)
(* take calls from their queue and send what they like to the callers (see *)
(* WaDiag).                                                                *)
(*                                                                         *)
(* CommTask holds commAdapterConnections.mutex from the lookup of the      *)
(* connection to the end of the callback, the condition variable of the    *)
(* connection guards the buffer there is for one outgoing message.         *)
(***************************************************************************)
EXTENDS Naturals, Sequences

CONSTANTS MaxConns,    \* bound: connections made
          InitQDeep, DiagQDeep, CommQDeep,   \* WA_INIT_, _DIAG_, _COMM_INCOME_Q_DEEP
          Data,        \* what a diag can send
          MayFail,     \* malloc, ids, the list pool or cond. variables may run out
          None         \* NULL, also the message of size 0 that stops a task

ASSUME ConstAssumption ==
    /\ MaxConns \in Nat
    /\ InitQDeep \in Nat \ {0} /\ DiagQDeep \in Nat \ {0} /\ CommQDeep \in Nat \ {0}
    /\ MayFail \in BOOLEAN

Conns == 1..MaxConns
Requests == [kind : {"call", "exit"}, conn : Conns]
Answers == [kind : {"answer"}, conn : Conns, data : Data]
Errors == [kind : {"error"}, conn : Conns]    \* of RpcValidate

ASSUME NoneAssumption == None \notin Requests \cup Answers \cup Errors

VARIABLES
    initQ, diagQ, commQ, \* WA_INIT_, WA_DIAG_ and WA_COMM_IncomingQ
    conn, wsi,           \* connections made so far, and what the last one is now
    peer,                \* whether its client is still there
    valid, tx, rest,     \* pConnection->valid, ->txMsg, and whether part of it is written
    rxMsgLeft,           \* the rest of this message is to come
    half,                \* message of which the client has a part
    alive, reg,          \* connections with a conVarSend, those registered
    hpc, lws,            \* step of LwsCallback, and whether its thread runs
    cpc, cmsg, ref,      \* CommTask: its step and message, whose json is not freed
    apc, commUp,         \* AgentTask runs; the queue and mutex of COMM exist
    asked,               \* connections the diags have calls from
    quit, mpc,           \* quitState, and the step of the main thread
    last                 \* the answer delivered last (history)

queues == <<initQ, diagQ, commQ>>
wvars == <<conn, wsi, peer, valid, tx, rest, rxMsgLeft, half, alive, reg>>
hvars == <<hpc, lws>>
cvars == <<cpc, cmsg, ref>>
avars == <<apc, commUp, asked>>
main == <<quit, mpc>>
vars == <<queues, wvars, hvars, cvars, avars, main, last>>

Init ==
    /\ initQ = <<>> /\ diagQ = <<>> /\ commQ = <<>>
    /\ conn = 0 /\ wsi = "none" /\ peer = "gone"
    /\ valid = FALSE /\ tx = None /\ rest = FALSE /\ rxMsgLeft = FALSE /\ half = None
    /\ alive = {} /\ reg = {}
    /\ hpc = "none" /\ lws = "run"
    /\ cpc = "receive" /\ cmsg = None /\ ref = FALSE
    /\ apc = "run" /\ commUp = TRUE /\ asked = {}
    /\ quit = "starting" /\ mpc = "started"
    /\ last = None

\* WA_MAIN_Quit
Quit(q) ==
    /\ quit' = IF q THEN "quit" ELSE "prevent"
    /\ mpc' = IF mpc \in {"timed", "wait"} THEN "loop" ELSE mpc

-----------------------------------------------------------------------------
(* LwsCallback.  The thread handles one event at a time; WA_COMM_WS_Exit   *)
(* stops it, and lws_context_destroy then runs the callbacks for the end   *)
(* of the connection.                                                      *)

TaskRun == mpc \in {"started", "timed", "timedout", "loop", "wait"}
Event == hpc = "none" /\ lws = "run" /\ TaskRun

\* LWS_CALLBACK_WSI_CREATE; FILTER_NETWORK_CONNECTION has none but the first through.
WsiCreate ==
    /\ Event /\ wsi = "none" /\ conn < MaxConns
    /\ conn' = conn + 1 /\ wsi' = "created" /\ peer' = "up"
    /\ Quit(FALSE)
    /\ UNCHANGED <<queues, valid, tx, rest, rxMsgLeft, half, alive, reg, hvars, cvars,
                   avars, last>>

\* LWS_CALLBACK_ESTABLISHED, up to the mutex in WA_COMM_Register.
Established ==
    /\ Event /\ wsi = "created"
    /\ valid' = FALSE /\ tx' = None /\ rest' = FALSE /\ rxMsgLeft' = FALSE
    /\ \/ alive' = alive \cup {conn} /\ hpc' = "register" /\ UNCHANGED wsi
       \/ MayFail /\ wsi' = "failed" /\ UNCHANGED <<alive, hpc>>
    /\ UNCHANGED <<queues, conn, peer, half, reg, lws, cvars, avars, main, last>>

MutexFree == cpc \in {"receive", "ended"}

Register ==
    /\ hpc = "register" /\ hpc' = "none"
    /\ MutexFree
    /\ \/ reg' = reg \cup {conn} /\ valid' = TRUE /\ wsi' = "open" /\ UNCHANGED alive
       \/ MayFail /\ alive' = alive \ {conn} /\ wsi' = "failed" /\ UNCHANGED <<reg, valid>>
    /\ UNCHANGED <<queues, conn, peer, tx, rest, rxMsgLeft, half, lws, cvars, avars,
                   main, last>>

\* LWS_CALLBACK_RECEIVE of (a part of) a message.  WA_COMM_SendTxt: a request goes to
\* AgentTask, what is none is answered with an error; a queue that stays full loses it.
\* The first part of a message that does not fit into the buffer is taken for all.
Receive(m) ==
    /\ Event /\ wsi = "open" /\ m.conn = conn
    /\ IF rxMsgLeft THEN UNCHANGED queues
       ELSE \/ /\ m \in Requests /\ Len(initQ) < InitQDeep
               /\ initQ' = Append(initQ, m) /\ UNCHANGED <<diagQ, commQ>>
            \/ /\ m \in Errors /\ Len(commQ) < CommQDeep
               /\ commQ' = Append(commQ, m) /\ UNCHANGED <<initQ, diagQ>>
            \/ /\ \/ MayFail
                  \/ m \in Requests /\ Len(initQ) = InitQDeep
                  \/ m \in Errors /\ Len(commQ) = CommQDeep
               /\ UNCHANGED queues
    /\ rxMsgLeft' \in BOOLEAN
    /\ UNCHANGED <<conn, wsi, peer, valid, tx, rest, half, alive, reg, hvars, cvars,
                   avars, main, last>>

\* LWS_CALLBACK_SERVER_WRITEABLE: txMsg is looked at without a lock.
Writeable ==
    /\ Event /\ wsi = "open" /\ valid /\ tx # None

\* lws_write takes part of the message.
WritePart ==
    /\ Writeable /\ ~rest
    /\ rest' = TRUE
    /\ half' = IF peer = "up" THEN tx ELSE None
    /\ UNCHANGED <<queues, conn, wsi, peer, valid, tx, rxMsgLeft, alive, reg, hvars,
                   cvars, avars, main, last>>

\* Mutant: txMsg is not reset.
WriteAllKeeps ==
    /\ Writeable
    /\ half' = None
    /\ last' = IF peer = "up" /\ tx \in Answers THEN tx ELSE last
    /\ UNCHANGED <<queues, conn, wsi, peer, valid, tx, rest, rxMsgLeft, alive, reg, hvars,
                   cvars, avars, main>>

\* It takes the (rest of the) message, or fails because the client is gone.
WriteAll ==
    /\ Writeable
    /\ hpc' = "written"
    /\ half' = None
    /\ last' = IF peer = "up" /\ tx \in Answers THEN tx ELSE last
    /\ UNCHANGED <<queues, conn, wsi, peer, valid, tx, rest, rxMsgLeft, alive, reg, lws,
                   cvars, avars, main>>

\* With the lock: the buffer is freed, CommTask told.
Written ==
    /\ hpc = "written" /\ hpc' = "none"
    /\ tx' = None /\ rest' = FALSE
    /\ UNCHANGED <<queues, conn, wsi, peer, valid, rxMsgLeft, half, alive, reg, lws,
                   cvars, avars, main, last>>

\* The client goes away, which the thread learns later.
ClientGoes ==
    /\ peer = "up" /\ peer' = "gone" /\ half' = None
    /\ UNCHANGED <<queues, conn, wsi, valid, tx, rest, rxMsgLeft, alive, reg, hvars,
                   cvars, avars, main, last>>

\* The connection ends: the client is gone, ESTABLISHED has failed, or the main thread
\* destroys the context.
Ends ==
    /\ hpc = "none"
    /\ \/ lws = "run" /\ TaskRun /\ (peer = "gone" \/ wsi = "failed")
       \/ mpc = "context"

\* LWS_CALLBACK_CLOSED: the buffer is freed (and txMsg left as it is), CommTask told.
Close ==
    /\ Ends /\ wsi = "open"
    /\ valid' = FALSE
    /\ hpc' = "unregister"
    /\ peer' = "gone" /\ half' = None
    /\ UNCHANGED <<queues, conn, wsi, tx, rest, rxMsgLeft, alive, reg, lws, cvars, avars,
                   main, last>>

\* It does nothing when ESTABLISHED has failed, and is not called before that.
CloseInvalid ==
    /\ Ends /\ wsi \in {"created", "failed"}
    /\ hpc' = "destroy"
    /\ peer' = "gone" /\ half' = None
    /\ IF wsi = "failed" THEN Quit(TRUE) ELSE UNCHANGED main
    /\ UNCHANGED <<queues, conn, wsi, valid, tx, rest, rxMsgLeft, alive, reg, lws, cvars,
                   avars, last>>

\* Mutant: WA_COMM_Unregister does not take the mutex.
UnregisterUnlocked ==
    /\ hpc = "unregister" /\ hpc' = "conddestroy"
    /\ reg' = reg \ {conn}
    /\ UNCHANGED <<queues, conn, wsi, peer, valid, tx, rest, rxMsgLeft, half, alive, lws,
                   cvars, avars, main, last>>

\* WA_COMM_Unregister waits for CommTask to leave the callback.
Unregister ==
    /\ hpc = "unregister" /\ hpc' = "conddestroy"
    /\ MutexFree
    /\ reg' = reg \ {conn}
    /\ UNCHANGED <<queues, conn, wsi, peer, valid, tx, rest, rxMsgLeft, half, alive, lws,
                   cvars, avars, main, last>>

\* Mutant: the break of one of the error branches is taken.
CondDestroyNot ==
    /\ hpc = "conddestroy" /\ hpc' = "destroy"
    /\ Quit(TRUE)
    /\ UNCHANGED <<queues, wvars, lws, cvars, avars, last>>

CondDestroy ==
    /\ hpc = "conddestroy" /\ hpc' = "destroy"
    /\ alive' = alive \ {conn}
    /\ Quit(TRUE)
    /\ UNCHANGED <<queues, conn, wsi, peer, valid, tx, rest, rxMsgLeft, half, reg, lws,
                   cvars, avars, last>>

\* LWS_CALLBACK_WSI_DESTROY
WsiDestroy ==
    /\ hpc = "destroy" /\ hpc' = "none"
    /\ wsi' = "none"
    /\ Quit(TRUE)
    /\ UNCHANGED <<queues, conn, peer, valid, tx, rest, rxMsgLeft, half, alive, reg, lws,
                   cvars, avars, last>>

\* CommWsTask returns.
LwsEnds ==
    /\ hpc = "none" /\ lws = "run" /\ ~TaskRun
    /\ lws' = "ended"
    /\ UNCHANGED <<queues, wvars, hpc, cvars, avars, main, last>>

-----------------------------------------------------------------------------
(* CommTask.                                                               *)

CommReceive ==
    /\ cpc = "receive" /\ commQ # <<>>
    /\ commQ' = Tail(commQ)
    /\ UNCHANGED <<initQ, diagQ, wvars, hvars, avars, main, last>>

CommEmpty ==
    /\ CommReceive /\ Head(commQ) = None
    /\ cpc' = "ended"
    /\ UNCHANGED <<cmsg, ref>>

\* The connection is looked up, and the mutex kept while its callback runs; if there is
\* none the json is discarded.
CommLookup ==
    /\ CommReceive /\ Head(commQ) # None
    /\ IF Head(commQ).conn \in reg
       THEN cpc' = "callback" /\ cmsg' = Head(commQ) /\ ref' = TRUE
       ELSE UNCHANGED <<cpc, cmsg, ref>>

\* The end of WA_COMM_WS_Callback, which always calls json_decref.
Return(status) ==
    /\ cpc' = IF status = 0 THEN "receive" ELSE "discard"
    /\ cmsg' = None /\ ref' = FALSE
    /\ UNCHANGED <<queues, conn, wsi, peer, valid, rxMsgLeft, half, alive, reg, hvars,
                   avars, main, last>>

\* Mutant: a message in the buffer is not waited for.
PutAnyway ==
    /\ valid
    /\ tx' = cmsg /\ rest' = FALSE
    /\ Return(0)

\* The message is put into the buffer.
Put ==
    /\ valid /\ tx = None
    /\ tx' = cmsg /\ rest' = FALSE
    /\ Return(0)

CallbackPut == cpc = "callback" /\ Put

CallbackFails ==
    /\ cpc = "callback"
    /\ ~valid \/ MayFail
    /\ Return(1)
    /\ UNCHANGED <<tx, rest>>

CallbackWait ==
    /\ cpc = "callback" /\ cpc' = "wait"
    /\ valid /\ tx # None
    /\ UNCHANGED <<queues, wvars, hvars, cmsg, ref, avars, main, last>>

\* Signalled by Written.
WakePut == cpc = "wait" /\ Put

\* Mutant: WA_OSA_CondWait in place of WA_OSA_CondTimedWait.
WakeFailsOnClose ==
    /\ cpc = "wait"
    /\ ~valid
    /\ Return(1)
    /\ UNCHANGED <<tx, rest>>

\* The connection is closed, or txTimeout is over: the message is given up.
WakeFails ==
    /\ cpc = "wait"
    /\ Return(1)
    /\ UNCHANGED <<tx, rest>>

\* json_decref by CommTask, when the callback has failed; the mutex is released.
Discard ==
    /\ cpc = "discard" /\ cpc' = "receive"
    /\ ref' = FALSE
    /\ UNCHANGED <<queues, wvars, hvars, cmsg, avars, main, last>>

-----------------------------------------------------------------------------
(* AgentTask, and the diags.                                               *)

AgentReceive ==
    /\ apc = "run" /\ initQ # <<>>
    /\ initQ' = Tail(initQ)
    /\ UNCHANGED <<wvars, hvars, cvars, commUp, asked, last>>

AgentEmpty ==
    /\ AgentReceive /\ Head(initQ) = None
    /\ apc' = "ended"
    /\ UNCHANGED <<diagQ, commQ, main>>

AgentExit ==
    /\ AgentReceive /\ Head(initQ) # None
    /\ Head(initQ).kind = "exit"
    /\ Quit(TRUE)
    /\ UNCHANGED <<diagQ, commQ, apc>>

\* A call for the diags.
AgentCall ==
    /\ AgentReceive /\ Head(initQ) # None
    /\ Head(initQ).kind = "call"
    /\ IF Len(diagQ) < DiagQDeep THEN diagQ' = Append(diagQ, Head(initQ))
                                 ELSE UNCHANGED diagQ
    /\ UNCHANGED <<commQ, apc, main>>

\* Mutant: the queue of CommTask has no limit.
AgentAnswerUnbounded ==
    /\ AgentReceive /\ Head(initQ) # None
    /\ Head(initQ).kind = "answer"
    /\ IF commUp THEN commQ' = Append(commQ, Head(initQ)) ELSE UNCHANGED commQ
    /\ UNCHANGED <<diagQ, apc, main>>

\* An answer from one; it is lost when CommTask's queue stays full or is closed.
AgentAnswer ==
    /\ AgentReceive /\ Head(initQ) # None
    /\ Head(initQ).kind = "answer"
    /\ IF commUp /\ Len(commQ) < CommQDeep THEN commQ' = Append(commQ, Head(initQ))
                                           ELSE UNCHANGED commQ
    /\ UNCHANGED <<diagQ, apc, main>>

\* DiagTask takes a call.
DiagTakes ==
    /\ diagQ # <<>>
    /\ diagQ' = Tail(diagQ)
    /\ asked' = asked \cup {Head(diagQ).conn}
    /\ UNCHANGED <<initQ, commQ, wvars, hvars, cvars, apc, commUp, main, last>>

\* DiagTask or an instance sends something, which is lost when the queue stays full.
DiagSends(a) ==
    /\ a.conn \in asked
    /\ Len(initQ) < InitQDeep
    /\ initQ' = Append(initQ, a)
    /\ UNCHANGED <<diagQ, commQ, wvars, hvars, cvars, avars, main, last>>

-----------------------------------------------------------------------------
(* The main thread.                                                        *)

MainStep(from, to) ==
    /\ mpc = from /\ mpc' = to
    /\ UNCHANGED <<wvars, hvars, cvars, asked, last>>

\* Mutant: quitState is not looked at before the wait.
MainStartWaits ==
    /\ MainStep("started", "timed") \/ MainStep("started", "wait")
    /\ UNCHANGED <<queues, apc, commUp, quit>>

\* WA_OSA_CondLock; the wait for the first connection, unless it is disabled.
MainStart ==
    /\ \/ quit = "starting" /\ MainStep("started", "timed")
       \/ MainStep("started", "loop")
    /\ UNCHANGED <<queues, apc, commUp, quit>>

\* WA_OSA_CondTimedWait ends with a timeout ...
MainTimeout ==
    /\ MainStep("timed", "timedout")
    /\ UNCHANGED <<queues, apc, commUp, quit>>

\* ... and gets the lock back, when a client may have come.
MainNoConnection ==
    /\ MainStep("timedout", "loop")
    /\ quit' = "quit"
    /\ UNCHANGED <<queues, apc, commUp>>

MainWait ==
    /\ quit # "quit" /\ MainStep("loop", "wait")
    /\ UNCHANGED <<queues, apc, commUp, quit>>

\* WA_INIT_Exit, WA_COMM_Exit and WA_COMM_WS_Exit: taskRun = false.
MainLeave ==
    /\ quit = "quit" /\ MainStep("loop", "exit")
    /\ UNCHANGED <<queues, apc, commUp, quit>>

\* The thread is joined, the context destroyed.
MainContext ==
    /\ lws = "ended" /\ MainStep("exit", "context")
    /\ UNCHANGED <<queues, apc, commUp, quit>>

\* WA_OSA_QSend blocks while the queue is full.
MainStopComm ==
    /\ wsi = "none" /\ hpc = "none" /\ Len(commQ) < CommQDeep
    /\ MainStep("context", "joinComm")
    /\ commQ' = Append(commQ, None)
    /\ UNCHANGED <<initQ, diagQ, apc, commUp, quit>>

\* The queue is closed (what is in it stays there), the mutex destroyed.
MainJoinComm ==
    /\ cpc = "ended" /\ MainStep("joinComm", "stopAgent")
    /\ commUp' = FALSE
    /\ UNCHANGED <<queues, apc, quit>>

\* Mutant: AgentTask is signalled, but not sent the empty message.
MainStopAgentNot ==
    /\ MainStep("stopAgent", "joinAgent")
    /\ UNCHANGED <<queues, apc, commUp, quit>>

MainStopAgent ==
    /\ Len(initQ) < InitQDeep /\ MainStep("stopAgent", "joinAgent")
    /\ initQ' = Append(initQ, None)
    /\ UNCHANGED <<diagQ, commQ, apc, commUp, quit>>

\* WA_AGG_Exit and WA_DIAG_Exit follow, see WaDiag.
MainJoinAgent ==
    /\ apc = "ended" /\ MainStep("joinAgent", "done")
    /\ UNCHANGED <<queues, apc, commUp, quit>>

-----------------------------------------------------------------------------
\* What the threads do once they have something to do.
LwsCallback == Register \/ Written \/ Unregister \/ CondDestroy \/ WsiDestroy \/ LwsEnds
CommTask ==
    CommEmpty \/ CommLookup \/ CallbackPut \/ CallbackFails \/ CallbackWait
    \/ WakePut \/ WakeFails \/ Discard
AgentTask == AgentEmpty \/ AgentExit \/ AgentCall \/ AgentAnswer
MainTask ==
    MainStart \/ MainTimeout \/ MainNoConnection \/ MainWait \/ MainLeave \/ MainContext
    \/ (mpc = "context" /\ (Close \/ CloseInvalid))
    \/ MainStopComm \/ MainJoinComm \/ MainStopAgent \/ MainJoinAgent

\* What depends on the client and on lws.
Client ==
    \/ WsiCreate \/ Established \/ ClientGoes \/ Close \/ CloseInvalid
    \/ WritePart \/ WriteAll
    \/ \E m \in Requests \cup Errors : Receive(m)

Diags == DiagTakes \/ \E a \in Answers : DiagSends(a)

Next == LwsCallback \/ CommTask \/ AgentTask \/ MainTask \/ Client \/ Diags

Spec == Init /\ [][Next]_vars

\* Threads run.  Clients and diags are free, but what the diags send comes in bursts and
\* not for ever: nobody is kept off a mutex or a queue by others that use it again and
\* again, hence the strong fairness for the threads that wait for either.
Fairness ==
    /\ SF_vars(LwsCallback)
    /\ WF_vars(CommTask)
    /\ WF_vars(AgentTask)
    /\ SF_vars(MainTask)

FairSpec == Spec /\ Fairness

-----------------------------------------------------------------------------
(* Properties.                                                             *)

TypeOK ==
    /\ initQ \in Seq(Requests \cup Answers \cup {None}) /\ Len(initQ) <= InitQDeep
    /\ diagQ \in Seq(Requests) /\ Len(diagQ) <= DiagQDeep
    /\ commQ \in Seq(Answers \cup Errors \cup {None}) /\ Len(commQ) <= CommQDeep
    /\ conn \in 0..MaxConns /\ wsi \in {"none", "created", "open", "failed"}
    /\ peer \in {"up", "gone"}
    /\ valid \in BOOLEAN /\ tx \in Answers \cup Errors \cup {None} /\ rest \in BOOLEAN
    /\ rxMsgLeft \in BOOLEAN /\ half \in Answers \cup Errors \cup {None}
    /\ alive \subseteq Conns /\ reg \subseteq Conns
    /\ hpc \in {"none", "register", "written", "unregister", "conddestroy", "destroy"}
    /\ lws \in {"run", "ended"}
    /\ cpc \in {"receive", "callback", "wait", "discard", "ended"}
    /\ cmsg \in Answers \cup Errors \cup {None} /\ ref \in BOOLEAN
    /\ apc \in {"run", "ended"} /\ commUp \in BOOLEAN /\ asked \subseteq Conns
    /\ quit \in {"starting", "prevent", "quit"}
    /\ mpc \in {"started", "timed", "timedout", "loop", "wait", "exit", "context",
                "joinComm", "stopAgent", "joinAgent", "done"}
    /\ last \in Answers \cup {None}

\* While CommTask is in the callback of a connection, its condition variable and the
\* structure around it exist: CLOSED takes them away only after WA_COMM_Unregister has
\* had the mutex (wa_comm_ws.c:473-485, wa_comm.c:537-573), in whichever thread it runs.
NoUseAfterClose ==
    cpc \in {"callback", "wait"} => cmsg.conn \in alive /\ cmsg.conn = conn /\ wsi = "open"

\* Whatever fails when a connection is made, and whichever thread ends it, nothing of it
\* is left once it is gone: neither the condition variable nor the registration.
NothingLeftBehind == wsi = "none" => alive = {} /\ reg = {}

\* A message of which the client has a part is still the one in the buffer, which
\* WRITEABLE reads without the lock: messages are never mixed.
WholeMessages == half # None => valid /\ tx = half /\ rest

\* The answers in a queue, in its order.
AnswersIn(q) ==
    LET upTo[n \in 0..Len(q)] ==
            IF n = 0 THEN <<>>
            ELSE IF q[n] \in Answers THEN Append(upTo[n - 1], q[n]) ELSE upTo[n - 1]
    IN upTo[Len(q)]

\* The answer in the buffer that is not written yet, and the one CommTask is about to put there.
InBuffer == IF valid /\ tx \in Answers /\ hpc # "written" THEN <<tx>> ELSE <<>>
InCallback == IF cpc \in {"callback", "wait"} /\ cmsg \in Answers THEN <<cmsg>> ELSE <<>>

Channel ==
    INSTANCE ClientChannel
        WITH transit <- InBuffer \o InCallback \o AnswersIn(commQ) \o AnswersIn(initQ),
             open <- IF valid THEN conn ELSE 0

\* From the diag to the client the messages are in order, and none comes twice or over
\* another connection.
LossyButInOrder == Channel!Spec

\* CommTask always comes back for the next message and gives up the mutex, whatever the
\* client does: it may have stopped reading for good.
CommTaskReturns == cpc \in {"callback", "wait"} ~> cpc = "receive"

\* The wake-up call of WA_MAIN_Quit(true) is not missed, wherever the main thread is at
\* that moment, unless a client comes that wants the agent to stay.
QuitHeeded == quit = "quit" ~> ~TaskRun \/ quit = "prevent"

\* Once it is leaving, the agent gets as far as the end of AgentTask: no thread waits
\* for the other one's lock or queue for ever.
ExitCompletes == mpc = "exit" ~> mpc = "done"

\* "In case of error it must not do this" (wa_comm.h:72): when a callback fails the json
\* is left to CommTask, which frees it.
JsonFreedOnce == cpc = "discard" => ref
=============================================================================
