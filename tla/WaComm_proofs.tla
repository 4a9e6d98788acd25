---------------------------- MODULE WaComm_proofs ---------------------------
(***************************************************************************)
(* What WaComm guarantees for any number of connections, any depth of the  *)
(* queues and whatever the diags send.                                     *)
(***************************************************************************)
EXTENDS WaComm, SequencesExt, SequenceTheorems, WellFoundedInduction, TLAPS

-----------------------------------------------------------------------------
(* Queues.                                                                 *)

\* A message appended to a queue that is not full leaves a queue that is not too long.
LEMMA AppendType ==
    ASSUME NEW S, NEW q \in Seq(S), NEW e \in S, NEW n \in Nat, Len(q) < n
    PROVE  /\ Append(q, e) \in Seq(S)
           /\ Len(Append(q, e)) <= n
BY AppendProperties, LenProperties

\* The rest of a queue is a queue, and its head is one of its messages.
LEMMA TailType ==
    ASSUME NEW S, NEW q \in Seq(S), NEW n \in Nat, Len(q) <= n, q # <<>>
    PROVE  /\ Tail(q) \in Seq(S)
           /\ Len(Tail(q)) <= n
           /\ Head(q) \in S
BY HeadTailProperties, LenProperties

\* The messages of AgentTask are told apart by their kind.
LEMMA Kinds ==
    ASSUME NEW m \in Requests \cup Answers
    PROVE  /\ m.kind = "call" => m \in Requests
           /\ m.kind = "answer" => m \in Answers
BY DEF Requests, Answers

-----------------------------------------------------------------------------
(* Types: the queues, the flags, and the rest.                             *)

QueueType ==
    /\ initQ \in Seq(Requests \cup Answers \cup {None}) /\ Len(initQ) <= InitQDeep
    /\ diagQ \in Seq(Requests) /\ Len(diagQ) <= DiagQDeep
    /\ commQ \in Seq(Answers \cup Errors \cup {None}) /\ Len(commQ) <= CommQDeep

FlagType ==
    /\ valid \in BOOLEAN /\ rest \in BOOLEAN /\ rxMsgLeft \in BOOLEAN
    /\ ref \in BOOLEAN /\ commUp \in BOOLEAN

StateType ==
    /\ conn \in 0..MaxConns /\ wsi \in {"none", "created", "open", "failed"}
    /\ peer \in {"up", "gone"}
    /\ tx \in Answers \cup Errors \cup {None} /\ half \in Answers \cup Errors \cup {None}
    /\ alive \subseteq Conns /\ reg \subseteq Conns
    /\ hpc \in {"none", "register", "written", "unregister", "conddestroy", "destroy"}
    /\ lws \in {"run", "ended"}
    /\ cpc \in {"receive", "callback", "wait", "discard", "ended"}
    /\ cmsg \in Answers \cup Errors \cup {None}
    /\ apc \in {"run", "ended"} /\ asked \subseteq Conns
    /\ quit \in {"starting", "prevent", "quit"}
    /\ mpc \in {"started", "timed", "timedout", "loop", "wait", "exit", "context",
                "joinComm", "stopAgent", "joinAgent", "done"}
    /\ last \in Answers \cup {None}

LEMMA TypeParts == TypeOK <=> QueueType /\ FlagType /\ StateType
BY DEF TypeOK, QueueType, FlagType, StateType

-----------------------------------------------------------------------------
(* The connection: what makes the invariants inductive.                    *)

\* Where the callback may be for each state of the connection.
WsiInv ==
    /\ wsi = "none" => hpc = "none"
    /\ wsi = "created" => hpc \in {"none", "register", "destroy"}
    /\ wsi = "open" => hpc # "register"
    /\ wsi = "failed" => hpc \in {"none", "destroy"}
    /\ wsi # "none" => conn \in Conns

\* What the connection holds follows from where the callback is.
HasCond == (wsi = "created" /\ hpc = "register") \/ (wsi = "open" /\ hpc # "destroy")
IsRegistered == wsi = "open" /\ hpc \in {"none", "written", "unregister"}
HeldInv ==
    /\ alive = IF HasCond THEN {conn} ELSE {}
    /\ reg = IF IsRegistered THEN {conn} ELSE {}
ValidInv == valid <=> wsi = "open" /\ hpc \in {"none", "written"}

\* Nobody takes the registration away from under CommTask.
CallbackInv == cpc \in {"callback", "wait"} => cmsg.conn \in reg

\* While a message is half written the buffer is left alone.
PartInv == half # None => valid /\ tx = half /\ rest /\ hpc # "written"

LinkInv == WsiInv /\ HeldInv /\ ValidInv /\ CallbackInv /\ PartInv

link == <<conn, wsi, hpc, valid, tx, rest, half, alive, reg, cpc, cmsg>>

LEMMA TypeInit == Init => QueueType /\ FlagType /\ StateType
<1> SUFFICES ASSUME Init PROVE QueueType /\ FlagType /\ StateType
  OBVIOUS
<1>1. QueueType
  BY ConstAssumption, EmptySeq DEF Init, QueueType
<1>2. FlagType
  BY DEF Init, FlagType
<1>3. StateType
  BY ConstAssumption DEF Init, StateType
<1> QED
  BY <1>1, <1>2, <1>3

\* A step that leaves the queues alone leaves their type.
LEMMA QueuesStay == QueueType /\ UNCHANGED queues => QueueType'
BY DEF QueueType, queues

-----------------------------------------------------------------------------
(* The flags.                                                              *)

LEMMA FlagLws == FlagType /\ LwsCallback => FlagType'
<1> SUFFICES ASSUME FlagType, LwsCallback PROVE FlagType'
  OBVIOUS
<1> USE DEF FlagType, wvars, cvars, avars
<1>1. CASE Register
  BY <1>1 DEF Register
<1>2. CASE Written
  BY <1>2 DEF Written
<1>3. CASE Unregister
  BY <1>3 DEF Unregister
<1>4. CASE CondDestroy
  BY <1>4 DEF CondDestroy
<1>5. CASE WsiDestroy
  BY <1>5 DEF WsiDestroy
<1>6. CASE LwsEnds
  BY <1>6 DEF LwsEnds
<1> QED
  BY <1>1, <1>2, <1>3, <1>4, <1>5, <1>6 DEF LwsCallback

LEMMA FlagComm == FlagType /\ CommTask => FlagType'
<1> SUFFICES ASSUME FlagType, CommTask PROVE FlagType'
  OBVIOUS
<1> USE DEF FlagType, wvars, cvars, avars
<1>1. CASE CommEmpty
  BY <1>1 DEF CommEmpty, CommReceive
<1>2. CASE CommLookup
  BY <1>2 DEF CommLookup, CommReceive
<1>3. CASE CallbackPut
  BY <1>3 DEF CallbackPut, Put, Return
<1>4. CASE CallbackFails
  BY <1>4 DEF CallbackFails, Return
<1>5. CASE CallbackWait
  BY <1>5 DEF CallbackWait
<1>6. CASE WakePut
  BY <1>6 DEF WakePut, Put, Return
<1>7. CASE WakeFails
  BY <1>7 DEF WakeFails, Return
<1>8. CASE Discard
  BY <1>8 DEF Discard
<1> QED
  BY <1>1, <1>2, <1>3, <1>4, <1>5, <1>6, <1>7, <1>8 DEF CommTask

LEMMA FlagAgent == FlagType /\ AgentTask => FlagType'
<1> SUFFICES ASSUME FlagType, AgentTask PROVE FlagType'
  OBVIOUS
<1> USE DEF FlagType, wvars, cvars, avars
<1>1. CASE AgentEmpty
  BY <1>1 DEF AgentEmpty, AgentReceive
<1>2. CASE AgentExit
  BY <1>2 DEF AgentExit, AgentReceive
<1>3. CASE AgentCall
  BY <1>3 DEF AgentCall, AgentReceive
<1>4. CASE AgentAnswer
  BY <1>4 DEF AgentAnswer, AgentReceive
<1> QED
  BY <1>1, <1>2, <1>3, <1>4 DEF AgentTask

LEMMA FlagMain == FlagType /\ MainTask => FlagType'
<1> SUFFICES ASSUME FlagType, MainTask PROVE FlagType'
  OBVIOUS
<1> USE DEF FlagType, wvars, cvars, avars
<1>1. CASE MainStart
  BY <1>1 DEF MainStart, MainStep
<1>2. CASE MainTimeout
  BY <1>2 DEF MainTimeout, MainStep
<1>3. CASE MainNoConnection
  BY <1>3 DEF MainNoConnection, MainStep
<1>4. CASE MainWait
  BY <1>4 DEF MainWait, MainStep
<1>5. CASE MainLeave
  BY <1>5 DEF MainLeave, MainStep
<1>6. CASE MainContext
  BY <1>6 DEF MainContext, MainStep
<1>7. CASE Close
  BY <1>7 DEF Close
<1>8. CASE CloseInvalid
  BY <1>8 DEF CloseInvalid
<1>9. CASE MainStopComm
  BY <1>9 DEF MainStopComm, MainStep
<1>10. CASE MainJoinComm
  BY <1>10 DEF MainJoinComm, MainStep
<1>11. CASE MainStopAgent
  BY <1>11 DEF MainStopAgent, MainStep
<1>12. CASE MainJoinAgent
  BY <1>12 DEF MainJoinAgent, MainStep
<1> QED
  BY <1>1, <1>2, <1>3, <1>4, <1>5, <1>6, <1>7, <1>8, <1>9, <1>10, <1>11, <1>12
     DEF MainTask

LEMMA FlagClient == FlagType /\ Client => FlagType'
<1> SUFFICES ASSUME FlagType, Client PROVE FlagType'
  OBVIOUS
<1> USE DEF FlagType, wvars, cvars, avars
<1>1. CASE WsiCreate
  BY <1>1 DEF WsiCreate
<1>2. CASE Established
  BY <1>2 DEF Established
<1>3. CASE ClientGoes
  BY <1>3 DEF ClientGoes
<1>4. CASE Close
  BY <1>4 DEF Close
<1>5. CASE CloseInvalid
  BY <1>5 DEF CloseInvalid
<1>6. CASE WritePart
  BY <1>6 DEF WritePart, Writeable
<1>7. CASE WriteAll
  BY <1>7 DEF WriteAll, Writeable
<1>8. ASSUME NEW m \in Requests \cup Errors, Receive(m) PROVE FlagType'
  BY <1>8 DEF Receive
<1> QED
  BY <1>1, <1>2, <1>3, <1>4, <1>5, <1>6, <1>7, <1>8 DEF Client

LEMMA FlagDiags == FlagType /\ Diags => FlagType'
<1> SUFFICES ASSUME FlagType, Diags PROVE FlagType'
  OBVIOUS
<1> USE DEF FlagType, wvars, cvars, avars
<1>1. CASE DiagTakes
  BY <1>1 DEF DiagTakes
<1>2. ASSUME NEW a \in Answers, DiagSends(a) PROVE FlagType'
  BY <1>2 DEF DiagSends
<1> QED
  BY <1>1, <1>2 DEF Diags

-----------------------------------------------------------------------------
(* The rest of the state.                                                  *)

LEMMA StateLws == QueueType /\ StateType /\ WsiInv /\ LwsCallback => StateType'
<1> SUFFICES ASSUME QueueType, StateType, WsiInv, LwsCallback PROVE StateType'
  OBVIOUS
<1> USE DEF StateType, wvars, hvars, cvars, avars, main, Quit
<1>1. CASE Register
  <2>1. conn \in Conns
    BY <1>1 DEF Register, WsiInv
  <2>2. alive' \subseteq Conns /\ reg' \subseteq Conns
    BY <1>1, <2>1 DEF Register
  <2> QED
    BY <1>1, <2>2 DEF Register
<1>2. CASE Written
  BY <1>2 DEF Written
<1>3. CASE Unregister
  BY <1>3 DEF Unregister
<1>4. CASE CondDestroy
  BY <1>4 DEF CondDestroy
<1>5. CASE WsiDestroy
  BY <1>5 DEF WsiDestroy
<1>6. CASE LwsEnds
  BY <1>6 DEF LwsEnds
<1> QED
  BY <1>1, <1>2, <1>3, <1>4, <1>5, <1>6 DEF LwsCallback

LEMMA StateComm == QueueType /\ StateType /\ CommTask => StateType'
<1> SUFFICES ASSUME QueueType, StateType, CommTask PROVE StateType'
  OBVIOUS
<1> USE DEF StateType, wvars, hvars, cvars, avars, main, Quit
<1>1. CASE CommEmpty
  BY <1>1 DEF CommEmpty, CommReceive
<1>2. CASE CommLookup
  <2>1. Head(commQ) \in Answers \cup Errors
    BY <1>2, TailType, ConstAssumption DEF CommLookup, CommReceive, QueueType
  <2> QED
    BY <1>2, <2>1 DEF CommLookup, CommReceive
<1>3. CASE CallbackPut
  BY <1>3 DEF CallbackPut, Put, Return
<1>4. CASE CallbackFails
  BY <1>4 DEF CallbackFails, Return
<1>5. CASE CallbackWait
  BY <1>5 DEF CallbackWait
<1>6. CASE WakePut
  BY <1>6 DEF WakePut, Put, Return
<1>7. CASE WakeFails
  BY <1>7 DEF WakeFails, Return
<1>8. CASE Discard
  BY <1>8 DEF Discard
<1> QED
  BY <1>1, <1>2, <1>3, <1>4, <1>5, <1>6, <1>7, <1>8 DEF CommTask

LEMMA StateAgent == QueueType /\ StateType /\ AgentTask => StateType'
<1> SUFFICES ASSUME QueueType, StateType, AgentTask PROVE StateType'
  OBVIOUS
<1> USE DEF StateType, wvars, hvars, cvars, avars, main, Quit
<1>1. CASE AgentEmpty
  BY <1>1 DEF AgentEmpty, AgentReceive
<1>2. CASE AgentExit
  BY <1>2 DEF AgentExit, AgentReceive
<1>3. CASE AgentCall
  BY <1>3 DEF AgentCall, AgentReceive
<1>4. CASE AgentAnswer
  BY <1>4 DEF AgentAnswer, AgentReceive
<1> QED
  BY <1>1, <1>2, <1>3, <1>4 DEF AgentTask

LEMMA StateMain == QueueType /\ StateType /\ WsiInv /\ MainTask => StateType'
<1> SUFFICES ASSUME QueueType, StateType, WsiInv, MainTask PROVE StateType'
  OBVIOUS
<1> USE DEF StateType, wvars, hvars, cvars, avars, main, Quit
<1>1. CASE MainStart
  BY <1>1 DEF MainStart, MainStep
<1>2. CASE MainTimeout
  BY <1>2 DEF MainTimeout, MainStep
<1>3. CASE MainNoConnection
  BY <1>3 DEF MainNoConnection, MainStep
<1>4. CASE MainWait
  BY <1>4 DEF MainWait, MainStep
<1>5. CASE MainLeave
  BY <1>5 DEF MainLeave, MainStep
<1>6. CASE MainContext
  BY <1>6 DEF MainContext, MainStep
<1>7. CASE Close
  BY <1>7 DEF Close
<1>8. CASE CloseInvalid
  BY <1>8 DEF CloseInvalid
<1>9. CASE MainStopComm
  BY <1>9 DEF MainStopComm, MainStep
<1>10. CASE MainJoinComm
  BY <1>10 DEF MainJoinComm, MainStep
<1>11. CASE MainStopAgent
  BY <1>11 DEF MainStopAgent, MainStep
<1>12. CASE MainJoinAgent
  BY <1>12 DEF MainJoinAgent, MainStep
<1> QED
  BY <1>1, <1>2, <1>3, <1>4, <1>5, <1>6, <1>7, <1>8, <1>9, <1>10, <1>11, <1>12
     DEF MainTask

LEMMA StateClient == QueueType /\ StateType /\ WsiInv /\ Client => StateType'
<1> SUFFICES ASSUME QueueType, StateType, WsiInv, Client PROVE StateType'
  OBVIOUS
<1> USE DEF StateType, wvars, hvars, cvars, avars, main, Quit
<1>1. CASE WsiCreate
  <2>1. conn' \in 0..MaxConns
    BY <1>1, ConstAssumption DEF WsiCreate
  <2> QED
    BY <1>1, <2>1 DEF WsiCreate
<1>2. CASE Established
  <2>1. conn \in Conns
    BY <1>2 DEF Established, WsiInv
  <2>2. alive' \subseteq Conns
    BY <1>2, <2>1 DEF Established
  <2> QED
    BY <1>2, <2>2 DEF Established
<1>3. CASE ClientGoes
  BY <1>3 DEF ClientGoes
<1>4. CASE Close
  BY <1>4 DEF Close
<1>5. CASE CloseInvalid
  BY <1>5 DEF CloseInvalid
<1>6. CASE WritePart
  BY <1>6 DEF WritePart, Writeable
<1>7. CASE WriteAll
  BY <1>7 DEF WriteAll, Writeable
<1>8. ASSUME NEW m \in Requests \cup Errors, Receive(m) PROVE StateType'
  BY <1>8 DEF Receive
<1> QED
  BY <1>1, <1>2, <1>3, <1>4, <1>5, <1>6, <1>7, <1>8 DEF Client

LEMMA StateDiags == QueueType /\ StateType /\ Diags => StateType'
<1> SUFFICES ASSUME QueueType, StateType, Diags PROVE StateType'
  OBVIOUS
<1> USE DEF StateType, wvars, hvars, cvars, avars, main, Quit
<1>1. CASE DiagTakes
  <2>1. Head(diagQ) \in Requests
    BY <1>1, TailType, ConstAssumption DEF DiagTakes, QueueType
  <2>2. Head(diagQ).conn \in Conns
    BY <2>1 DEF Requests
  <2> QED
    BY <1>1, <2>2 DEF DiagTakes
<1>2. ASSUME NEW a \in Answers, DiagSends(a) PROVE StateType'
  BY <1>2 DEF DiagSends
<1> QED
  BY <1>1, <1>2 DEF Diags

-----------------------------------------------------------------------------
(* The queues.                                                             *)

LEMMA QueueLws == QueueType /\ LwsCallback => QueueType'
<1> SUFFICES ASSUME QueueType, LwsCallback PROVE QueueType'
  OBVIOUS
<1>1. CASE Register
  BY <1>1, QueuesStay DEF Register, queues
<1>2. CASE Written
  BY <1>2, QueuesStay DEF Written, queues
<1>3. CASE Unregister
  BY <1>3, QueuesStay DEF Unregister, queues
<1>4. CASE CondDestroy
  BY <1>4, QueuesStay DEF CondDestroy, queues
<1>5. CASE WsiDestroy
  BY <1>5, QueuesStay DEF WsiDestroy, queues
<1>6. CASE LwsEnds
  BY <1>6, QueuesStay DEF LwsEnds, queues
<1> QED
  BY <1>1, <1>2, <1>3, <1>4, <1>5, <1>6 DEF LwsCallback

LEMMA QueueComm == QueueType /\ CommTask => QueueType'
<1> SUFFICES ASSUME QueueType, CommTask PROVE QueueType'
  OBVIOUS
<1>1. CASE CommEmpty
  BY <1>1, TailType, ConstAssumption DEF CommEmpty, CommReceive, QueueType
<1>2. CASE CommLookup
  BY <1>2, TailType, ConstAssumption DEF CommLookup, CommReceive, QueueType
<1>3. CASE CallbackPut
  BY <1>3, QueuesStay DEF CallbackPut, Put, Return, queues
<1>4. CASE CallbackFails
  BY <1>4, QueuesStay DEF CallbackFails, Return, queues
<1>5. CASE CallbackWait
  BY <1>5, QueuesStay DEF CallbackWait, queues
<1>6. CASE WakePut
  BY <1>6, QueuesStay DEF WakePut, Put, Return, queues
<1>7. CASE WakeFails
  BY <1>7, QueuesStay DEF WakeFails, Return, queues
<1>8. CASE Discard
  BY <1>8, QueuesStay DEF Discard, queues
<1> QED
  BY <1>1, <1>2, <1>3, <1>4, <1>5, <1>6, <1>7, <1>8 DEF CommTask

LEMMA QueueAgent == QueueType /\ AgentTask => QueueType'
<1> SUFFICES ASSUME QueueType, AgentTask PROVE QueueType'
  OBVIOUS
<1>1. CASE AgentEmpty
  BY <1>1, TailType, ConstAssumption DEF AgentEmpty, AgentReceive, QueueType
<1>2. CASE AgentExit
  BY <1>2, TailType, ConstAssumption DEF AgentExit, AgentReceive, QueueType
<1>3. CASE AgentCall
  <2>1. /\ initQ' \in Seq(Requests \cup Answers \cup {None}) /\ Len(initQ') <= InitQDeep
        /\ Head(initQ) \in Requests
    BY <1>3, TailType, Kinds, ConstAssumption DEF AgentCall, AgentReceive, QueueType
  <2>2. diagQ' \in Seq(Requests) /\ Len(diagQ') <= DiagQDeep
    BY <1>3, <2>1, AppendType, ConstAssumption DEF AgentCall, QueueType
  <2> QED
    BY <1>3, <2>1, <2>2 DEF AgentCall, QueueType
<1>4. CASE AgentAnswer
  <2>1. /\ initQ' \in Seq(Requests \cup Answers \cup {None}) /\ Len(initQ') <= InitQDeep
        /\ Head(initQ) \in Answers
    BY <1>4, TailType, Kinds, ConstAssumption DEF AgentAnswer, AgentReceive, QueueType
  <2>2. commQ' \in Seq(Answers \cup Errors \cup {None}) /\ Len(commQ') <= CommQDeep
    BY <1>4, <2>1, AppendType, ConstAssumption DEF AgentAnswer, QueueType
  <2> QED
    BY <1>4, <2>1, <2>2 DEF AgentAnswer, QueueType
<1> QED
  BY <1>1, <1>2, <1>3, <1>4 DEF AgentTask

LEMMA QueueMain == QueueType /\ MainTask => QueueType'
<1> SUFFICES ASSUME QueueType, MainTask PROVE QueueType'
  OBVIOUS
<1>1. CASE MainStart
  BY <1>1, QueuesStay DEF MainStart, MainStep, queues
<1>2. CASE MainTimeout
  BY <1>2, QueuesStay DEF MainTimeout, MainStep, queues
<1>3. CASE MainNoConnection
  BY <1>3, QueuesStay DEF MainNoConnection, MainStep, queues
<1>4. CASE MainWait
  BY <1>4, QueuesStay DEF MainWait, MainStep, queues
<1>5. CASE MainLeave
  BY <1>5, QueuesStay DEF MainLeave, MainStep, queues
<1>6. CASE MainContext
  BY <1>6, QueuesStay DEF MainContext, MainStep, queues
<1>7. CASE Close
  BY <1>7, QueuesStay DEF Close, queues
<1>8. CASE CloseInvalid
  BY <1>8, QueuesStay DEF CloseInvalid, queues
<1>9. CASE MainStopComm
  BY <1>9, AppendType, ConstAssumption DEF MainStopComm, QueueType
<1>10. CASE MainJoinComm
  BY <1>10, QueuesStay DEF MainJoinComm, MainStep, queues
<1>11. CASE MainStopAgent
  BY <1>11, AppendType, ConstAssumption DEF MainStopAgent, QueueType
<1>12. CASE MainJoinAgent
  BY <1>12, QueuesStay DEF MainJoinAgent, MainStep, queues
<1> QED
  BY <1>1, <1>2, <1>3, <1>4, <1>5, <1>6, <1>7, <1>8, <1>9, <1>10, <1>11, <1>12
     DEF MainTask

LEMMA QueueClient == QueueType /\ Client => QueueType'
<1> SUFFICES ASSUME QueueType, Client PROVE QueueType'
  OBVIOUS
<1>1. CASE WsiCreate
  BY <1>1, QueuesStay DEF WsiCreate, queues
<1>2. CASE Established
  BY <1>2, QueuesStay DEF Established, queues
<1>3. CASE ClientGoes
  BY <1>3, QueuesStay DEF ClientGoes, queues
<1>4. CASE Close
  BY <1>4, QueuesStay DEF Close, queues
<1>5. CASE CloseInvalid
  BY <1>5, QueuesStay DEF CloseInvalid, queues
<1>6. CASE WritePart
  BY <1>6, QueuesStay DEF WritePart, Writeable, queues
<1>7. CASE WriteAll
  BY <1>7, QueuesStay DEF WriteAll, Writeable, queues
<1>8. ASSUME NEW m \in Requests \cup Errors, Receive(m) PROVE QueueType'
  <2>1. CASE UNCHANGED queues
    BY <2>1, QueuesStay
  <2>2. CASE /\ m \in Requests /\ Len(initQ) < InitQDeep
             /\ initQ' = Append(initQ, m) /\ UNCHANGED <<diagQ, commQ>>
    BY <2>2, AppendType, ConstAssumption DEF QueueType
  <2>3. CASE /\ m \in Errors /\ Len(commQ) < CommQDeep
             /\ commQ' = Append(commQ, m) /\ UNCHANGED <<initQ, diagQ>>
    BY <2>3, AppendType, ConstAssumption DEF QueueType
  <2> QED
    BY <1>8, <2>1, <2>2, <2>3 DEF Receive
<1> QED
  BY <1>1, <1>2, <1>3, <1>4, <1>5, <1>6, <1>7, <1>8 DEF Client

LEMMA QueueDiags == QueueType /\ Diags => QueueType'
<1> SUFFICES ASSUME QueueType, Diags PROVE QueueType'
  OBVIOUS
<1>1. CASE DiagTakes
  BY <1>1, TailType, ConstAssumption DEF DiagTakes, QueueType
<1>2. ASSUME NEW a \in Answers, DiagSends(a) PROVE QueueType'
  BY <1>2, AppendType, ConstAssumption DEF DiagSends, QueueType
<1> QED
  BY <1>1, <1>2 DEF Diags

-----------------------------------------------------------------------------
(* The connection.                                                         *)

LEMMA LinkInit == Init => LinkInv
BY
   DEF Init, LinkInv, WsiInv, HeldInv, HasCond, IsRegistered, ValidInv, CallbackInv,
       PartInv

\* A step that leaves the connection and CommTask alone.
LEMMA LinkStays == LinkInv /\ UNCHANGED link => LinkInv'
BY
   DEF LinkInv, WsiInv, HeldInv, HasCond, IsRegistered, ValidInv, CallbackInv, PartInv,
       link

LEMMA LinkLws == FlagType /\ StateType /\ LinkInv /\ LwsCallback => LinkInv'
<1> SUFFICES ASSUME FlagType, StateType, LinkInv, LwsCallback PROVE LinkInv'
  OBVIOUS
<1>1. CASE Register
  <2>1. WsiInv'
    BY <1>1 DEF Register, MutexFree, LinkInv, WsiInv
  <2>2. HeldInv'
    <3>1. wsi = "created" /\ conn' = conn /\ hpc' = "none" /\ alive = {conn} /\ reg = {}
      BY <1>1 DEF Register, StateType, LinkInv, WsiInv, HeldInv, HasCond, IsRegistered
    <3>2. \/ reg' = reg \cup {conn} /\ wsi' = "open" /\ alive' = alive
          \/ reg' = reg /\ wsi' = "failed" /\ alive' = alive \ {conn}
      BY <1>1 DEF Register
    <3> QED
      BY <3>1, <3>2 DEF HeldInv, HasCond, IsRegistered
  <2>3. ValidInv'
    BY <1>1 DEF Register, MutexFree, LinkInv, WsiInv, ValidInv, FlagType
  <2>4. CallbackInv'
    BY <1>1
       DEF cvars, Register, MutexFree, LinkInv, WsiInv, HeldInv, IsRegistered,
           CallbackInv
  <2>5. PartInv'
    BY <1>1 DEF Register, MutexFree, LinkInv, WsiInv, ValidInv, PartInv
  <2> QED
    BY <2>1, <2>2, <2>3, <2>4, <2>5 DEF LinkInv
<1>2. CASE Written
  <2>1. WsiInv'
    BY <1>2 DEF Written, LinkInv, WsiInv
  <2>2. HeldInv'
    BY <1>2 DEF Written, LinkInv, WsiInv, HeldInv, HasCond, IsRegistered
  <2>3. ValidInv'
    BY <1>2 DEF Written, LinkInv, WsiInv, ValidInv, FlagType
  <2>4. CallbackInv'
    BY <1>2 DEF cvars, Written, LinkInv, WsiInv, HeldInv, IsRegistered, CallbackInv
  <2>5. PartInv'
    BY <1>2 DEF Written, LinkInv, WsiInv, ValidInv, PartInv
  <2> QED
    BY <2>1, <2>2, <2>3, <2>4, <2>5 DEF LinkInv
<1>3. CASE Unregister
  <2>1. WsiInv'
    BY <1>3 DEF Unregister, MutexFree, LinkInv, WsiInv
  <2>2. HeldInv'
    BY <1>3 DEF Unregister, MutexFree, LinkInv, WsiInv, HeldInv, HasCond, IsRegistered
  <2>3. ValidInv'
    BY <1>3 DEF Unregister, MutexFree, LinkInv, WsiInv, ValidInv, FlagType
  <2>4. CallbackInv'
    BY <1>3
       DEF cvars, Unregister, MutexFree, LinkInv, WsiInv, HeldInv, IsRegistered,
           CallbackInv
  <2>5. PartInv'
    BY <1>3 DEF Unregister, MutexFree, LinkInv, WsiInv, ValidInv, PartInv
  <2> QED
    BY <2>1, <2>2, <2>3, <2>4, <2>5 DEF LinkInv
<1>4. CASE CondDestroy
  <2>1. WsiInv'
    BY <1>4 DEF CondDestroy, LinkInv, WsiInv
  <2>2. HeldInv'
    BY <1>4 DEF CondDestroy, LinkInv, WsiInv, HeldInv, HasCond, IsRegistered
  <2>3. ValidInv'
    BY <1>4 DEF CondDestroy, LinkInv, WsiInv, ValidInv, FlagType
  <2>4. CallbackInv'
    BY <1>4 DEF cvars, CondDestroy, LinkInv, WsiInv, HeldInv, IsRegistered, CallbackInv
  <2>5. PartInv'
    BY <1>4 DEF CondDestroy, LinkInv, WsiInv, ValidInv, PartInv
  <2> QED
    BY <2>1, <2>2, <2>3, <2>4, <2>5 DEF LinkInv
<1>5. CASE WsiDestroy
  <2>1. WsiInv'
    BY <1>5 DEF WsiDestroy, LinkInv, WsiInv
  <2>2. HeldInv'
    BY <1>5 DEF WsiDestroy, LinkInv, WsiInv, HeldInv, HasCond, IsRegistered
  <2>3. ValidInv'
    BY <1>5 DEF WsiDestroy, LinkInv, WsiInv, ValidInv, FlagType
  <2>4. CallbackInv'
    BY <1>5 DEF cvars, WsiDestroy, LinkInv, WsiInv, HeldInv, IsRegistered, CallbackInv
  <2>5. PartInv'
    BY <1>5 DEF WsiDestroy, LinkInv, WsiInv, ValidInv, PartInv
  <2> QED
    BY <2>1, <2>2, <2>3, <2>4, <2>5 DEF LinkInv
<1>6. CASE LwsEnds
  BY <1>6, LinkStays DEF LwsEnds, wvars, cvars, link
<1> QED
  BY <1>1, <1>2, <1>3, <1>4, <1>5, <1>6 DEF LwsCallback

LEMMA LinkComm == FlagType /\ LinkInv /\ CommTask => LinkInv'
<1> SUFFICES ASSUME FlagType, LinkInv, CommTask PROVE LinkInv'
  OBVIOUS
<1>1. CASE CommEmpty
  <2>1. WsiInv'
    BY <1>1 DEF CommEmpty, CommReceive, wvars, hvars, LinkInv, WsiInv
  <2>2. HeldInv'
    BY <1>1
       DEF CommEmpty, CommReceive, wvars, hvars, LinkInv, WsiInv, HeldInv, HasCond,
           IsRegistered
  <2>3. ValidInv'
    BY <1>1
       DEF CommEmpty, CommReceive, wvars, hvars, LinkInv, WsiInv, ValidInv, FlagType
  <2>4. CallbackInv'
    BY <1>1
       DEF CommEmpty, CommReceive, wvars, hvars, LinkInv, WsiInv, HeldInv, IsRegistered,
           CallbackInv
  <2>5. PartInv'
    BY <1>1 DEF CommEmpty, CommReceive, wvars, hvars, LinkInv, WsiInv, ValidInv, PartInv
  <2> QED
    BY <2>1, <2>2, <2>3, <2>4, <2>5 DEF LinkInv
<1>2. CASE CommLookup
  <2>1. WsiInv'
    BY <1>2 DEF CommLookup, CommReceive, wvars, hvars, LinkInv, WsiInv
  <2>2. HeldInv'
    BY <1>2
       DEF CommLookup, CommReceive, wvars, hvars, LinkInv, WsiInv, HeldInv, HasCond,
           IsRegistered
  <2>3. ValidInv'
    BY <1>2
       DEF CommLookup, CommReceive, wvars, hvars, LinkInv, WsiInv, ValidInv, FlagType
  <2>4. CallbackInv'
    BY <1>2
       DEF CommLookup, CommReceive, wvars, hvars, LinkInv, WsiInv, HeldInv,
           IsRegistered, CallbackInv
  <2>5. PartInv'
    BY <1>2
       DEF CommLookup, CommReceive, wvars, hvars, LinkInv, WsiInv, ValidInv, PartInv
  <2> QED
    BY <2>1, <2>2, <2>3, <2>4, <2>5 DEF LinkInv
<1>3. CASE CallbackPut
  <2>1. WsiInv'
    BY <1>3 DEF CallbackPut, Put, Return, hvars, LinkInv, WsiInv
  <2>2. HeldInv'
    BY <1>3
       DEF CallbackPut, Put, Return, hvars, LinkInv, WsiInv, HeldInv, HasCond,
           IsRegistered
  <2>3. ValidInv'
    BY <1>3 DEF CallbackPut, Put, Return, hvars, LinkInv, WsiInv, ValidInv, FlagType
  <2>4. CallbackInv'
    BY <1>3
       DEF CallbackPut, Put, Return, hvars, LinkInv, WsiInv, HeldInv, IsRegistered,
           CallbackInv
  <2>5. PartInv'
    BY <1>3 DEF CallbackPut, Put, Return, hvars, LinkInv, WsiInv, ValidInv, PartInv
  <2> QED
    BY <2>1, <2>2, <2>3, <2>4, <2>5 DEF LinkInv
<1>4. CASE CallbackFails
  <2>1. WsiInv'
    BY <1>4 DEF CallbackFails, Return, hvars, LinkInv, WsiInv
  <2>2. HeldInv'
    BY <1>4
       DEF CallbackFails, Return, hvars, LinkInv, WsiInv, HeldInv, HasCond, IsRegistered
  <2>3. ValidInv'
    BY <1>4 DEF CallbackFails, Return, hvars, LinkInv, WsiInv, ValidInv, FlagType
  <2>4. CallbackInv'
    BY <1>4
       DEF CallbackFails, Return, hvars, LinkInv, WsiInv, HeldInv, IsRegistered,
           CallbackInv
  <2>5. PartInv'
    BY <1>4 DEF CallbackFails, Return, hvars, LinkInv, WsiInv, ValidInv, PartInv
  <2> QED
    BY <2>1, <2>2, <2>3, <2>4, <2>5 DEF LinkInv
<1>5. CASE CallbackWait
  <2>1. WsiInv'
    BY <1>5 DEF CallbackWait, wvars, hvars, LinkInv, WsiInv
  <2>2. HeldInv'
    BY <1>5
       DEF CallbackWait, wvars, hvars, LinkInv, WsiInv, HeldInv, HasCond, IsRegistered
  <2>3. ValidInv'
    BY <1>5 DEF CallbackWait, wvars, hvars, LinkInv, WsiInv, ValidInv, FlagType
  <2>4. CallbackInv'
    BY <1>5
       DEF CallbackWait, wvars, hvars, LinkInv, WsiInv, HeldInv, IsRegistered,
           CallbackInv
  <2>5. PartInv'
    BY <1>5 DEF CallbackWait, wvars, hvars, LinkInv, WsiInv, ValidInv, PartInv
  <2> QED
    BY <2>1, <2>2, <2>3, <2>4, <2>5 DEF LinkInv
<1>6. CASE WakePut
  <2>1. WsiInv'
    BY <1>6 DEF WakePut, Put, Return, hvars, LinkInv, WsiInv
  <2>2. HeldInv'
    BY <1>6
       DEF WakePut, Put, Return, hvars, LinkInv, WsiInv, HeldInv, HasCond, IsRegistered
  <2>3. ValidInv'
    BY <1>6 DEF WakePut, Put, Return, hvars, LinkInv, WsiInv, ValidInv, FlagType
  <2>4. CallbackInv'
    BY <1>6
       DEF WakePut, Put, Return, hvars, LinkInv, WsiInv, HeldInv, IsRegistered,
           CallbackInv
  <2>5. PartInv'
    BY <1>6 DEF WakePut, Put, Return, hvars, LinkInv, WsiInv, ValidInv, PartInv
  <2> QED
    BY <2>1, <2>2, <2>3, <2>4, <2>5 DEF LinkInv
<1>7. CASE WakeFails
  <2>1. WsiInv'
    BY <1>7 DEF WakeFails, Return, hvars, LinkInv, WsiInv
  <2>2. HeldInv'
    BY <1>7
       DEF WakeFails, Return, hvars, LinkInv, WsiInv, HeldInv, HasCond, IsRegistered
  <2>3. ValidInv'
    BY <1>7 DEF WakeFails, Return, hvars, LinkInv, WsiInv, ValidInv, FlagType
  <2>4. CallbackInv'
    BY <1>7
       DEF WakeFails, Return, hvars, LinkInv, WsiInv, HeldInv, IsRegistered, CallbackInv
  <2>5. PartInv'
    BY <1>7 DEF WakeFails, Return, hvars, LinkInv, WsiInv, ValidInv, PartInv
  <2> QED
    BY <2>1, <2>2, <2>3, <2>4, <2>5 DEF LinkInv
<1>8. CASE Discard
  <2>1. WsiInv'
    BY <1>8 DEF Discard, wvars, hvars, LinkInv, WsiInv
  <2>2. HeldInv'
    BY <1>8 DEF Discard, wvars, hvars, LinkInv, WsiInv, HeldInv, HasCond, IsRegistered
  <2>3. ValidInv'
    BY <1>8 DEF Discard, wvars, hvars, LinkInv, WsiInv, ValidInv, FlagType
  <2>4. CallbackInv'
    BY <1>8
       DEF Discard, wvars, hvars, LinkInv, WsiInv, HeldInv, IsRegistered, CallbackInv
  <2>5. PartInv'
    BY <1>8 DEF Discard, wvars, hvars, LinkInv, WsiInv, ValidInv, PartInv
  <2> QED
    BY <2>1, <2>2, <2>3, <2>4, <2>5 DEF LinkInv
<1> QED
  BY <1>1, <1>2, <1>3, <1>4, <1>5, <1>6, <1>7, <1>8 DEF CommTask

LEMMA LinkAgent == FlagType /\ LinkInv /\ AgentTask => LinkInv'
<1> SUFFICES ASSUME FlagType, LinkInv, AgentTask PROVE LinkInv'
  OBVIOUS
<1>1. CASE AgentEmpty
  BY <1>1, LinkStays DEF AgentEmpty, AgentReceive, wvars, hvars, cvars, link
<1>2. CASE AgentExit
  BY <1>2, LinkStays DEF AgentExit, AgentReceive, wvars, hvars, cvars, link
<1>3. CASE AgentCall
  BY <1>3, LinkStays DEF AgentCall, AgentReceive, wvars, hvars, cvars, link
<1>4. CASE AgentAnswer
  BY <1>4, LinkStays DEF AgentAnswer, AgentReceive, wvars, hvars, cvars, link
<1> QED
  BY <1>1, <1>2, <1>3, <1>4 DEF AgentTask

LEMMA LinkMain == FlagType /\ LinkInv /\ MainTask => LinkInv'
<1> SUFFICES ASSUME FlagType, LinkInv, MainTask PROVE LinkInv'
  OBVIOUS
<1>1. CASE MainStart
  BY <1>1, LinkStays DEF MainStart, MainStep, wvars, hvars, cvars, link
<1>2. CASE MainTimeout
  BY <1>2, LinkStays DEF MainTimeout, MainStep, wvars, hvars, cvars, link
<1>3. CASE MainNoConnection
  BY <1>3, LinkStays DEF MainNoConnection, MainStep, wvars, hvars, cvars, link
<1>4. CASE MainWait
  BY <1>4, LinkStays DEF MainWait, MainStep, wvars, hvars, cvars, link
<1>5. CASE MainLeave
  BY <1>5, LinkStays DEF MainLeave, MainStep, wvars, hvars, cvars, link
<1>6. CASE MainContext
  BY <1>6, LinkStays DEF MainContext, MainStep, wvars, hvars, cvars, link
<1>7. CASE Close
  <2>1. WsiInv'
    BY <1>7 DEF Close, Ends, cvars, LinkInv, WsiInv
  <2>2. HeldInv'
    BY <1>7 DEF Close, Ends, cvars, LinkInv, WsiInv, HeldInv, HasCond, IsRegistered
  <2>3. ValidInv'
    BY <1>7 DEF Close, Ends, cvars, LinkInv, WsiInv, ValidInv, FlagType
  <2>4. CallbackInv'
    BY <1>7 DEF Close, Ends, cvars, LinkInv, WsiInv, HeldInv, IsRegistered, CallbackInv
  <2>5. PartInv'
    BY <1>7 DEF Close, Ends, cvars, LinkInv, WsiInv, ValidInv, PartInv
  <2> QED
    BY <2>1, <2>2, <2>3, <2>4, <2>5 DEF LinkInv
<1>8. CASE CloseInvalid
  <2>1. WsiInv'
    BY <1>8 DEF CloseInvalid, Ends, cvars, LinkInv, WsiInv
  <2>2. HeldInv'
    BY <1>8
       DEF CloseInvalid, Ends, cvars, LinkInv, WsiInv, HeldInv, HasCond, IsRegistered
  <2>3. ValidInv'
    BY <1>8 DEF CloseInvalid, Ends, cvars, LinkInv, WsiInv, ValidInv, FlagType
  <2>4. CallbackInv'
    BY <1>8
       DEF CloseInvalid, Ends, cvars, LinkInv, WsiInv, HeldInv, IsRegistered,
           CallbackInv
  <2>5. PartInv'
    BY <1>8 DEF CloseInvalid, Ends, cvars, LinkInv, WsiInv, ValidInv, PartInv
  <2> QED
    BY <2>1, <2>2, <2>3, <2>4, <2>5 DEF LinkInv
<1>9. CASE MainStopComm
  BY <1>9, LinkStays DEF MainStopComm, MainStep, wvars, hvars, cvars, link
<1>10. CASE MainJoinComm
  BY <1>10, LinkStays DEF MainJoinComm, MainStep, wvars, hvars, cvars, link
<1>11. CASE MainStopAgent
  BY <1>11, LinkStays DEF MainStopAgent, MainStep, wvars, hvars, cvars, link
<1>12. CASE MainJoinAgent
  BY <1>12, LinkStays DEF MainJoinAgent, MainStep, wvars, hvars, cvars, link
<1> QED
  BY <1>1, <1>2, <1>3, <1>4, <1>5, <1>6, <1>7, <1>8, <1>9, <1>10, <1>11, <1>12
     DEF MainTask

LEMMA LinkClient == FlagType /\ StateType /\ LinkInv /\ Client => LinkInv'
<1> SUFFICES ASSUME FlagType, StateType, LinkInv, Client PROVE LinkInv'
  OBVIOUS
<1>1. CASE WsiCreate
  <2>1. WsiInv'
    <3>1. conn' \in Conns
      BY <1>1, ConstAssumption DEF WsiCreate, StateType, Conns
    <3> QED
      BY <1>1, <3>1 DEF WsiCreate, Event, hvars, LinkInv, WsiInv
  <2>2. HeldInv'
    BY <1>1
       DEF WsiCreate, Event, hvars, cvars, LinkInv, WsiInv, HeldInv, HasCond,
           IsRegistered
  <2>3. ValidInv'
    BY <1>1 DEF WsiCreate, Event, hvars, cvars, LinkInv, WsiInv, ValidInv, FlagType
  <2>4. CallbackInv'
    BY <1>1
       DEF WsiCreate, Event, hvars, cvars, LinkInv, WsiInv, HeldInv, IsRegistered,
           CallbackInv
  <2>5. PartInv'
    BY <1>1 DEF WsiCreate, Event, hvars, cvars, LinkInv, WsiInv, ValidInv, PartInv
  <2> QED
    BY <2>1, <2>2, <2>3, <2>4, <2>5 DEF LinkInv
<1>2. CASE Established
  <2>1. WsiInv'
    BY <1>2 DEF Established, Event, cvars, LinkInv, WsiInv
  <2>2. HeldInv'
    BY <1>2
       DEF Established, Event, cvars, LinkInv, WsiInv, HeldInv, HasCond, IsRegistered
  <2>3. ValidInv'
    BY <1>2 DEF Established, Event, cvars, LinkInv, WsiInv, ValidInv, FlagType
  <2>4. CallbackInv'
    BY <1>2
       DEF Established, Event, cvars, LinkInv, WsiInv, HeldInv, IsRegistered,
           CallbackInv
  <2>5. PartInv'
    BY <1>2 DEF Established, Event, cvars, LinkInv, WsiInv, ValidInv, PartInv
  <2> QED
    BY <2>1, <2>2, <2>3, <2>4, <2>5 DEF LinkInv
<1>3. CASE ClientGoes
  <2>1. WsiInv'
    BY <1>3 DEF ClientGoes, hvars, cvars, LinkInv, WsiInv
  <2>2. HeldInv'
    BY <1>3
       DEF ClientGoes, hvars, cvars, LinkInv, WsiInv, HeldInv, HasCond, IsRegistered
  <2>3. ValidInv'
    BY <1>3 DEF ClientGoes, hvars, cvars, LinkInv, WsiInv, ValidInv, FlagType
  <2>4. CallbackInv'
    BY <1>3
       DEF ClientGoes, hvars, cvars, LinkInv, WsiInv, HeldInv, IsRegistered, CallbackInv
  <2>5. PartInv'
    BY <1>3 DEF ClientGoes, hvars, cvars, LinkInv, WsiInv, ValidInv, PartInv
  <2> QED
    BY <2>1, <2>2, <2>3, <2>4, <2>5 DEF LinkInv
<1>4. CASE Close
  <2>1. WsiInv'
    BY <1>4 DEF Close, Ends, cvars, LinkInv, WsiInv
  <2>2. HeldInv'
    BY <1>4 DEF Close, Ends, cvars, LinkInv, WsiInv, HeldInv, HasCond, IsRegistered
  <2>3. ValidInv'
    BY <1>4 DEF Close, Ends, cvars, LinkInv, WsiInv, ValidInv, FlagType
  <2>4. CallbackInv'
    BY <1>4 DEF Close, Ends, cvars, LinkInv, WsiInv, HeldInv, IsRegistered, CallbackInv
  <2>5. PartInv'
    BY <1>4 DEF Close, Ends, cvars, LinkInv, WsiInv, ValidInv, PartInv
  <2> QED
    BY <2>1, <2>2, <2>3, <2>4, <2>5 DEF LinkInv
<1>5. CASE CloseInvalid
  <2>1. WsiInv'
    BY <1>5 DEF CloseInvalid, Ends, cvars, LinkInv, WsiInv
  <2>2. HeldInv'
    BY <1>5
       DEF CloseInvalid, Ends, cvars, LinkInv, WsiInv, HeldInv, HasCond, IsRegistered
  <2>3. ValidInv'
    BY <1>5 DEF CloseInvalid, Ends, cvars, LinkInv, WsiInv, ValidInv, FlagType
  <2>4. CallbackInv'
    BY <1>5
       DEF CloseInvalid, Ends, cvars, LinkInv, WsiInv, HeldInv, IsRegistered,
           CallbackInv
  <2>5. PartInv'
    BY <1>5 DEF CloseInvalid, Ends, cvars, LinkInv, WsiInv, ValidInv, PartInv
  <2> QED
    BY <2>1, <2>2, <2>3, <2>4, <2>5 DEF LinkInv
<1>6. CASE WritePart
  <2>1. WsiInv'
    BY <1>6 DEF WritePart, Writeable, Event, hvars, cvars, LinkInv, WsiInv
  <2>2. HeldInv'
    BY <1>6
       DEF WritePart, Writeable, Event, hvars, cvars, LinkInv, WsiInv, HeldInv, HasCond,
           IsRegistered
  <2>3. ValidInv'
    BY <1>6
       DEF WritePart, Writeable, Event, hvars, cvars, LinkInv, WsiInv, ValidInv,
           FlagType
  <2>4. CallbackInv'
    BY <1>6
       DEF WritePart, Writeable, Event, hvars, cvars, LinkInv, WsiInv, HeldInv,
           IsRegistered, CallbackInv
  <2>5. PartInv'
    BY <1>6
       DEF WritePart, Writeable, Event, hvars, cvars, LinkInv, WsiInv, ValidInv, PartInv
  <2> QED
    BY <2>1, <2>2, <2>3, <2>4, <2>5 DEF LinkInv
<1>7. CASE WriteAll
  <2>1. WsiInv'
    BY <1>7 DEF WriteAll, Writeable, Event, cvars, LinkInv, WsiInv
  <2>2. HeldInv'
    BY <1>7
       DEF WriteAll, Writeable, Event, cvars, LinkInv, WsiInv, HeldInv, HasCond,
           IsRegistered
  <2>3. ValidInv'
    BY <1>7 DEF WriteAll, Writeable, Event, cvars, LinkInv, WsiInv, ValidInv, FlagType
  <2>4. CallbackInv'
    BY <1>7
       DEF WriteAll, Writeable, Event, cvars, LinkInv, WsiInv, HeldInv, IsRegistered,
           CallbackInv
  <2>5. PartInv'
    BY <1>7 DEF WriteAll, Writeable, Event, cvars, LinkInv, WsiInv, ValidInv, PartInv
  <2> QED
    BY <2>1, <2>2, <2>3, <2>4, <2>5 DEF LinkInv
<1>8. ASSUME NEW m \in Requests \cup Errors, Receive(m) PROVE LinkInv'
  BY <1>8, LinkStays DEF Receive, hvars, cvars, link
<1> QED
  BY <1>1, <1>2, <1>3, <1>4, <1>5, <1>6, <1>7, <1>8 DEF Client

LEMMA LinkDiags == FlagType /\ LinkInv /\ Diags => LinkInv'
<1> SUFFICES ASSUME FlagType, LinkInv, Diags PROVE LinkInv'
  OBVIOUS
<1>1. CASE DiagTakes
  BY <1>1, LinkStays DEF DiagTakes, wvars, hvars, cvars, link
<1>2. ASSUME NEW a \in Answers, DiagSends(a) PROVE LinkInv'
  BY <1>2, LinkStays DEF DiagSends, wvars, hvars, cvars, link
<1> QED
  BY <1>1, <1>2 DEF Diags

-----------------------------------------------------------------------------
(* The theorems.                                                           *)

CommInv == QueueType /\ FlagType /\ StateType /\ LinkInv

LEMMA CommNext == CommInv /\ [Next]_vars => CommInv'
<1> SUFFICES ASSUME QueueType, FlagType, StateType, LinkInv, [Next]_vars
             PROVE  QueueType' /\ FlagType' /\ StateType' /\ LinkInv'
  BY DEF CommInv
<1> WsiInv
  BY DEF LinkInv
<1>1. CASE UNCHANGED vars
  <2>1. QueueType'
    BY <1>1, QueuesStay DEF vars
  <2>2. FlagType'
    BY <1>1 DEF FlagType, vars, wvars, cvars, avars
  <2>3. StateType'
    BY <1>1 DEF StateType, vars, wvars, hvars, cvars, avars, main
  <2>4. LinkInv'
    BY <1>1, LinkStays DEF link, vars, wvars, hvars, cvars
  <2> QED
    BY <2>1, <2>2, <2>3, <2>4
<1>2. CASE LwsCallback
  BY <1>2, FlagLws, StateLws, QueueLws, LinkLws
<1>3. CASE CommTask
  BY <1>3, FlagComm, StateComm, QueueComm, LinkComm
<1>4. CASE AgentTask
  BY <1>4, FlagAgent, StateAgent, QueueAgent, LinkAgent
<1>5. CASE MainTask
  BY <1>5, FlagMain, StateMain, QueueMain, LinkMain
<1>6. CASE Client
  BY <1>6, FlagClient, StateClient, QueueClient, LinkClient
<1>7. CASE Diags
  BY <1>7, FlagDiags, StateDiags, QueueDiags, LinkDiags
<1> QED
  BY <1>1, <1>2, <1>3, <1>4, <1>5, <1>6, <1>7 DEF Next

LEMMA CommInvHolds == Spec => []CommInv
<1>1. Init => CommInv
  BY TypeInit, LinkInit DEF CommInv
<1> QED
  BY <1>1, CommNext, PTL DEF Spec

\* The queues stay within their depths, whatever is sent and however slow the readers are.
THEOREM TypeCorrect == Spec => []TypeOK
<1>1. CommInv => TypeOK
  BY TypeParts DEF CommInv
<1> QED
  BY <1>1, CommInvHolds, PTL

\* CommTask never uses a connection that LwsCallback has taken away.
THEOREM NoUseAfter == Spec => []NoUseAfterClose
<1>1. CommInv => NoUseAfterClose
  BY DEF CommInv, LinkInv, CallbackInv, HeldInv, HasCond, IsRegistered, NoUseAfterClose
<1> QED
  BY <1>1, CommInvHolds, PTL

\* Of a connection that is gone nothing is left, whichever way it went.
THEOREM NothingLeft == Spec => []NothingLeftBehind
<1>1. CommInv => NothingLeftBehind
  BY DEF CommInv, LinkInv, WsiInv, HeldInv, HasCond, IsRegistered, NothingLeftBehind
<1> QED
  BY <1>1, CommInvHolds, PTL

\* The message that lws is writing is not replaced in the buffer.
THEOREM Whole == Spec => []WholeMessages
<1>1. CommInv => WholeMessages
  BY DEF CommInv, LinkInv, PartInv, WholeMessages
<1> QED
  BY <1>1, CommInvHolds, PTL
-----------------------------------------------------------------------------
(* The answers in a queue: AnswersIn is a recursive function, of which we  *)
(* need what it is at the ends of the queue.                               *)

\* f collects the answers among the first n messages of q.
Collects(f, q, n) ==
    /\ f = [i \in 0..n |-> f[i]] /\ f[0] = <<>>
    /\ \A i \in 1..n : f[i] = IF q[i] \in Answers THEN Append(f[i - 1], q[i]) ELSE f[i - 1]

LEMMA Collected ==
    ASSUME NEW f, NEW q, NEW n \in Nat, Collects(f, q, n)
    PROVE  /\ f[0] = <<>>
           /\ \A i \in 1..n : f[i] = IF q[i] \in Answers THEN Append(f[i - 1], q[i]) ELSE f[i - 1]
BY Zenon DEF Collects

\* The least number with a property.
LEMMA Least ==
    ASSUME NEW S, S \subseteq Nat, S # {}
    PROVE  \E x \in S : \A y \in S : x <= y
<1> DEFINE R == {ss \in Nat \X Nat : ss[1] < ss[2]}
<1>1. IsWellFoundedOn(R, Nat)
  BY NatLessThanWellFounded DEF OpToRel
<1>2. PICK x \in S : \A y \in S : ~(<<y, x>> \in R)
  <2> HIDE DEF R
  <2> QED
    BY <1>1, WFMin
<1>3. ASSUME NEW y \in S PROVE x <= y
  <2>1. ~(<<y, x>> \in R) /\ x \in Nat /\ y \in Nat
    BY <1>2
  <2> QED
    BY <2>1 DEF R
<1> QED
  BY <1>3

LEMMA CollectorExists ==
    ASSUME NEW q, NEW n \in Nat
    PROVE  \E f : Collects(f, q, n)
<1> DEFINE missing == {k \in Nat : ~\E f : Collects(f, q, k)}
<1> SUFFICES ASSUME missing # {} PROVE FALSE
  OBVIOUS
<1>1. PICK k \in missing : \A j \in missing : k <= j
  <2> HIDE DEF missing
  <2>1. missing \subseteq Nat
    BY DEF missing
  <2> QED
    BY <2>1, Least
<1>2. k # 0
  <2>1. Collects([i \in 0..0 |-> <<>>], q, 0)
    BY DEF Collects
  <2> QED
    BY <1>1, <2>1
<1>3. PICK f : Collects(f, q, k - 1)
  BY <1>1, <1>2
<1> DEFINE new == IF q[k] \in Answers THEN Append(f[k - 1], q[k]) ELSE f[k - 1]
           g == [i \in 0..k |-> IF i < k THEN f[i] ELSE new]
<1>4. Collects(g, q, k)
  <2>1. k \in Nat /\ g = [i \in 0..k |-> g[i]] /\ g[0] = <<>>
    BY <1>1, <1>2, <1>3 DEF Collects
  <2>2. ASSUME NEW i \in 1..k
        PROVE  g[i] = IF q[i] \in Answers THEN Append(g[i - 1], q[i]) ELSE g[i - 1]
    <3>1. i - 1 \in 0..k /\ i - 1 < k /\ i \in 0..k /\ k \in Nat
      BY <2>1
    <3>2. g[i - 1] = f[i - 1]
      BY <3>1
    <3>3. CASE i = k
      BY <3>1, <3>2, <3>3
    <3>4. CASE i # k
      <4>1. i \in 1..(k - 1) /\ g[i] = f[i]
        BY <3>1, <3>4
      <4> QED
        BY <1>3, <3>2, <4>1 DEF Collects
    <3> QED
      BY <3>3, <3>4
  <2> HIDE DEF g
  <2> QED
    BY <2>1, <2>2 DEF Collects
<1> QED
  BY <1>1, <1>4

LEMMA AnswersCollected ==
    ASSUME NEW S, NEW q \in Seq(S)
    PROVE  \E f : Collects(f, q, Len(q)) /\ AnswersIn(q) = f[Len(q)]
<1> DEFINE N == Len(q)
           Rec(f) == [n \in 0..N |-> IF n = 0 THEN <<>>
                        ELSE IF q[n] \in Answers THEN Append(f[n - 1], q[n]) ELSE f[n - 1]]
           h == CHOOSE f : f = Rec(f)
<1>1. N \in Nat
  OBVIOUS
<1>2. AnswersIn(q) = h[N]
  BY Zenon DEF AnswersIn
<1>3. PICK f : Collects(f, q, N)
  BY <1>1, CollectorExists
<1>4. f = Rec(f)
  <2>1. f = [n \in 0..N |-> f[n]]
    BY <1>3 DEF Collects
  <2>2. \A n \in 0..N : f[n] = Rec(f)[n]
    <3> SUFFICES ASSUME NEW n \in 0..N PROVE f[n] = Rec(f)[n]
      OBVIOUS
    <3>1. f[0] = <<>> /\ (n # 0 => f[n] = IF q[n] \in Answers THEN Append(f[n - 1], q[n]) ELSE f[n - 1])
      <4> HIDE DEF N, Rec
      <4> QED
        BY <1>1, <1>3, Collected
    <3> QED
      BY <3>1
  <2>3. Rec(f) = [n \in 0..N |-> Rec(f)[n]]
    OBVIOUS
  <2> HIDE DEF Rec
  <2> QED
    BY <2>1, <2>2, <2>3
<1>5. h = Rec(h)
  <2> HIDE DEF Rec
  <2> QED
    BY <1>4
<1>6. Collects(h, q, N)
  <2>1. h = [n \in 0..N |-> h[n]] /\ h[0] = <<>>
    <3> HIDE DEF h
    <3> QED
      BY <1>1, <1>5
  <2>2. ASSUME NEW i \in 1..N
        PROVE  h[i] = IF q[i] \in Answers THEN Append(h[i - 1], q[i]) ELSE h[i - 1]
    <3> HIDE DEF h
    <3>1. Rec(h)[i] = IF q[i] \in Answers THEN Append(h[i - 1], q[i]) ELSE h[i - 1]
      BY <1>1
    <3> HIDE DEF Rec
    <3> QED
      BY <1>5, <3>1
  <2> HIDE DEF h
  <2> QED
    BY <2>1, <2>2 DEF Collects
<1> HIDE DEF h
<1> QED
  BY <1>2, <1>6

\* Two collectors agree as far as their queues do, and have answers only.
LEMMA CollectorsAgree ==
    ASSUME NEW n \in Nat, NEW q, NEW r, NEW f, NEW g,
           Collects(f, q, n), Collects(g, r, n), \A i \in 1..n : q[i] = r[i]
    PROVE  \A i \in 0..n : f[i] = g[i] /\ f[i] \in Seq(Answers)
<1> DEFINE Fine(i) == f[i] = g[i] /\ f[i] \in Seq(Answers)
           bad == {i \in 0..n : ~Fine(i)}
<1> SUFFICES ASSUME bad # {} PROVE FALSE
  OBVIOUS
<1>1. PICK k \in bad : \A j \in bad : k <= j
  <2> HIDE DEF Fine
  <2>1. bad \subseteq Nat
    OBVIOUS
  <2> HIDE DEF bad
  <2> QED
    BY <2>1, Least
<1>2. k # 0
  BY <1>1 DEF Collects
<1>3. k \in 1..n /\ k - 1 \in 0..n /\ ~(k <= k - 1)
  BY <1>1, <1>2
<1>4. Fine(k - 1)
  <2> HIDE DEF Fine
  <2> QED
    BY <1>1, <1>3
<1>5. Fine(k)
  <2>1. f[k] = IF q[k] \in Answers THEN Append(f[k - 1], q[k]) ELSE f[k - 1]
    BY <1>3 DEF Collects
  <2>2. g[k] = IF q[k] \in Answers THEN Append(g[k - 1], q[k]) ELSE g[k - 1]
    BY <1>3 DEF Collects
  <2> QED
    BY <1>4, <2>1, <2>2
<1> QED
  BY <1>1, <1>5

\* The answers of a queue, taken from its end ...
LEMMA AnswersAppend ==
    ASSUME NEW S, NEW q \in Seq(S), NEW m
    PROVE  /\ AnswersIn(q) \in Seq(Answers)
           /\ AnswersIn(Append(q, m)) = IF m \in Answers THEN Append(AnswersIn(q), m) ELSE AnswersIn(q)
<1> DEFINE n == Len(q)
           r == Append(q, m)
<1>1. n \in Nat /\ r \in Seq(S \cup {m}) /\ Len(r) = n + 1 /\ r[n + 1] = m /\ \A i \in 1..n : q[i] = r[i]
  OBVIOUS
<1>2. PICK f : Collects(f, q, n) /\ AnswersIn(q) = f[n]
  BY AnswersCollected
<1>3. PICK g : Collects(g, r, n + 1) /\ AnswersIn(r) = g[n + 1]
  BY <1>1, AnswersCollected
<1> DEFINE c == [i \in 0..n |-> g[i]]
<1> HIDE DEF r
<1>4. Collects(c, r, n)
  <2> DEFINE k == n + 1
  <2>1. k \in Nat /\ n \in Nat /\ n < k
    BY <1>1
  <2>2. Collects(g, r, k)
    BY <1>3
  <2> HIDE DEF n, k
  <2>3. c = [i \in 0..n |-> c[i]] /\ \A i \in 0..n : c[i] = g[i]
    OBVIOUS
  <2> HIDE DEF c
  <2>4. g[0] = <<>>
        /\ \A i \in 1..n : g[i] = IF r[i] \in Answers THEN Append(g[i - 1], r[i]) ELSE g[i - 1]
    BY <2>1, <2>2, Collected
  <2>5. \A i \in 1..n : i \in 0..n /\ i - 1 \in 0..n
    BY <2>1
  <2>6. c[0] = <<>>
        /\ \A i \in 1..n : c[i] = IF r[i] \in Answers THEN Append(c[i - 1], r[i]) ELSE c[i - 1]
    BY <2>1, <2>3, <2>4, <2>5
  <2> QED
    BY <2>3, <2>6, Zenon DEF Collects
<1>5. f[n] = c[n] /\ f[n] \in Seq(Answers) /\ c[n] = g[n]
  <2>1. \A i \in 0..n : f[i] = c[i] /\ f[i] \in Seq(Answers)
    <3> HIDE DEF c, n
    <3> QED
      BY <1>1, <1>2, <1>4, CollectorsAgree
  <2> QED
    BY <1>1, <2>1
<1>6. g[n + 1] = IF r[n + 1] \in Answers THEN Append(g[n], r[n + 1]) ELSE g[n]
  <2> DEFINE k == n + 1
  <2>1. k \in Nat /\ k \in 1..k /\ k - 1 = n
    BY <1>1
  <2>2. Collects(g, r, k)
    BY <1>3
  <2> HIDE DEF n, k
  <2>3. g[k] = IF r[k] \in Answers THEN Append(g[k - 1], r[k]) ELSE g[k - 1]
    BY <2>1, <2>2, Collected
  <2> QED
    BY <2>1, <2>3 DEF k
<1> QED
  BY <1>1, <1>2, <1>3, <1>5, <1>6 DEF r

LEMMA AppendBehind ==
    ASSUME NEW S, NEW s \in Seq(S), NEW u \in Seq(S), NEW e \in S
    PROVE  s \o Append(u, e) = Append(s \o u, e)
OBVIOUS

\* ... or from its head.
LEMMA AnswersTail ==
    ASSUME NEW S, NEW q \in Seq(S), q # <<>>
    PROVE  AnswersIn(q) = IF Head(q) \in Answers THEN <<Head(q)>> \o AnswersIn(Tail(q))
                                                 ELSE AnswersIn(Tail(q))
<1> DEFINE n == Len(q) - 1
           t == Tail(q)
           first == IF Head(q) \in Answers THEN <<Head(q)>> ELSE <<>>
<1>1. n \in Nat /\ Len(q) = n + 1 /\ t \in Seq(S) /\ Len(t) = n /\ Head(q) = q[1]
      /\ \A i \in 1..n : t[i] = q[i + 1]
  OBVIOUS
<1>2. PICK f : Collects(f, q, n + 1) /\ AnswersIn(q) = f[n + 1]
  BY <1>1, AnswersCollected
<1>3. PICK g : Collects(g, t, n) /\ AnswersIn(t) = g[n]
  BY <1>1, AnswersCollected
<1>4. \A i \in 0..n : g[i] \in Seq(Answers)
  <2> HIDE DEF n, t
  <2> QED
    BY <1>1, <1>3, CollectorsAgree
<1> DEFINE Fine(i) == f[i + 1] = first \o g[i]
           bad == {i \in 0..n : ~Fine(i)}
<1>5. first \in Seq(Answers)
  OBVIOUS
<1>6. bad = {}
  <2> SUFFICES ASSUME bad # {} PROVE FALSE
    OBVIOUS
  <2>1. PICK k \in bad : \A j \in bad : k <= j
    <3>1. bad \subseteq Nat
      <4> HIDE DEF Fine, n
      <4> QED
        BY <1>1
    <3> HIDE DEF bad
    <3> QED
      BY <3>1, Least
  <2>2. Fine(0)
    <3>1. f[1] = IF q[1] \in Answers THEN Append(f[0], q[1]) ELSE f[0]
      BY <1>1, <1>2 DEF Collects
    <3>2. f[0] = <<>> /\ g[0] = <<>>
      BY <1>2, <1>3 DEF Collects
    <3> QED
      BY <1>1, <3>1, <3>2
  <2>3. k # 0 /\ k \in 0..n
    <3> HIDE DEF Fine
    <3> QED
      BY <2>1, <2>2
  <2>4. k \in 1..n /\ k - 1 \in 0..n /\ ~(k <= k - 1) /\ k + 1 \in 1..(n + 1) /\ k + 1 - 1 = k
        /\ k - 1 + 1 = k
    BY <1>1, <2>3
  <2>5. Fine(k - 1)
    <3> HIDE DEF Fine
    <3> QED
      BY <2>1, <2>4
  <2>6. f[k] = first \o g[k - 1]
    BY <2>4, <2>5
  <2>7. f[k + 1] = IF q[k + 1] \in Answers THEN Append(f[k], q[k + 1]) ELSE f[k]
    <3>1. n + 1 \in Nat
      BY <1>1
    <3> HIDE DEF n
    <3> QED
      BY <1>2, <2>4, <3>1, Collected
  <2>8. g[k] = IF t[k] \in Answers THEN Append(g[k - 1], t[k]) ELSE g[k - 1]
    BY <1>3, <2>4 DEF Collects
  <2>9. t[k] = q[k + 1] /\ g[k - 1] \in Seq(Answers)
    BY <1>1, <1>4, <2>4
  <2>10. ASSUME NEW e \in Answers PROVE Append(first \o g[k - 1], e) = first \o Append(g[k - 1], e)
    <3> DEFINE u == g[k - 1]
    <3>1. first \in Seq(Answers) /\ u \in Seq(Answers)
      BY <1>5, <2>9
    <3> HIDE DEF first, u
    <3>2. first \o Append(u, e) = Append(first \o u, e)
      BY <3>1, AppendBehind
    <3> QED
      BY <3>2 DEF u
  <2>11. Fine(k)
    <3> HIDE DEF first, t, n
    <3> QED
      BY <2>6, <2>7, <2>8, <2>9, <2>10
  <2> QED
    BY <2>1, <2>11
<1>7. Fine(n)
  <2> HIDE DEF Fine
  <2> QED
    BY <1>1, <1>6
<1>8. AnswersIn(q) = first \o AnswersIn(t)
  BY <1>2, <1>3, <1>7
<1>9. <<>> \o g[n] = g[n]
  BY <1>1, <1>4
<1> QED
  BY <1>3, <1>8, <1>9

-----------------------------------------------------------------------------
(* The channel: what is on its way from the diags to the client.           *)

Pipe == InBuffer \o InCallback \o AnswersIn(commQ) \o AnswersIn(initQ)
Open == IF valid THEN conn ELSE 0

\* What the buffer holds is for the connection there is, and it is free when one is made.
BufferInv ==
    /\ hpc = "register" => tx = None
    /\ hpc = "written" => tx # None
    /\ valid /\ tx # None => tx.conn = conn

\* A lost message leaves those around it.
LEMMA RemoveMiddle ==
    ASSUME NEW S, NEW s \in Seq(S), NEW t \in Seq(S), NEW e \in S
    PROVE  LET w == s \o (<<e>> \o t)
           IN  /\ Len(s) + 1 \in DOMAIN w
               /\ RemoveAt(w, Len(s) + 1) = s \o t
<1> DEFINE w == s \o (<<e>> \o t)
           n == Len(s)
           v == RemoveAt(w, n + 1)
<1>1. n \in Nat /\ Len(t) \in Nat
  OBVIOUS
<1>2. /\ w \in Seq(S) /\ Len(w) = n + 1 + Len(t)
      /\ \A i \in 1..n : w[i] = s[i]
      /\ \A i \in 1..Len(t) : w[n + 1 + i] = t[i]
  OBVIOUS
<1>3. /\ SubSeq(w, 1, n) \in Seq(S) /\ Len(SubSeq(w, 1, n)) = n
      /\ \A i \in 1..n : SubSeq(w, 1, n)[i] = s[i]
  <2> HIDE DEF w
  <2> QED
    BY <1>1, <1>2
<1>4. SubSeq(w, 1, n) = s
  <2> HIDE DEF w
  <2> QED
    BY <1>3, SeqEqual
<1>5. /\ SubSeq(w, n + 2, Len(w)) \in Seq(S) /\ Len(SubSeq(w, n + 2, Len(w))) = Len(t)
      /\ \A i \in 1..Len(t) : SubSeq(w, n + 2, Len(w))[i] = t[i]
  <2> HIDE DEF w, n
  <2> QED
    BY <1>1, <1>2
<1>6. SubSeq(w, n + 2, Len(w)) = t
  <2> HIDE DEF w, n
  <2> QED
    BY <1>5, SeqEqual
<1>7. v = s \o t
  <2>1. (n + 1) - 1 = n /\ (n + 1) + 1 = n + 2
    BY <1>1
  <2> HIDE DEF w, n
  <2> QED
    BY <1>4, <1>6, <2>1 DEF RemoveAt
<1>8. n + 1 \in DOMAIN w
  <2> HIDE DEF w, n
  <2> QED
    BY <1>1, <1>2
<1> QED
  BY <1>7, <1>8

LEMMA LoseIs ==
    Channel!Lose <=> \E k \in DOMAIN Pipe : Pipe' = RemoveAt(Pipe, k) /\ UNCHANGED <<last, Open>>
BY DEF Pipe, Open, Channel!Lose, Channel!RemoveAt, RemoveAt

LEMMA Loss ==
    ASSUME NEW s \in Seq(Answers), NEW t \in Seq(Answers), NEW e \in Answers,
           Pipe = s \o (<<e>> \o t), Pipe' = s \o t, UNCHANGED <<last, Open>>
    PROVE  Channel!Next
<1> DEFINE k == Len(s) + 1
<1>1. k \in DOMAIN Pipe /\ Pipe' = RemoveAt(Pipe, k)
  BY RemoveMiddle
<1> HIDE DEF k
<1>2. Channel!Lose
  BY <1>1, LoseIs
<1> QED
  BY <1>2 DEF Channel!Next

LEMMA PipeParts ==
    ASSUME QueueType, QueueType'
    PROVE  /\ InBuffer \in Seq(Answers) /\ InCallback \in Seq(Answers)
           /\ AnswersIn(commQ) \in Seq(Answers) /\ AnswersIn(initQ) \in Seq(Answers)
           /\ InBuffer' \in Seq(Answers) /\ InCallback' \in Seq(Answers)
           /\ AnswersIn(commQ') \in Seq(Answers) /\ AnswersIn(initQ') \in Seq(Answers)
<1>1. InBuffer \in Seq(Answers) /\ InCallback \in Seq(Answers)
  BY DEF InBuffer, InCallback
<1>2. InBuffer' \in Seq(Answers) /\ InCallback' \in Seq(Answers)
  BY DEF InBuffer, InCallback
<1> QED
  BY <1>1, <1>2, AnswersAppend DEF QueueType

-----------------------------------------------------------------------------
(* The buffer.                                                             *)

BufferVars == <<conn, hpc, valid, tx>>

LEMMA BufferStays == BufferInv /\ UNCHANGED BufferVars => BufferInv'
BY DEF BufferInv, BufferVars

LEMMA BufferPut == CommInv /\ BufferInv /\ cpc \in {"callback", "wait"} /\ Put => BufferInv'
<1> SUFFICES ASSUME CommInv, BufferInv, cpc \in {"callback", "wait"}, Put PROVE BufferInv'
  OBVIOUS
<1>1. cmsg.conn = conn /\ valid /\ tx = None /\ hpc # "register"
  BY DEF CommInv, LinkInv, CallbackInv, HeldInv, IsRegistered, ValidInv, Put
<1>2. tx' = cmsg /\ UNCHANGED <<conn, hpc, valid>>
  BY DEF Put, Return, hvars
<1> QED
  BY <1>1, <1>2 DEF BufferInv

LEMMA BufferNext == CommInv /\ BufferInv /\ [Next]_vars => BufferInv'
<1> SUFFICES ASSUME CommInv, BufferInv, [Next]_vars PROVE BufferInv'
  OBVIOUS
<1> USE DEF wvars, hvars
<1>1. CASE LwsCallback
  <2>1. CASE Register
    BY <2>1 DEF Register, BufferInv
  <2>2. CASE Written
    BY <2>2 DEF Written, BufferInv
  <2>3. CASE Unregister \/ CondDestroy \/ WsiDestroy
    <3>1. hpc' \notin {"register", "written"} /\ UNCHANGED <<conn, valid, tx>>
      BY <2>3 DEF Unregister, CondDestroy, WsiDestroy
    <3> QED
      BY <3>1 DEF BufferInv
  <2>4. CASE LwsEnds
    BY <2>4, BufferStays DEF LwsEnds, BufferVars
  <2> QED
    BY <1>1, <2>1, <2>2, <2>3, <2>4 DEF LwsCallback
<1>2. CASE CommTask
  <2>1. CASE CallbackPut \/ WakePut
    BY <2>1, BufferPut DEF CallbackPut, WakePut
  <2>2. CommEmpty \/ CommLookup \/ CallbackFails \/ CallbackWait \/ WakeFails \/ Discard
        => UNCHANGED BufferVars
    BY DEF CommEmpty, CommLookup, CommReceive, CallbackFails, CallbackWait, WakeFails, Discard, Return,
           BufferVars
  <2> QED
    BY <1>2, <2>1, <2>2, BufferStays DEF CommTask
<1>3. AgentTask \/ Diags \/ UNCHANGED vars => UNCHANGED BufferVars
  BY DEF AgentTask, AgentEmpty, AgentExit, AgentCall, AgentAnswer, AgentReceive, Diags, DiagTakes,
         DiagSends, vars, BufferVars
<1>4. CASE Close \/ CloseInvalid
  <2>1. hpc' \notin {"register", "written"} /\ UNCHANGED <<conn, tx>>
    BY <1>4 DEF Close, CloseInvalid
  <2>2. valid' = FALSE \/ valid' = valid
    BY <1>4, Zenon DEF Close, CloseInvalid
  <2> QED
    BY <2>1, <2>2 DEF BufferInv
<1>5. CASE MainTask /\ ~(Close \/ CloseInvalid)
  <2>1. UNCHANGED BufferVars
    BY <1>5 DEF MainTask, MainStart, MainTimeout, MainNoConnection, MainWait, MainLeave, MainContext,
                MainStopComm, MainJoinComm, MainStopAgent, MainJoinAgent, MainStep, BufferVars
  <2> QED
    BY <2>1, BufferStays
<1>6. CASE WsiCreate
  <2>1. ~valid /\ hpc = "none" /\ UNCHANGED <<hpc, valid>>
    BY <1>6 DEF WsiCreate, Event, CommInv, LinkInv, ValidInv
  <2> QED
    BY <2>1 DEF BufferInv
<1>7. CASE Established
  <2>1. tx' = None /\ hpc' # "written"
    BY <1>7 DEF Established, Event
  <2> QED
    BY <2>1 DEF BufferInv
<1>8. CASE WriteAll
  <2>1. tx # None /\ hpc' = "written" /\ UNCHANGED <<conn, valid, tx>>
    BY <1>8 DEF WriteAll, Writeable
  <2> QED
    BY <2>1 DEF BufferInv
<1>9. ClientGoes \/ WritePart \/ (\E m \in Requests \cup Errors : Receive(m)) => UNCHANGED BufferVars
  BY DEF ClientGoes, WritePart, Receive, BufferVars
<1> QED
  BY <1>1, <1>2, <1>3, <1>4, <1>5, <1>6, <1>7, <1>8, <1>9, BufferStays DEF Next, Client

LEMMA AnswersEmpty == AnswersIn(<<>>) = <<>>
<1>1. PICK f : Collects(f, <<>>, 0) /\ AnswersIn(<<>>) = f[0]
  BY AnswersCollected, EmptySeq
<1> QED
  BY <1>1, Collected

\* A message at the head of a queue, and one that is not an answer at its end.
LEMMA QueueHead ==
    ASSUME NEW S, NEW q \in Seq(S), q # <<>>
    PROVE  /\ AnswersIn(q) \in Seq(Answers) /\ AnswersIn(Tail(q)) \in Seq(Answers)
           /\ Head(q) \in Answers => AnswersIn(q) = <<Head(q)>> \o AnswersIn(Tail(q))
           /\ Head(q) \notin Answers => AnswersIn(Tail(q)) = AnswersIn(q)
<1>1. Tail(q) \in Seq(S)
  OBVIOUS
<1> QED
  BY <1>1, AnswersTail, AnswersAppend

LEMMA QueueEnd ==
    ASSUME NEW S, NEW q \in Seq(S), NEW m
    PROVE  /\ m \notin Answers => AnswersIn(Append(q, m)) = AnswersIn(q)
           /\ m \in Answers => AnswersIn(Append(q, m)) = Append(AnswersIn(q), m)
BY AnswersAppend

LEMMA NoAnswers ==
    /\ None \notin Answers
    /\ \A m \in Requests \cup Errors : m \notin Answers
BY NoneAssumption DEF Requests, Errors, Answers

\* What the client and the callback have does not change.
Near == <<InBuffer, InCallback, last, Open>>
NearVars == <<conn, valid, hpc, tx, cpc, cmsg, last>>

LEMMA NearStays == UNCHANGED NearVars => UNCHANGED Near
BY DEF NearVars, Near, InBuffer, InCallback, Open

LEMMA Unseen ==
    ASSUME UNCHANGED Near, UNCHANGED <<AnswersIn(commQ), AnswersIn(initQ)>>
    PROVE  UNCHANGED <<Pipe, last, Open>>
BY DEF Near, Pipe

LEMMA UnseenQueues ==
    ASSUME UNCHANGED Near, UNCHANGED <<commQ, initQ>>
    PROVE  UNCHANGED <<Pipe, last, Open>>
BY Unseen

\* The connection and its buffer.
LEMMA RegisterRefines ==
    ASSUME CommInv, BufferInv, Register
    PROVE  [Channel!Next]_<<Pipe, last, Open>>
<1>1. ~valid /\ tx = None /\ conn \in Conns
  BY DEF CommInv, LinkInv, ValidInv, WsiInv, BufferInv, Register, StateType
<1>2. UNCHANGED <<commQ, initQ, tx, conn, cpc, cmsg, last>> /\ hpc' = "none"
  BY DEF Register, queues, cvars
<1>3. InBuffer = <<>> /\ InBuffer' = <<>> /\ UNCHANGED InCallback
  BY <1>1, <1>2, NoAnswers DEF InBuffer, InCallback
<1>4. UNCHANGED Pipe
  BY <1>2, <1>3 DEF Pipe
<1>5. CASE valid'
  <2>1. Open = 0 /\ Open' = conn /\ conn # 0
    BY <1>1, <1>2, <1>5 DEF Open, Conns
  <2>2. Channel!Reconnect
    BY <1>1, <1>2, <1>4, <2>1 DEF Channel!Reconnect, Pipe, Open
  <2> QED
    BY <2>2 DEF Channel!Next
<1>6. CASE ~valid'
  <2>1. UNCHANGED Open
    BY <1>1, <1>6 DEF Open
  <2> QED
    BY <1>2, <1>4, <2>1
<1> QED
  BY <1>5, <1>6

LEMMA CloseRefines ==
    ASSUME CommInv, BufferInv, Close
    PROVE  [Channel!Next]_<<Pipe, last, Open>>
<1>1. valid /\ conn \in Conns /\ hpc = "none" /\ QueueType /\ QueueType'
  BY DEF CommInv, LinkInv, ValidInv, WsiInv, Close, Ends, FlagType, queues, QueueType
<1>2. UNCHANGED <<commQ, initQ, tx, conn, cpc, cmsg, last>> /\ ~valid'
  BY DEF Close, queues, cvars
<1>3. Open = conn /\ Open' = 0 /\ conn # 0
  BY <1>1, <1>2 DEF Open, Conns
<1> DEFINE behind == InCallback \o AnswersIn(commQ) \o AnswersIn(initQ)
<1>4. behind \in Seq(Answers) /\ Pipe = InBuffer \o behind /\ Pipe' = InBuffer' \o behind
  <2>2. UNCHANGED behind
    BY <1>2 DEF InCallback
  <2>3. behind \in Seq(Answers) /\ Pipe = InBuffer \o behind
    <3>1. /\ InBuffer \in Seq(Answers) /\ InCallback \in Seq(Answers)
          /\ AnswersIn(commQ) \in Seq(Answers) /\ AnswersIn(initQ) \in Seq(Answers)
      BY <1>1, PipeParts
    <3> QED
      BY <3>1, SMT DEF Pipe
  <2>4. Pipe' = InBuffer' \o behind'
    <3>1. /\ InBuffer' \in Seq(Answers) /\ InCallback' \in Seq(Answers)
          /\ AnswersIn(commQ') \in Seq(Answers) /\ AnswersIn(initQ') \in Seq(Answers)
      BY <1>1, PipeParts
    <3> QED
      BY <3>1, SMT DEF Pipe
  <2> QED
    BY <2>2, <2>3, <2>4
<1> HIDE DEF behind
<1>5. InBuffer' = <<>>
  BY <1>2 DEF InBuffer
<1>6. CASE tx \in Answers
  <2>1. InBuffer = <<tx>>
    BY <1>1, <1>6 DEF InBuffer
  <2>2. Pipe # <<>> /\ Pipe' = Tail(Pipe)
    BY <1>4, <1>5, <1>6, <2>1
  <2>3. Channel!Reconnect
    BY <1>1, <1>2, <1>3, <2>2 DEF Channel!Reconnect, Pipe, Open
  <2> QED
    BY <2>3 DEF Channel!Next
<1>7. CASE tx \notin Answers
  <2>1. UNCHANGED Pipe
    BY <1>4, <1>5, <1>7 DEF InBuffer
  <2>2. Channel!Reconnect
    BY <1>1, <1>2, <1>3, <2>1 DEF Channel!Reconnect, Pipe, Open
  <2> QED
    BY <2>2 DEF Channel!Next
<1> QED
  BY <1>6, <1>7

LEMMA WriteRefines ==
    ASSUME CommInv, CommInv', BufferInv, WriteAll
    PROVE  [Channel!Next]_<<Pipe, last, Open>>
<1>1. /\ valid /\ tx # None /\ hpc = "none" /\ tx.conn = conn /\ conn \in Conns
      /\ QueueType /\ QueueType' /\ hpc' = "written"
  BY DEF CommInv, LinkInv, WsiInv, WriteAll, Writeable, Event, BufferInv
<1>2. UNCHANGED <<commQ, initQ, tx, conn, valid, cpc, cmsg>>
      /\ last' = IF peer = "up" /\ tx \in Answers THEN tx ELSE last
  BY DEF WriteAll, queues, cvars
<1>3. UNCHANGED Open /\ Open = conn
  BY <1>1, <1>2 DEF Open
<1> DEFINE behind == InCallback \o AnswersIn(commQ) \o AnswersIn(initQ)
<1>4. behind \in Seq(Answers) /\ Pipe = InBuffer \o behind /\ Pipe' = behind
  <2>1. /\ InBuffer \in Seq(Answers) /\ InCallback \in Seq(Answers)
        /\ AnswersIn(commQ) \in Seq(Answers) /\ AnswersIn(initQ) \in Seq(Answers)
    BY <1>1, PipeParts
  <2>2. InBuffer' = <<>>
    BY <1>1 DEF InBuffer
  <2>3. UNCHANGED <<InCallback, AnswersIn(commQ), AnswersIn(initQ)>>
    BY <1>2 DEF InCallback
  <2>4. Pipe = InBuffer \o behind /\ behind \in Seq(Answers)
    BY <2>1 DEF Pipe
  <2>5. Pipe' = <<>> \o InCallback \o AnswersIn(commQ) \o AnswersIn(initQ)
    BY <2>2, <2>3 DEF Pipe
  <2>6. Pipe' = behind
    BY <2>1, <2>5
  <2> QED
    BY <2>4, <2>6
<1> HIDE DEF behind
<1>5. CASE tx \notin Answers
  <2>1. InBuffer = <<>>
    BY <1>5 DEF InBuffer
  <2>2. UNCHANGED Pipe
    BY <1>4, <2>1
  <2> QED
    BY <1>2, <1>3, <1>5, <2>2
<1>6. CASE tx \in Answers /\ peer = "up"
  <2>1. InBuffer = <<tx>>
    BY <1>1, <1>6 DEF InBuffer
  <2>2. Pipe # <<>> /\ Head(Pipe) = tx /\ Pipe' = Tail(Pipe)
    BY <1>4, <1>6, <2>1
  <2>3. Channel!Deliver
    BY <1>1, <1>2, <1>3, <1>6, <2>2 DEF Channel!Deliver, Pipe, Open
  <2> QED
    BY <2>3 DEF Channel!Next
<1>7. CASE tx \in Answers /\ peer # "up"
  <2>1. InBuffer = <<tx>>
    BY <1>1, <1>7 DEF InBuffer
  <2>2. <<>> \in Seq(Answers) /\ Pipe = <<>> \o (<<tx>> \o behind) /\ Pipe' = <<>> \o behind
    BY <1>4, <1>7, <2>1
  <2> QED
    BY <1>2, <1>3, <1>4, <1>7, <2>2, Loss
<1> QED
  BY <1>5, <1>6, <1>7

LEMMA OtherLwsRefines ==
    ASSUME CommInv, CommInv', BufferInv,
           Written \/ Unregister \/ CondDestroy \/ WsiDestroy \/ LwsEnds \/ WsiCreate \/ Established
             \/ ClientGoes \/ CloseInvalid \/ WritePart
    PROVE  [Channel!Next]_<<Pipe, last, Open>>
<1>1. UNCHANGED <<commQ, initQ, cpc, cmsg, last>>
  BY DEF Written, Unregister, CondDestroy, WsiDestroy, LwsEnds, WsiCreate, Established, ClientGoes,
         CloseInvalid, WritePart, queues, cvars
<1>2. UNCHANGED <<InBuffer, Open>>
  <2>1. CASE Written
    <3>1. hpc = "written" /\ tx' = None /\ UNCHANGED <<valid, conn>>
      BY <2>1 DEF Written
    <3> QED
      BY <3>1, NoAnswers DEF InBuffer, Open
  <2>2. CASE WsiCreate \/ Established \/ Unregister \/ CondDestroy \/ WsiDestroy
    <3>1. ~valid
      BY <2>2 DEF WsiCreate, Established, Unregister, CondDestroy, WsiDestroy, CommInv, LinkInv, ValidInv
    <3>2. ~valid'
      <4>1. valid' = FALSE \/ valid' = valid
        BY <2>2 DEF WsiCreate, Established, Unregister, CondDestroy, WsiDestroy, wvars
      <4> QED
        BY <3>1, <4>1
    <3> QED
      BY <3>1, <3>2 DEF InBuffer, Open
  <2>3. CASE LwsEnds \/ ClientGoes \/ WritePart
    <3>1. UNCHANGED <<valid, conn, tx, hpc>>
      BY <2>3 DEF LwsEnds, ClientGoes, WritePart, wvars, hvars
    <3> QED
      BY <3>1 DEF InBuffer, Open
  <2>4. CASE CloseInvalid
    <3>1. ~valid /\ UNCHANGED valid
      BY <2>4 DEF CloseInvalid, CommInv, LinkInv, ValidInv
    <3> QED
      BY <3>1 DEF InBuffer, Open
  <2> QED
    BY <2>1, <2>2, <2>3, <2>4
<1>3. UNCHANGED Near
  BY <1>1, <1>2 DEF Near, InCallback
<1> QED
  BY <1>1, <1>3, UnseenQueues

LEMMA ReceiveRefines ==
    ASSUME CommInv, NEW m \in Requests \cup Errors, Receive(m)
    PROVE  [Channel!Next]_<<Pipe, last, Open>>
<1>1. UNCHANGED NearVars
  BY DEF Receive, NearVars, hvars, cvars
<1>2. UNCHANGED <<AnswersIn(commQ), AnswersIn(initQ)>>
  <2>1. AnswersIn(Append(initQ, m)) = AnswersIn(initQ) /\ AnswersIn(Append(commQ, m)) = AnswersIn(commQ)
    BY NoAnswers, QueueEnd DEF CommInv, QueueType
  <2>2. commQ' \in {commQ, Append(commQ, m)} /\ initQ' \in {initQ, Append(initQ, m)}
    BY DEF Receive, queues
  <2> QED
    BY <2>1, <2>2
<1> QED
  BY <1>1, <1>2, NearStays, Unseen

-----------------------------------------------------------------------------
\* CommTask hands on what it takes from its queue, or loses it.
LEMMA TakeRefines ==
    ASSUME CommInv, CommInv', CommEmpty \/ CommLookup
    PROVE  [Channel!Next]_<<Pipe, last, Open>>
<1> DEFINE h == Head(commQ)
           A == AnswersIn(commQ')
           B == AnswersIn(initQ)
<1>1. UNCHANGED <<InBuffer, last, Open, initQ>> /\ cpc = "receive" /\ InCallback = <<>>
  BY DEF CommEmpty, CommLookup, CommReceive, InBuffer, InCallback, Open, wvars, hvars
<1>2. /\ commQ # <<>> /\ commQ' = Tail(commQ) /\ A \in Seq(Answers)
      /\ h \in Answers => AnswersIn(commQ) = <<h>> \o A
      /\ h \notin Answers => AnswersIn(commQ) = A
  BY QueueHead DEF CommEmpty, CommLookup, CommReceive, CommInv, QueueType
<1>3. InBuffer \in Seq(Answers) /\ B \in Seq(Answers)
  BY PipeParts DEF CommInv
<1>4. Pipe = InBuffer \o <<>> \o AnswersIn(commQ) \o B
  BY <1>1 DEF Pipe
<1>5. Pipe' = InBuffer \o InCallback' \o A \o B
  BY <1>1 DEF Pipe
<1>6. InCallback' = IF h \in Answers /\ h # None /\ h.conn \in reg THEN <<h>> ELSE <<>>
  <2>1. CASE CommEmpty
    BY <2>1, <1>1 DEF CommEmpty, InCallback
  <2>2. CASE CommLookup /\ h.conn \in reg
    BY <2>2 DEF CommLookup, InCallback
  <2>3. CASE CommLookup /\ h.conn \notin reg
    BY <2>3, <1>1 DEF CommLookup, InCallback
  <2> QED
    BY <2>1, <2>2, <2>3
<1> DEFINE r == A \o B
<1> HIDE DEF h, A, B
<1>7. r \in Seq(Answers) /\ (<<>> \o r = r) /\ (InBuffer \o <<>> = InBuffer)
  BY <1>2, <1>3
<1>8. ASSUME h \in Answers PROVE Pipe = InBuffer \o (<<h>> \o r)
  <2> DEFINE C == AnswersIn(commQ)
  <2>1. C \in Seq(Answers)
    BY PipeParts DEF CommInv
  <2>2. C = <<h>> \o A /\ C \in Seq(Answers)
    BY <1>2, <1>8, <2>1, Zenon
  <2>3. C \o B = <<h>> \o r
    BY <1>2, <1>3, <1>8, <2>2
  <2> HIDE DEF C
  <2>4. InBuffer \o C \o B = InBuffer \o (C \o B)
    BY <1>3, <2>2
  <2>5. Pipe = InBuffer \o C \o B
    BY <1>4, <1>7 DEF C
  <2> QED
    BY <2>3, <2>4, <2>5
<1>9. InBuffer \o A \o B = InBuffer \o r
  BY <1>2, <1>3
<1>10. CASE h \notin Answers
  <2>1. UNCHANGED Pipe
    BY <1>2, <1>3, <1>4, <1>5, <1>6, <1>10
  <2> QED
    BY <1>1, <2>1
<1>11. CASE h \in Answers /\ h.conn \in reg
  <2>1. InCallback' = <<h>>
    BY <1>6, <1>11, NoAnswers
  <2>2. InBuffer \o <<h>> \o A \o B = InBuffer \o (<<h>> \o r)
    <3> DEFINE front == InBuffer \o <<h>>
    <3>1. front \in Seq(Answers)
      BY <1>3, <1>11
    <3>2. front \o r = InBuffer \o (<<h>> \o r)
      <4> HIDE DEF r
      <4> QED
        BY <1>3, <1>11, <1>7
    <3> HIDE DEF front
    <3>3. front \o A \o B = front \o r
      BY <1>2, <1>3, <3>1
    <3> QED
      BY <3>2, <3>3 DEF front
  <2> HIDE DEF r
  <2>3. UNCHANGED Pipe
    BY <1>5, <1>11, <1>8, <2>1, <2>2
  <2> QED
    BY <1>1, <2>3
<1>12. CASE h \in Answers /\ h.conn \notin reg
  <2>1. InCallback' = <<>>
    BY <1>6, <1>12
  <2>2. Pipe' = InBuffer \o r
    BY <1>5, <1>7, <1>9, <2>1
  <2> HIDE DEF r
  <2> QED
    BY <1>1, <1>3, <1>12, <1>7, <1>8, <2>2, Loss
<1> QED
  BY <1>10, <1>11, <1>12

\* The callback puts the message in the buffer, or gives it up.
LEMMA CallbackRefines ==
    ASSUME CommInv, CommInv', BufferInv, CallbackPut \/ WakePut \/ CallbackFails \/ WakeFails
    PROVE  [Channel!Next]_<<Pipe, last, Open>>
<1> DEFINE r == AnswersIn(commQ) \o AnswersIn(initQ)
<1>1. /\ UNCHANGED <<commQ, initQ, valid, conn, hpc, last, Open>>
      /\ cpc \in {"callback", "wait"} /\ cpc' \notin {"callback", "wait"}
  BY DEF CallbackPut, WakePut, CallbackFails, WakeFails, Put, Return, queues, hvars, Open
<1>2. InBuffer \in Seq(Answers) /\ AnswersIn(commQ) \in Seq(Answers) /\ AnswersIn(initQ) \in Seq(Answers)
      /\ InCallback \in Seq(Answers) /\ InBuffer' \in Seq(Answers)
  BY PipeParts DEF CommInv
<1>3. Pipe = InBuffer \o InCallback \o r /\ Pipe' = InBuffer' \o r /\ r \in Seq(Answers)
  <2>1. InCallback' = <<>>
    BY <1>1 DEF InCallback
  <2>2. Pipe' = InBuffer' \o <<>> \o AnswersIn(commQ) \o AnswersIn(initQ)
    BY <1>1, <2>1 DEF Pipe
  <2>3. Pipe = InBuffer \o InCallback \o AnswersIn(commQ) \o AnswersIn(initQ)
    BY DEF Pipe
  <2>4. Pipe' = InBuffer' \o r
    BY <1>2, <2>2
  <2> DEFINE front == InBuffer \o InCallback
  <2>5. front \in Seq(Answers)
    BY <1>2
  <2> HIDE DEF front
  <2>6. front \o AnswersIn(commQ) \o AnswersIn(initQ) = front \o r /\ r \in Seq(Answers)
    BY <1>2, <2>5
  <2> HIDE DEF r
  <2> QED
    BY <2>3, <2>4, <2>6 DEF front
<1>4. InCallback = IF cmsg \in Answers THEN <<cmsg>> ELSE <<>>
  BY <1>1 DEF InCallback
<1> HIDE DEF r
<1>5. CASE CallbackPut \/ WakePut
  <2>1. valid /\ tx = None /\ tx' = cmsg
    BY <1>5 DEF CallbackPut, WakePut, Put
  <2>2. InBuffer = <<>>
    BY <2>1, NoAnswers DEF InBuffer
  <2>3. hpc # "written"
    BY <2>1 DEF BufferInv
  <2>4. InBuffer' = InCallback
    BY <1>1, <1>4, <2>1, <2>3 DEF InBuffer
  <2>5. UNCHANGED Pipe
    BY <1>2, <1>3, <2>2, <2>4
  <2> QED
    BY <1>1, <2>5
<1>6. CASE CallbackFails \/ WakeFails
  <2>1. UNCHANGED tx
    BY <1>6 DEF CallbackFails, WakeFails
  <2>2. UNCHANGED InBuffer
    BY <1>1, <2>1 DEF InBuffer
  <2>3. CASE cmsg \in Answers
    <3>1. Pipe = InBuffer \o (<<cmsg>> \o r) /\ Pipe' = InBuffer \o r
      BY <1>2, <1>3, <1>4, <2>2, <2>3
    <3> QED
      BY <1>1, <1>2, <1>3, <2>3, <3>1, Loss
  <2>4. CASE cmsg \notin Answers
    <3>1. UNCHANGED Pipe
      BY <1>2, <1>3, <1>4, <2>2, <2>4
    <3> QED
      BY <1>1, <3>1
  <2> QED
    BY <2>3, <2>4
<1> QED
  BY <1>5, <1>6

LEMMA OtherCommRefines ==
    ASSUME CallbackWait \/ Discard
    PROVE  [Channel!Next]_<<Pipe, last, Open>>
<1>1. UNCHANGED <<commQ, initQ, valid, conn, hpc, tx, last>>
  BY DEF CallbackWait, Discard, queues, wvars, hvars
<1>2. UNCHANGED InCallback
  BY DEF CallbackWait, Discard, InCallback
<1>3. UNCHANGED Near
  BY <1>1, <1>2 DEF Near, InBuffer, Open
<1> QED
  BY <1>1, <1>3, UnseenQueues

-----------------------------------------------------------------------------
\* AgentTask passes an answer on, or loses it.
LEMMA AnswerRefines ==
    ASSUME CommInv, CommInv', AgentAnswer
    PROVE  [Channel!Next]_<<Pipe, last, Open>>
<1> DEFINE h == Head(initQ)
           A == AnswersIn(commQ)
           B == AnswersIn(initQ')
           b == InBuffer \o InCallback
<1>1. UNCHANGED NearVars
  BY DEF AgentAnswer, AgentReceive, NearVars, wvars, hvars, cvars
<1>2. UNCHANGED <<InBuffer, InCallback, last, Open>>
  BY <1>1, NearStays DEF Near
<1>3. h \in Answers
  BY Kinds, TailType, ConstAssumption DEF AgentAnswer, AgentReceive, CommInv, QueueType
<1>4. /\ InBuffer \in Seq(Answers) /\ InCallback \in Seq(Answers) /\ A \in Seq(Answers)
      /\ B \in Seq(Answers)
  BY PipeParts DEF CommInv
<1>5. AnswersIn(initQ) = <<h>> \o B
  BY <1>3, QueueHead DEF AgentAnswer, AgentReceive, CommInv, QueueType
<1>6. AnswersIn(commQ') \in {Append(A, h), A}
  BY <1>3, QueueEnd DEF AgentAnswer, CommInv, QueueType
<1>7. Pipe = InBuffer \o InCallback \o A \o AnswersIn(initQ)
  BY DEF Pipe
<1>8. Pipe' = InBuffer \o InCallback \o AnswersIn(commQ') \o B
  BY <1>2 DEF Pipe
<1> HIDE DEF h, A, B
<1>9. CASE AnswersIn(commQ') = Append(A, h)
  <2> DEFINE front == InBuffer \o InCallback
  <2>1. front \in Seq(Answers)
    BY <1>4
  <2> HIDE DEF front
  <2>2. front \o A \in Seq(Answers) /\ front \o Append(A, h) = Append(front \o A, h)
    BY <1>3, <1>4, <2>1
  <2> DEFINE C == front \o A
  <2>3. C \in Seq(Answers)
    BY <2>2
  <2> HIDE DEF C
  <2>4. Append(C, h) \o B = C \o (<<h>> \o B)
    BY <1>3, <1>4, <2>3
  <2>5. UNCHANGED Pipe
    BY <1>5, <1>7, <1>8, <1>9, <2>2, <2>4 DEF front, C
  <2> QED
    BY <1>2, <2>5
<1>10. CASE AnswersIn(commQ') = A
  <2> DEFINE front == InBuffer \o InCallback \o A
  <2>1. front \in Seq(Answers) /\ Pipe = front \o (<<h>> \o B) /\ Pipe' = front \o B
    BY <1>3, <1>4, <1>5, <1>7, <1>8, <1>10
  <2> HIDE DEF front
  <2> QED
    BY <1>2, <1>3, <1>4, <2>1, Loss
<1> QED
  BY <1>6, <1>9, <1>10

LEMMA OtherAgentRefines ==
    ASSUME CommInv, AgentEmpty \/ AgentExit \/ AgentCall
    PROVE  [Channel!Next]_<<Pipe, last, Open>>
<1>1. UNCHANGED NearVars /\ UNCHANGED commQ
  BY DEF AgentEmpty, AgentExit, AgentCall, AgentReceive, NearVars, wvars, hvars, cvars
<1>2. initQ # <<>> /\ initQ' = Tail(initQ) /\ Head(initQ) \notin Answers
  BY NoAnswers DEF AgentEmpty, AgentExit, AgentCall, AgentReceive, Answers
<1>3. AnswersIn(initQ') = AnswersIn(initQ)
  BY <1>2, QueueHead DEF CommInv, QueueType
<1> QED
  BY <1>1, <1>3, NearStays, Unseen

\* A diag sends an answer; a call it takes is none.
LEMMA DiagsRefine ==
    ASSUME CommInv, Diags
    PROVE  [Channel!Next]_<<Pipe, last, Open>>
<1>1. UNCHANGED NearVars /\ UNCHANGED commQ
  BY DEF Diags, DiagTakes, DiagSends, NearVars, wvars, hvars, cvars
<1>2. CASE DiagTakes
  BY <1>1, <1>2, NearStays, UnseenQueues DEF DiagTakes
<1>3. ASSUME NEW a \in Answers, DiagSends(a) PROVE [Channel!Next]_<<Pipe, last, Open>>
  <2>1. UNCHANGED <<InBuffer, InCallback, last, Open>>
    BY <1>1, NearStays DEF Near
  <2>2. AnswersIn(initQ') = Append(AnswersIn(initQ), a)
    BY <1>3, QueueEnd DEF DiagSends, CommInv, QueueType
  <2>3. /\ InBuffer \in Seq(Answers) /\ InCallback \in Seq(Answers) /\ AnswersIn(commQ) \in Seq(Answers)
        /\ AnswersIn(initQ) \in Seq(Answers)
    <3>1. InBuffer \in Seq(Answers) /\ InCallback \in Seq(Answers)
      BY DEF InBuffer, InCallback
    <3> QED
      BY <3>1, AnswersAppend DEF CommInv, QueueType
  <2>4. Pipe = InBuffer \o InCallback \o AnswersIn(commQ) \o AnswersIn(initQ)
    BY DEF Pipe
  <2>5. Pipe' = InBuffer \o InCallback \o AnswersIn(commQ) \o Append(AnswersIn(initQ), a)
    BY <1>1, <2>1, <2>2 DEF Pipe
  <2>6. Pipe' = Append(Pipe, a)
    BY <2>3, <2>4, <2>5
  <2>7. Channel!Send
    BY <2>1, <2>6 DEF Channel!Send, Pipe, Open
  <2> QED
    BY <2>7 DEF Channel!Next
<1> QED
  BY <1>2, <1>3 DEF Diags

\* The main thread sends only the messages that stop the tasks.
LEMMA MainRefines ==
    ASSUME CommInv, MainTask, ~Close, ~CloseInvalid
    PROVE  [Channel!Next]_<<Pipe, last, Open>>
<1>1. UNCHANGED NearVars
  BY DEF MainTask, MainStart, MainTimeout, MainNoConnection, MainWait, MainLeave, MainContext,
         MainStopComm, MainJoinComm, MainStopAgent, MainJoinAgent, MainStep,
         NearVars, wvars, hvars, cvars
<1>2. commQ' \in {commQ, Append(commQ, None)} /\ initQ' \in {initQ, Append(initQ, None)}
  BY DEF MainTask, MainStart, MainTimeout, MainNoConnection, MainWait, MainLeave, MainContext,
         MainStopComm, MainJoinComm, MainStopAgent, MainJoinAgent, queues
<1>3. AnswersIn(Append(initQ, None)) = AnswersIn(initQ)
      /\ AnswersIn(Append(commQ, None)) = AnswersIn(commQ)
  BY NoAnswers, QueueEnd DEF CommInv, QueueType
<1> QED
  BY <1>1, <1>2, <1>3, NearStays, Unseen

LEMMA StepRefines ==
    ASSUME CommInv, CommInv', BufferInv, [Next]_vars
    PROVE  [Channel!Next]_<<Pipe, last, Open>>
<1>1. UNCHANGED vars => UNCHANGED NearVars /\ UNCHANGED <<commQ, initQ>>
  BY DEF vars, NearVars, queues, wvars, hvars, cvars
<1>2. LwsCallback => Register \/ Written \/ Unregister \/ CondDestroy \/ WsiDestroy \/ LwsEnds
  BY DEF LwsCallback
<1> QED
  BY <1>1, <1>2, NearStays, UnseenQueues, RegisterRefines, CloseRefines, WriteRefines, OtherLwsRefines,
     ReceiveRefines, TakeRefines, CallbackRefines, OtherCommRefines, AnswerRefines, OtherAgentRefines,
     DiagsRefine, MainRefines
     DEF Next, CommTask, AgentTask, Client

\* What reaches the client is what the diags sent it, less what was lost, in its order,
\* once, and over the connection it is for.
THEOREM Lossy_But_In_Order == Spec => LossyButInOrder
<1>1. Init => Channel!Init
  <2> SUFFICES ASSUME Init PROVE Channel!Init
    OBVIOUS
  <2>1. InBuffer = <<>> /\ InCallback = <<>> /\ commQ = <<>> /\ initQ = <<>>
    BY DEF Init, InBuffer, InCallback
  <2>2. Pipe = <<>>
    BY <2>1, AnswersEmpty DEF Pipe
  <2>3. Open = 0 /\ last = None
    BY DEF Init, Open
  <2> QED
    BY <2>2, <2>3 DEF Channel!Init, Pipe, Open
<1>2. Init => BufferInv
  BY DEF Init, BufferInv
<1>3. CommInv /\ CommInv' /\ BufferInv /\ [Next]_vars => [Channel!Next]_<<Pipe, last, Open>>
  BY StepRefines
<1> QED
  BY <1>1, <1>2, <1>3, BufferNext, CommInvHolds, PTL DEF Spec, LossyButInOrder, Channel!Spec, Pipe, Open
=============================================================================
