------------------------------- MODULE WaTuner ------------------------------
(***************************************************************************)
(* The tuner diagnostic (agent/core/diag/wa_diag_tuner.c) as configure     *)
(* builds it, with TRM and the status files of the front ends: a task of   *)
(* the agent that asks for the state of the tuners, tunes to entries of    *)
(* the SI cache through reservations of TRM, and judges by the locks it    *)
(* sees.  Given a channel it is a test of its own ("alone"), that reports  *)
(* in the tune results file too.  TRM answers a reservation at any time,   *)
(* also when nobody waits any more, and any client may cancel the test.    *)
(***************************************************************************)
EXTENDS Integers, FiniteSets, Sequences, FiniteSetsExt, SequencesExt

CONSTANTS
    NumTuners,      \* what the configuration or RMF names, when they do
    NumSiEntries,   \* NUM_SI_ENTRIES, 2 in the source
    LockLoopCount,  \* LOCK_LOOP_COUNT, 15 in the source
    Powers,         \* QAM power levels, in tenths of dBmV
    DecoderFiles,   \* contents of the status file of the video decoders
    TransportFiles, \* and of that of the transport
    TunerMayFail    \* files, memory and calls to other services may fail

ASSUME TunerAssumption ==
    /\ NumTuners \in Nat \ {0} /\ NumSiEntries \in Nat \ {0} /\ LockLoopCount \in Nat \ {0}
    /\ Powers \subseteq Int /\ IsFiniteSet(Powers)
    /\ TunerMayFail \in BOOLEAN

Tuners == 1..NumTuners

VARIABLES
    upc,        \* the step of WA_DIAG_TUNER_status
    alone, decoder,          \* standAloneTest, decoderData
    uquit,      \* the quit flag of the task
    result,     \* what it returns, "none" until then
    heap,       \* the memory it holds
    tuneFile,   \* the tune results file
    unwritten,  \* history: a write to that file failed in this test
    lucky,      \* luckyId plus 1: 0 for none
    tuneUrls, url,           \* entries of the SI cache to tune to, urlIndex plus 1
    locked, numLocked, freqLocked,  \* statuses[].locked and what they add up to
    power, step,             \* avg_ChPwr, and the counter of the loop under way
    retCode,    \* whether the last look at the status file succeeded
    qamLocked,  \* history: the tuners said at the start of the test that one is locked
    session,    \* sessions[0].socket is set
    trh,        \* the status in the listener of each reservation, "none" without one
    givenUp     \* history: reservations whose handler nobody has any more, and that
                \* were not deleted

uctl == <<upc, alone, decoder, uquit, result>>
ufile == <<tuneFile, unwritten>>
ulock == <<locked, numLocked, freqLocked, retCode>>
uqam == <<power, qamLocked>>
utrh == <<session, trh, givenUp>>
uvars == <<uctl, heap, ufile, lucky, tuneUrls, url, ulock, uqam, step, utrh>>

Reservations == 1..NumSiEntries
Codes == {"none", "SUCCESS", "FAILURE", "NO_LOCK", "BUSY", "CANCELLED", "NOT_STANDBY",
          "INTERNAL", "NOT_APPLICABLE", "SI_MISSING"}

UInit ==
    /\ upc = "idle" /\ alone = FALSE /\ decoder = FALSE /\ uquit = FALSE /\ result = "none"
    /\ heap = {} /\ tuneFile = "none" /\ unwritten = FALSE /\ lucky = 0
    /\ tuneUrls = <<>> /\ url = 1
    /\ locked = [t \in Tuners |-> FALSE] /\ numLocked = 0 /\ freqLocked = FALSE
    /\ retCode = FALSE /\ power = 0 /\ qamLocked = FALSE /\ step = 1
    /\ session = FALSE /\ trh = [r \in Reservations |-> "none"] /\ givenUp = {}

MayBe(fails) == TunerMayFail /\ fails

\* The outcomes of writing the file: fopen or the dump may fail.
Write(what) ==
    \/ tuneFile' = what /\ UNCHANGED unwritten
    \/ MayBe(TRUE) /\ unwritten' = TRUE /\ tuneFile' \in {tuneFile, "partial"}

\* saveTuneFailureMsg, when the test is one of its own.
SaveTuneFailureMsg == IF alone THEN Write("message") ELSE UNCHANGED ufile

Return(code) == upc' = "idle" /\ result' = code

-----------------------------------------------------------------------------
(* A test starts; whether it is one of its own is read from the request.   *)

GetTuneData ==
    /\ upc = "idle"
    /\ alone' \in BOOLEAN
    /\ upc' = IF alone' THEN "standby" ELSE "tuners"
    /\ decoder' = FALSE /\ uquit' = FALSE /\ result' = "none"
    /\ heap' = {} /\ unwritten' = FALSE
    /\ tuneFile' = IF tuneFile = "none" THEN "none" ELSE "stale"
    /\ tuneUrls' = <<>> /\ url' = 1
    /\ locked' = [t \in Tuners |-> FALSE] /\ numLocked' = 0 /\ freqLocked' = FALSE
    /\ retCode' = FALSE /\ power' = 0 /\ qamLocked' = FALSE /\ step' = 1
    /\ session' = FALSE /\ trh' = [r \in Reservations |-> "none"] /\ givenUp' = {}
    /\ UNCHANGED lucky

\* WA_OSA_TaskSignalQuit: the test is cancelled.
CancelTest ==
    /\ upc # "idle" /\ ~uquit /\ uquit' = TRUE
    /\ UNCHANGED <<upc, alone, decoder, result, heap, ufile, lucky, tuneUrls, url,
                   ulock, uqam, step, utrh>>

ulater == <<lucky, tuneUrls, url, ulock, uqam, step, utrh>>

\* verifyStandbyState: the results of an older test go first.
RemoveTuneResults ==
    /\ upc = "standby"
    /\ \/ upc' = "power" /\ tuneFile' = "none" /\ UNCHANGED <<result, unwritten>>
       \/ MayBe(tuneFile # "none") /\ Return("INTERNAL") /\ SaveTuneFailureMsg
    /\ UNCHANGED <<alone, decoder, uquit, heap, ulater>>

\* Then IARM must say that the device is in standby.
VerifyStandbyState ==
    /\ upc = "power"
    /\ \/ upc' = "decoder" /\ result' = "SUCCESS" /\ UNCHANGED ufile
       \/ Return("NOT_STANDBY") /\ SaveTuneFailureMsg
       \/ MayBe(TRUE) /\ Return("INTERNAL") /\ SaveTuneFailureMsg
    /\ UNCHANGED <<alone, decoder, uquit, heap, ulater>>

-----------------------------------------------------------------------------
(* What the decoders and the transport say of themselves: a line of a file *)
(* is the word it starts with.                                             *)

HvdStep(s, line) ==
    CASE s.mode = "HVD" /\ line = "HVD" -> [s EXCEPT !.mode = "idx"]
      [] s.mode = "idx" /\ line \notin {"idx", "HVD"} -> [s EXCEPT !.mode = "bad"]
      [] s.mode = "idx" /\ line = "idx" -> [s EXCEPT !.mode = "started"]
      [] s.mode = "started" /\ line = "started=y" -> [s EXCEPT !.mode = "TSM"]
      [] s.mode = "started" /\ line = "started=n" -> [s EXCEPT !.mode = "HVD"]
      [] s.mode = "TSM" /\ line = "TSM" -> [s EXCEPT !.mode = "Decode"]
      [] s.mode = "Decode" /\ line = "Decode" -> [s EXCEPT !.mode = "Display"]
      [] s.mode = "Display" /\ line = "Display" -> [mode |-> "HVD", running |-> TRUE]
      [] OTHER -> s

\* A decoder counts as running only when all its lines were there.
GetVideoDecoderData(file) ==
    FoldLeft(HvdStep, [mode |-> "HVD", running |-> FALSE], file).running

\* The bands come first and the first line that is none ends them, unseen
\* as a channel; so with the channels.
GetTransportData(file) ==
    LET notBand == {i \in DOMAIN file : file[i] # "band" /\ \E j \in 1..i : file[j] = "band"}
        rest == IF notBand = {} THEN <<>> ELSE SubSeq(file, Min(notBand) + 1, Len(file))
    IN (IF "band" \in ToSet(file) THEN {"parser"} ELSE {})
       \cup (IF "channel" \in ToSet(rest) THEN {"pid"} ELSE {})

NoMemory ==
    /\ MayBe(TRUE) /\ Return("INTERNAL") /\ SaveTuneFailureMsg
    /\ heap' = {} /\ UNCHANGED decoder

ReadDecoder ==
    /\ upc = "decoder"
    /\ \/ NoMemory
       \/ /\ \/ /\ \E f \in DecoderFiles : ~GetVideoDecoderData(f)
                /\ decoder' = FALSE /\ heap' = {}
             \/ /\ \E f \in DecoderFiles : GetVideoDecoderData(f)
                /\ decoder' = TRUE
                /\ \E f \in TransportFiles : heap' = {"hvd"} \cup GetTransportData(f)
          /\ upc' = "tuners" /\ UNCHANGED <<result, ufile>>
    /\ UNCHANGED <<alone, uquit, ulater>>

-----------------------------------------------------------------------------
(* The tuners: how many there are, and what SNMP says of them.             *)

GetNumberOfTuners ==
    /\ upc = "tuners"
    /\ \/ upc' = (IF decoder THEN "urls" ELSE "qam") /\ UNCHANGED <<result, ufile>>
       \/ Return("NOT_APPLICABLE") /\ SaveTuneFailureMsg
    /\ UNCHANGED <<alone, decoder, uquit, heap, ulater>>

\* The average is that of all tuners, in whole dBmV the same comparison.
NoSignal(sum) == sum = 0 \/ sum < (-250) * NumTuners

\* What checkQamConnection found ends a usual test, unless it is that the
\* tuners have a signal and no lock; one of its own ends only without a signal.
QamChecked(code) ==
    /\ result' = code
    /\ IF alone THEN (IF code = "NO_LOCK" THEN upc' = "idle" /\ SaveTuneFailureMsg
                      ELSE upc' = "urls" /\ UNCHANGED ufile)
       ELSE upc' = (IF code = "FAILURE" THEN "urls" ELSE "idle") /\ UNCHANGED ufile

CheckQamConnection ==
    /\ upc = "qam"
    /\ \/ step > NumTuners /\ QamChecked(IF NoSignal(power) THEN "NO_LOCK" ELSE "FAILURE")
          /\ UNCHANGED <<step, uqam>>
       \/ step <= NumTuners /\ uquit /\ QamChecked("CANCELLED") /\ UNCHANGED <<step, uqam>>
       \/ /\ step <= NumTuners /\ ~uquit
          /\ \/ MayBe(TRUE) /\ QamChecked("INTERNAL") /\ UNCHANGED <<step, uqam>>
             \/ qamLocked' = TRUE /\ QamChecked("SUCCESS") /\ UNCHANGED <<step, power>>
             \/ /\ \E p \in Powers : power' = power + p
                /\ step' = step + 1 /\ UNCHANGED <<upc, result, ufile, qamLocked>>
    /\ UNCHANGED <<alone, decoder, uquit, heap, lucky, tuneUrls, url, ulock, utrh>>

-----------------------------------------------------------------------------
(* The entries to tune to.                                                 *)

\* getTuneUrls: the lucky one first, when it is among the n that were read, and
\* the others in their order.
UrlsOf(n) ==
    [k \in 1..n |->
        CASE lucky \notin 1..n \/ k > lucky -> k
          [] lucky \in 1..n /\ k = 1 -> lucky
          [] lucky \in 1..n /\ 1 < k /\ k <= lucky -> k - 1]

\* TuningRead gives up, or finds none, or at most what it was asked for.
TuningRead == 0..(IF alone THEN 1 ELSE NumSiEntries)

GetTuneUrls ==
    /\ upc = "urls" /\ step' = 1
    /\ \/ /\ uquit /\ Return("CANCELLED")
          /\ heap' = heap \cup {"urls"} /\ UNCHANGED <<ufile, tuneUrls>>
       \/ /\ ~uquit /\ Return("SI_MISSING") /\ SaveTuneFailureMsg
          /\ UNCHANGED <<heap, tuneUrls>>
       \/ /\ ~uquit /\ \E n \in TuningRead \ {0} : tuneUrls' = UrlsOf(n)
          /\ \/ /\ upc' = (IF decoder THEN "look" ELSE "url")
                /\ heap' = heap \cup {"urls", "frontend"} /\ UNCHANGED <<result, ufile>>
             \/ /\ MayBe(~decoder) /\ upc' = "url"
                /\ heap' = heap \cup {"urls"} /\ UNCHANGED <<result, ufile>>
             \/ /\ MayBe(decoder) /\ Return("INTERNAL") /\ SaveTuneFailureMsg
                /\ heap' = {"urls"}
    /\ UNCHANGED <<alone, decoder, uquit, lucky, url, ulock, uqam, utrh>>

-----------------------------------------------------------------------------
(* The locks: WA_DIAG_TUNER_GetTunerStatuses reads the status file of the  *)
(* front ends, up to the first one locked at the frequency it looks for.   *)

FrontEnds == {"idle", "open", "elsewhere", "here", "unreadable"}
HasLock == {"elsewhere", "here", "unreadable"}
StatusFiles == UNION {[1..n -> FrontEnds] : n \in 0..NumTuners}

LookUpTo(file, forFreq) ==
    LET here == {i \in DOMAIN file : forFreq /\ file[i] = "here"}
    IN IF here = {} THEN Len(file) ELSE Min(here)

\* A lock once seen counts for the rest of the test.
LocksIn(file, n) ==
    [t \in Tuners |-> locked[t] \/ (t <= n /\ file[t] \in HasLock)]

\* Mutant: the count of an earlier look is not reset.
GetTunerStatusesAddingUp(file, forFreq) ==
    LET n == LookUpTo(file, forFreq)
        found == forFreq /\ "here" \in ToSet(file)
    IN /\ locked' = LocksIn(file, n)
       /\ freqLocked' = IF forFreq THEN found
                        ELSE freqLocked /\ ToSet(file) \cap HasLock = {}
       /\ numLocked' = IF Len(file) < NumTuners /\ ~found THEN 0
                       ELSE Min({NumTuners, numLocked
                                            + Cardinality({t \in 1..n : LocksIn(file, n)[t]})})
       /\ retCode' = TRUE

\* A file with fewer front ends than tuners counts for nothing.
GetTunerStatuses(file, forFreq) ==
    LET n == LookUpTo(file, forFreq)
        found == forFreq /\ "here" \in ToSet(file)
    IN /\ locked' = LocksIn(file, n)
       /\ freqLocked' = IF forFreq THEN found
                        ELSE freqLocked /\ ToSet(file) \cap HasLock = {}
       /\ numLocked' = IF Len(file) < NumTuners /\ ~found THEN 0
                       ELSE Cardinality({t \in 1..n : LocksIn(file, n)[t]})
       /\ retCode' = TRUE

\* No file, or cancelled behind some of its lines: what was read so far counts.
StatusesCutShort(forFreq) ==
    /\ retCode' = FALSE
    /\ \/ MayBe(TRUE) /\ numLocked' = 0 /\ UNCHANGED <<locked, freqLocked>>
       \/ /\ uquit
          /\ \E file \in StatusFiles :
                LET n == Min({NumTuners, LookUpTo(file, forFreq)})
                IN /\ ~(forFreq /\ "here" \in ToSet(file))
                   /\ locked' = LocksIn(file, n)
                   /\ numLocked' = Cardinality({t \in 1..n : LocksIn(file, n)[t]})
                   /\ freqLocked' = (freqLocked /\ ToSet(file) \cap HasLock = {})

LookAtTuners(forFreq) ==
    \/ StatusesCutShort(forFreq)
    \/ \E file \in StatusFiles : GetTunerStatuses(file, forFreq)

\* With decoders running nothing is tuned: the front end is looked for and
\* all that is known goes to the file, without the front end if not found.
LookForDecoder ==
    /\ upc = "look" /\ step <= LockLoopCount /\ ~freqLocked
    /\ LookAtTuners(TRUE) /\ step' = step + 1
    /\ UNCHANGED <<uctl, heap, ufile, lucky, tuneUrls, url, uqam, utrh>>

SaveDecoderTuneResults ==
    /\ upc = "look" /\ (step > LockLoopCount \/ freqLocked) /\ upc' = "end"
    /\ Write(IF freqLocked THEN "results" ELSE "noFrontend")
    /\ result' = IF freqLocked THEN "SUCCESS" ELSE "FAILURE"
    /\ heap' = {"urls"} \cup (IF freqLocked THEN {"frontend"} ELSE {})
    /\ UNCHANGED <<alone, decoder, uquit, ulater>>

-----------------------------------------------------------------------------
(* The loop over the entries.                                              *)

NextUrl ==
    /\ upc = "url"
    /\ \/ url > Len(tuneUrls) /\ upc' = "end" /\ UNCHANGED <<result, ulock>>
       \/ /\ url <= Len(tuneUrls) /\ uquit
          /\ upc' = "end" /\ result' = "CANCELLED"
          /\ numLocked' = 0 /\ UNCHANGED <<locked, freqLocked, retCode>>
       \/ /\ url <= Len(tuneUrls) /\ ~uquit
          /\ IF alone THEN numLocked' = 0 /\ UNCHANGED <<locked, freqLocked, retCode>>
             ELSE LookAtTuners(FALSE)
          /\ IF ~alone /\ retCode' /\ numLocked' = NumTuners
             THEN upc' = "end" /\ result' = "SUCCESS"
             ELSE upc' = "reserve" /\ UNCHANGED result
    /\ step' = 1
    /\ UNCHANGED <<alone, decoder, uquit, heap, ufile, lucky, tuneUrls, url, uqam, utrh>>

ustill == <<alone, decoder, uquit, heap, ufile, lucky, tuneUrls, uqam>>

\* The exception at the end of WA_UTILS_TRH_ReserveTuner comes before its delete: TRM
\* may still answer the request and hold a tuner for it, for its time.
GiveUp == givenUp' = givenUp \cup {url}

\* WA_UTILS_TRH_ReserveTuner: without the states of the tuners the handler is
\* deleted; without a free one, or without TRM taking the request, it is not.
ReserveTuner ==
    /\ upc = "reserve" /\ ~uquit
    /\ \/ MayBe(TRUE) /\ upc' = "started" /\ UNCHANGED <<trh, givenUp>>
       \/ upc' = "started" /\ trh' = [trh EXCEPT ![url] = "idle"] /\ GiveUp
       \/ upc' = "reserving" /\ trh' = [trh EXCEPT ![url] = "unreserved"] /\ UNCHANGED givenUp
    /\ UNCHANGED <<ustill, result, url, ulock, step, session>>

\* startTuneSessions looks at the quit flag before it reserves.
ReserveCancelled ==
    /\ upc = "reserve" /\ uquit /\ upc' = "started"
    /\ UNCHANGED <<ustill, result, url, ulock, step, utrh>>

\* TRM answers; it takes the tuner back when the time of the reservation is over.
TrmAnswers ==
    /\ \E r \in Reservations :
          \/ /\ trh[r] = "unreserved"
             /\ \E s \in {"reserved", "failed"} : trh' = [trh EXCEPT ![r] = s]
          \/ trh[r] = "reserved" /\ trh' = [trh EXCEPT ![r] = "released"]
    /\ UNCHANGED <<uctl, heap, ufile, lucky, tuneUrls, url, ulock, uqam, step, session, givenUp>>

\* The wait ends by an answer or by its time; the status is read once for
\* success and once more for a release that came at once.
ReserveWaitEnds ==
    /\ upc = "reserving"
    /\ \/ trh[url] = "reserved" /\ upc' = "reserved" /\ UNCHANGED givenUp
       \/ trh[url] # "reserved" /\ upc' = "started" /\ GiveUp
    /\ UNCHANGED <<ustill, result, url, ulock, step, session, trh>>

Reserved ==
    /\ upc = "reserved"
    /\ session' = (trh[url] # "released")
    /\ IF session' THEN UNCHANGED givenUp ELSE GiveUp
    /\ upc' = IF session' /\ ~uquit THEN "releaseWait" ELSE "started"
    /\ UNCHANGED <<ustill, result, url, ulock, step, trh>>

\* WA_UTILS_TRH_WaitForTunerRelease: whether it came is only logged.
WaitForTunerRelease ==
    /\ upc = "releaseWait" /\ upc' = "started"
    /\ UNCHANGED <<ustill, result, url, ulock, step, utrh>>

\* The outcome of startTuneSessions is only logged too; on a cancelled test
\* the session is left to the time of its reservation.
SessionsStarted ==
    /\ upc = "started"
    /\ IF uquit THEN upc' = "end" /\ result' = "CANCELLED" /\ UNCHANGED <<retCode, numLocked>>
       ELSE upc' = "probe" /\ retCode' = TRUE /\ numLocked' = 0 /\ UNCHANGED result
    /\ UNCHANGED <<ustill, url, locked, freqLocked, step, utrh>>

ProbeAgain ==
    retCode /\ step <= LockLoopCount /\ numLocked < NumTuners /\ ~uquit /\ ~freqLocked

Probe ==
    /\ upc = "probe" /\ ProbeAgain
    /\ LookAtTuners(TRUE) /\ step' = step + 1
    /\ UNCHANGED <<uctl, heap, ufile, lucky, tuneUrls, url, uqam, utrh>>

\* Mutant: the session is left open behind the looks at the tuners.
CloseTuneSessionsSkipped ==
    /\ upc = "probe" /\ ~ProbeAgain /\ upc' = "judge"
    /\ UNCHANGED <<ustill, result, url, ulock, step, utrh>>

\* WA_UTILS_TRH_ReleaseTuner asks TRM even for a tuner it has taken back, waits
\* at most for some time, and deletes the handler whatever the answer was.
ReleaseTuner ==
    /\ session' = FALSE
    /\ trh' = IF session THEN [trh EXCEPT ![url] = "none"] ELSE trh
    /\ UNCHANGED givenUp

CloseTuneSessions ==
    /\ upc = "probe" /\ ~ProbeAgain /\ upc' = "judge"
    /\ ReleaseTuner
    /\ UNCHANGED <<ustill, result, url, ulock, step>>

\* An entry is lucky by its place in the list, not in the cache.
SetLuckyId == lucky' = IF numLocked > 0 THEN url ELSE 0

AllLocked == IF alone THEN freqLocked ELSE numLocked >= NumTuners

\* saveTuneResults, in a usual test too: what no front end was found for is
\* whatever the memory holds, and without memory the agent dies.
SaveTuneResults ==
    IF "frontend" \in heap
    THEN Write(IF freqLocked THEN "results" ELSE "garbage") /\ upc' = "url"
    ELSE upc' = "dead" /\ UNCHANGED ufile

Judge ==
    /\ upc = "judge" /\ SetLuckyId
    /\ \/ ~retCode /\ SaveTuneFailureMsg /\ result' = "FAILURE" /\ upc' = "end"
       \/ retCode /\ AllLocked /\ SaveTuneResults /\ result' = "SUCCESS"
       \/ /\ retCode /\ ~AllLocked /\ SaveTuneFailureMsg /\ upc' = "url"
          /\ result' = IF ~alone /\ numLocked = NumTuners - 1 THEN "BUSY" ELSE "NO_LOCK"
    /\ url' = url + 1
    /\ UNCHANGED <<alone, decoder, uquit, heap, tuneUrls, ulock, uqam, step, utrh>>

EndTest ==
    /\ upc = "end" /\ upc' = "idle"
    /\ heap' = heap \ {"frontend", "urls"}
    /\ UNCHANGED <<alone, decoder, uquit, result, ufile, ulater>>

\* The agent starts again with no memory of the test; the file stays.
TunerRestart ==
    /\ upc = "dead" /\ upc' = "idle"
    /\ result' = "none" /\ heap' = {} /\ lucky' = 0 /\ session' = FALSE
    /\ trh' = [r \in Reservations |-> "none"] /\ givenUp' = {}
    /\ UNCHANGED <<alone, decoder, uquit, ufile, tuneUrls, url, ulock, uqam, step>>

UNext ==
    \/ GetTuneData \/ CancelTest \/ RemoveTuneResults \/ VerifyStandbyState \/ ReadDecoder
    \/ GetNumberOfTuners \/ CheckQamConnection \/ GetTuneUrls
    \/ LookForDecoder \/ SaveDecoderTuneResults
    \/ NextUrl \/ ReserveTuner \/ ReserveCancelled \/ TrmAnswers \/ ReserveWaitEnds
    \/ Reserved \/ WaitForTunerRelease \/ SessionsStarted \/ Probe
    \/ CloseTuneSessions \/ Judge \/ EndTest \/ TunerRestart

USpec == UInit /\ [][UNext]_uvars

-----------------------------------------------------------------------------

\* The variables keep to their types.
UTypeOK ==
    /\ upc \in {"idle", "standby", "power", "decoder", "tuners", "qam", "urls", "look", "url",
                "reserve", "reserving", "reserved", "releaseWait", "started", "probe",
                "judge", "end", "dead"}
    /\ alone \in BOOLEAN /\ decoder \in BOOLEAN /\ uquit \in BOOLEAN /\ result \in Codes
    /\ heap \subseteq {"hvd", "parser", "pid", "urls", "frontend"}
    /\ tuneFile \in {"none", "stale", "message", "partial", "results", "noFrontend", "garbage"}
    /\ unwritten \in BOOLEAN /\ lucky \in 0..NumSiEntries
    /\ tuneUrls \in Seq(Reservations) /\ Len(tuneUrls) <= NumSiEntries
    /\ url \in 1..(NumSiEntries + 1)
    /\ locked \in [Tuners -> BOOLEAN] /\ numLocked \in 0..NumTuners
    /\ freqLocked \in BOOLEAN /\ retCode \in BOOLEAN
    /\ power \in Int /\ qamLocked \in BOOLEAN
    /\ step \in 1..(Max({LockLoopCount, NumTuners}) + 1)
    /\ session \in BOOLEAN
    /\ trh \in [Reservations -> {"none", "idle", "unreserved", "reserved", "failed", "released"}]
    /\ givenUp \in SUBSET Reservations

\* What a test took it gives back.  A session, and a handler with the tuner that TRM
\* holds for it, is left only by a cancelled test - and by a reservation that was given
\* up: that TRM did not take, refused, took back at once, or answered when nobody waited
\* any more.  Such a late answer keeps a tuner to the end of the reservation's time, and
\* the handler for good.  The list of entries is left only by a cancelled test or one
\* without memory, and what the decoders said only by one that ended before it looked
\* for the front end.
ReturnsEverything ==
    upc = "idle" =>
        /\ session => result = "CANCELLED"
        /\ \A r \in Reservations : trh[r] # "none" => result = "CANCELLED" \/ r \in givenUp
        /\ "frontend" \notin heap
        /\ "urls" \in heap => result \in {"CANCELLED", "INTERNAL"}
        /\ heap \cap {"hvd", "parser", "pid"} # {} =>
              decoder /\ result \in {"NOT_APPLICABLE", "SI_MISSING", "CANCELLED"}

\* A usual test succeeds only if SNMP said that a tuner is locked or every
\* tuner was seen locked in this very test.  A test of its own succeeds only
\* with its results in the file, and otherwise never leaves results there, its
\* own or those of a test before it, unless the file could not be written.
SuccessIsEarned ==
    upc = "idle" /\ result # "none" =>
        IF alone
        THEN ~unwritten => (result = "SUCCESS" <=> tuneFile = "results")
                           /\ tuneFile # "stale"
        ELSE result = "SUCCESS" => qamLocked \/ \A t \in Tuners : locked[t]
=============================================================================
