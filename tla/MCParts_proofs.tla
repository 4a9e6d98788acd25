--------------------------- MODULE MCParts_proofs ----------------------------
(***************************************************************************)
(* The parts that others only call, each for every value of its constants: *)
(* the tuner diagnostic gives back what it takes and earns the success it  *)
(* reports; the connection to IARM is there for everyone who uses it, and  *)
(* the diagnostics that ask over it judge by what they heard.  All parts   *)
(* together keep to their types; the proofs about the filter, about the    *)
(* web client and about the ids are in the modules of their own.           *)
(***************************************************************************)
EXTENDS MCParts, WaFilter_proofs, WaWsclient_proofs, WaId_proofs, FiniteSetTheorems,
        WellFoundedInduction, TLAPS

-----------------------------------------------------------------------------
(* The tuner diagnostic.                                                   *)

Decoded == {"hvd", "parser", "pid"}
Trying == {"reserve", "reserving", "reserved", "releaseWait", "started", "probe", "judge"}
InLoop == Trying \cup {"url"}
Early == {"standby", "power", "decoder", "tuners", "qam", "urls", "look"}

\* Where in the test the entries of the SI cache are used, and how many there are.
Place ==
    /\ decoder => alone
    /\ upc \in {"standby", "power", "decoder", "look"} => alone
    /\ upc = "look" => decoder
    /\ upc \in Early => url = 1
    /\ upc \in Trying => url <= Len(tuneUrls)
    /\ alone /\ upc \in InLoop => Len(tuneUrls) = 1

\* The memory and the session a test holds at each of its steps.
Held ==
    /\ upc \in {"standby", "power", "decoder", "qam"} => heap = {}
    /\ upc \in {"tuners", "urls"} => heap \subseteq Decoded /\ (heap # {} => decoder)
    /\ upc \in InLoop \cup {"end"} => heap \subseteq {"urls", "frontend"}
    /\ session => \/ upc \in {"releaseWait", "started", "probe"}
                  \/ upc \in {"end", "idle"} /\ result = "CANCELLED"
    /\ upc = "idle" =>
          /\ "frontend" \notin heap
          /\ "urls" \in heap => result \in {"CANCELLED", "INTERNAL"}
          /\ heap \cap Decoded # {} => decoder /\ result \in {"NOT_APPLICABLE", "SI_MISSING", "CANCELLED"}

\* A reservation that was not given up is that of the entry being tried, and becomes
\* the session; it outlives the looks at the tuners only when the test is cancelled.
Waiting == {"reserving", "reserved"}
InSession == {"releaseWait", "started", "probe"}

Reserving ==
    \A r \in Reservations : trh[r] # "none" /\ r \notin givenUp =>
        \/ r = url /\ upc \in Waiting
        \/ r = url /\ upc \in InSession /\ session
        \/ upc \in {"end", "idle"} /\ result = "CANCELLED"

AllSeenLocked == \A t \in Tuners : locked[t]

Counted == numLocked = NumTuners => AllSeenLocked

\* What the file says of a test that has a result.
FileTold ==
    ~unwritten => (result = "SUCCESS" <=> tuneFile = "results") /\ tuneFile # "stale"

Earned ==
    /\ alone /\ upc \in Early \ {"standby"} => tuneFile = "none"
    /\ alone /\ upc \in InLoop /\ url = 1 => tuneFile = "none"
    /\ alone /\ result # "none" /\ (upc \in {"end", "idle"} \/ (upc = "url" /\ url # 1)) => FileTold
    /\ ~alone /\ result = "SUCCESS" => qamLocked \/ AllSeenLocked

TunerInv == UTypeOK /\ Place /\ Held /\ Reserving /\ Counted /\ Earned

-----------------------------------------------------------------------------
LEMMA CountUpTo ==
    ASSUME NEW n \in 0..NumTuners, NEW S, S \subseteq 1..n
    PROVE  Cardinality(S) \in 0..NumTuners /\ (Cardinality(S) = NumTuners => S = Tuners)
<1>1. NumTuners \in Nat /\ n \in Nat /\ n <= NumTuners
  BY TunerAssumption
<1>2. IsFiniteSet(1..NumTuners) /\ Cardinality(1..NumTuners) = NumTuners
  <2>1. 1 \in Int /\ NumTuners \in Int /\ 1 <= NumTuners
    BY TunerAssumption
  <2> QED
    BY <2>1, FS_Interval
<1>3. S \subseteq 1..NumTuners
  BY <1>1
<1>4. IsFiniteSet(S) /\ Cardinality(S) <= NumTuners /\ (Cardinality(S) = NumTuners => S = 1..NumTuners)
  BY <1>2, <1>3, FS_Subset
<1>5. Cardinality(S) \in Nat
  BY <1>4, FS_CardinalityType
<1> QED
  BY <1>1, <1>4, <1>5 DEF Tuners

LEMMA NoneCounted == 0 \in 0..NumTuners /\ NumTuners # 0
BY TunerAssumption

LEMMA MinOfNaturals == ASSUME NEW S, S \subseteq Nat, S # {} PROVE Min(S) \in S
<1> DEFINE R == {ss \in Nat \X Nat : ss[1] < ss[2]}
<1>1. IsWellFoundedOn(R, Nat)
  BY NatLessThanWellFounded DEF OpToRel
<1> HIDE DEF R
<1>2. PICK x \in S : \A y \in S : ~(<<y, x>> \in R)
  BY <1>1, WFMin
<1>3. ASSUME NEW y \in S PROVE x =< y
  <2>1. x \in Nat /\ y \in Nat /\ ~(<<y, x>> \in R)
    BY <1>2
  <2>2. y < x => <<y, x>> \in R
    BY <2>1 DEF R
  <2> QED
    BY <2>1, <2>2
<1> QED
  BY <1>3 DEF Min

LEMMA LookUpToWithin ==
    ASSUME NEW file \in StatusFiles, NEW forFreq \in BOOLEAN
    PROVE  LookUpTo(file, forFreq) \in 0..NumTuners /\ LookUpTo(file, forFreq) <= Len(file)
<1>1. PICK n \in 0..NumTuners : file \in [1..n -> FrontEnds]
  BY DEF StatusFiles
<1>2. file \in Seq(FrontEnds) /\ Len(file) = n /\ DOMAIN file = 1..n /\ n \in Nat /\ n <= NumTuners
  BY <1>1, TunerAssumption
<1> DEFINE here == {i \in DOMAIN file : forFreq /\ file[i] = "here"}
<1>3. CASE here = {}
  BY <1>2, <1>3, TunerAssumption DEF LookUpTo
<1>4. CASE here # {}
  <2>1. here \subseteq 1..n /\ here \subseteq Nat
    BY <1>2
  <2>3. Min(here) \in here
    BY <2>1, <1>4, MinOfNaturals
  <2>4. LookUpTo(file, forFreq) = Min(here)
    BY <1>4 DEF LookUpTo
  <2> QED
    BY <2>1, <2>3, <2>4, <1>2, TunerAssumption
<1> QED
  BY <1>3, <1>4

LEMMA LookKeeps ==
    ASSUME UTypeOK, Counted, NEW forFreq \in BOOLEAN, LookAtTuners(forFreq)
    PROVE  /\ locked' \in [Tuners -> BOOLEAN] /\ numLocked' \in 0..NumTuners
           /\ freqLocked' \in BOOLEAN /\ retCode' \in BOOLEAN
           /\ Counted' /\ (AllSeenLocked => AllSeenLocked')
<1>0. NumTuners \in Nat /\ NumTuners > 0 /\ Tuners = 1..NumTuners
  BY TunerAssumption DEF Tuners
<1> DEFINE Looked(file, n) == locked' = LocksIn(file, n)
           CountedTo(file, n) ==
               \/ numLocked' = 0
               \/ numLocked' = Cardinality({t \in 1..n : LocksIn(file, n)[t]})
<1>1. ASSUME NEW file \in StatusFiles, NEW n \in 0..NumTuners, Looked(file, n), CountedTo(file, n)
      PROVE  /\ locked' \in [Tuners -> BOOLEAN] /\ numLocked' \in 0..NumTuners
             /\ Counted' /\ (AllSeenLocked => AllSeenLocked')
  <2>1. locked' = [t \in Tuners |-> locked[t] \/ (t <= n /\ file[t] \in HasLock)]
    BY <1>1 DEF LocksIn
  <2>2. locked' \in [Tuners -> BOOLEAN]
    BY <2>1
  <2>3. AllSeenLocked => AllSeenLocked'
    BY <2>1, Zenon DEF AllSeenLocked
  <2> DEFINE S == {t \in 1..n : LocksIn(file, n)[t]}
  <2>4. Cardinality(S) \in 0..NumTuners /\ (Cardinality(S) = NumTuners => S = Tuners)
    BY CountUpTo
  <2>5. numLocked' \in 0..NumTuners
    BY <1>0, <1>1, <2>4
  <2>6. numLocked' = NumTuners => S = Tuners
    BY <1>0, <1>1, <2>4
  <2>7. S = Tuners => AllSeenLocked'
    BY <1>1, Zenon DEF AllSeenLocked
  <2>8. Counted'
    BY <2>6, <2>7 DEF Counted
  <2> QED
    BY <2>2, <2>3, <2>5, <2>8
<1>2. ASSUME NEW file \in StatusFiles, GetTunerStatuses(file, forFreq)
      PROVE  /\ locked' \in [Tuners -> BOOLEAN] /\ numLocked' \in 0..NumTuners
             /\ freqLocked' \in BOOLEAN /\ retCode' \in BOOLEAN
             /\ Counted' /\ (AllSeenLocked => AllSeenLocked')
  <2> DEFINE n == LookUpTo(file, forFreq)
  <2>1. n \in 0..NumTuners
    BY LookUpToWithin
  <2> HIDE DEF n
  <2>2. Looked(file, n) /\ CountedTo(file, n) /\ retCode' = TRUE
    BY <1>2 DEF GetTunerStatuses, n
  <2>3. freqLocked' \in BOOLEAN
    BY <1>2, Zenon DEF GetTunerStatuses, UTypeOK
  <2> QED
    BY <1>1, <2>1, <2>2, <2>3
<1>3. CASE StatusesCutShort(forFreq)
  <2>1. retCode' \in BOOLEAN
    BY <1>3 DEF StatusesCutShort
  <2>2. CASE numLocked' = 0 /\ UNCHANGED <<locked, freqLocked>>
    <3>1. numLocked' \in 0..NumTuners /\ numLocked' # NumTuners
      BY <1>0, <2>2
    <3> QED
      BY <2>1, <2>2, <3>1 DEF UTypeOK, Counted, AllSeenLocked
  <2>3. ASSUME NEW file \in StatusFiles,
               locked' = LocksIn(file, Min({NumTuners, LookUpTo(file, forFreq)})),
               numLocked' = Cardinality({t \in 1..Min({NumTuners, LookUpTo(file, forFreq)}) :
                                LocksIn(file, Min({NumTuners, LookUpTo(file, forFreq)}))[t]}),
               freqLocked' = (freqLocked /\ ToSet(file) \cap HasLock = {})
        PROVE  /\ locked' \in [Tuners -> BOOLEAN] /\ numLocked' \in 0..NumTuners
               /\ freqLocked' \in BOOLEAN
               /\ Counted' /\ (AllSeenLocked => AllSeenLocked')
    <3> DEFINE n == Min({NumTuners, LookUpTo(file, forFreq)})
    <3>1. n \in {NumTuners, LookUpTo(file, forFreq)}
      BY <1>0, LookUpToWithin, MinOfNaturals
    <3>2. n \in 0..NumTuners
      BY <1>0, <3>1, LookUpToWithin
    <3> HIDE DEF n
    <3>3. Looked(file, n) /\ CountedTo(file, n)
      BY <2>3 DEF n
    <3>4. freqLocked' \in BOOLEAN
      BY <2>3, Zenon DEF UTypeOK
    <3> QED
      BY <1>1, <3>2, <3>3, <3>4
  <2> QED
    BY <1>3, <2>1, <2>2, <2>3, Zenon DEF StatusesCutShort
<1> QED
  BY <1>2, <1>3 DEF LookAtTuners

-----------------------------------------------------------------------------
(* Types.                                                                  *)

\* The parts of UTypeOK, by what changes together.
CtlTyped ==
    /\ upc \in {"idle", "standby", "power", "decoder", "tuners", "qam", "urls", "look", "url",
                "reserve", "reserving", "reserved", "releaseWait", "started", "probe",
                "judge", "end", "dead"}
    /\ result \in Codes
FlagsTyped == alone \in BOOLEAN /\ decoder \in BOOLEAN /\ uquit \in BOOLEAN
HeapTyped == heap \subseteq {"hvd", "parser", "pid", "urls", "frontend"}
FileTyped ==
    /\ tuneFile \in {"none", "stale", "message", "partial", "results", "noFrontend", "garbage"}
    /\ unwritten \in BOOLEAN
UrlTyped ==
    /\ lucky \in 0..NumSiEntries
    /\ tuneUrls \in Seq(Reservations) /\ Len(tuneUrls) <= NumSiEntries
    /\ url \in 1..(NumSiEntries + 1)
LockTyped ==
    /\ locked \in [Tuners -> BOOLEAN] /\ freqLocked \in BOOLEAN
    /\ retCode \in BOOLEAN /\ qamLocked \in BOOLEAN
CountTyped == numLocked \in 0..NumTuners /\ power \in Int
StepTyped == step \in 1..(Max({LockLoopCount, NumTuners}) + 1)
TrhTyped ==
    /\ session \in BOOLEAN
    /\ trh \in [Reservations -> {"none", "idle", "unreserved", "reserved", "failed", "released"}]
    /\ givenUp \in SUBSET Reservations

LEMMA TypedParts ==
    /\ UTypeOK <=> /\ CtlTyped /\ FlagsTyped /\ HeapTyped /\ FileTyped /\ UrlTyped
                   /\ LockTyped /\ CountTyped /\ StepTyped /\ TrhTyped
    /\ UTypeOK' <=> /\ CtlTyped' /\ FlagsTyped' /\ HeapTyped' /\ FileTyped' /\ UrlTyped'
                    /\ LockTyped' /\ CountTyped' /\ StepTyped' /\ TrhTyped'
BY Zenon DEF UTypeOK, CtlTyped, FlagsTyped, HeapTyped, FileTyped, UrlTyped, LockTyped, CountTyped,
             StepTyped, TrhTyped

LEMMA MaxOfBounds ==
    /\ Max({LockLoopCount, NumTuners}) \in Nat
    /\ LockLoopCount <= Max({LockLoopCount, NumTuners})
    /\ NumTuners <= Max({LockLoopCount, NumTuners})
BY TunerAssumption DEF Max

LEMMA TunerTypesInit == UInit => UTypeOK
<1> SUFFICES ASSUME UInit PROVE UTypeOK
  OBVIOUS
<1> USE DEF UInit
<1>1. CtlTyped /\ FlagsTyped /\ HeapTyped /\ FileTyped
  BY DEF CtlTyped, FlagsTyped, HeapTyped, FileTyped, Codes
<1>2. UrlTyped
  BY TunerAssumption DEF UrlTyped
<1>3. LockTyped
  BY DEF LockTyped
<1>4. CountTyped /\ StepTyped
  BY MaxOfBounds, TunerAssumption DEF CountTyped, StepTyped
<1>5. TrhTyped
  BY DEF TrhTyped
<1> QED
  BY <1>1, <1>2, <1>3, <1>4, <1>5, TypedParts

LEMMA UrlsTyped ==
    ASSUME UTypeOK, NEW n \in 0..NumSiEntries
    PROVE  /\ UrlsOf(n) \in Seq(Reservations) /\ Len(UrlsOf(n)) = n
<1>1. lucky \in Nat /\ NumSiEntries \in Nat /\ n \in Nat /\ n <= NumSiEntries
  BY TypedParts, TunerAssumption DEF UrlTyped
<1>2. \A k \in 1..n : UrlsOf(n)[k] \in Reservations
  BY <1>1 DEF UrlsOf, Reservations
<1>3. UrlsOf(n) \in [1..n -> Reservations]
  BY <1>2 DEF UrlsOf
<1> QED
  BY <1>1, <1>3

\* An entry that is tried has a reservation of its own.
LEMMA TryingReservation ==
    ASSUME UTypeOK, Place, upc \in Trying
    PROVE  url \in Reservations
<1>1. url \in 1..(NumSiEntries + 1) /\ Len(tuneUrls) <= NumSiEntries /\ tuneUrls \in Seq(Reservations)
  BY TypedParts, Zenon DEF UrlTyped
<1>2. url <= Len(tuneUrls)
  BY DEF Place
<1> QED
  BY <1>1, <1>2, TunerAssumption DEF Reservations

LEMMA TunerTypesStep == UTypeOK /\ Place /\ Counted /\ [UNext]_uvars => UTypeOK'
<1> SUFFICES ASSUME UTypeOK, Place, Counted, [UNext]_uvars PROVE UTypeOK'
  OBVIOUS
<1> USE DEF uctl, ufile, ulock, uqam, utrh, ulater, ustill
<1>0. /\ CtlTyped /\ FlagsTyped /\ HeapTyped /\ FileTyped
      /\ UrlTyped /\ LockTyped /\ CountTyped /\ StepTyped /\ TrhTyped
  BY TypedParts
<1>1. CASE UNCHANGED uvars
  BY <1>0, <1>1, TypedParts, Zenon DEF uvars, CtlTyped, FlagsTyped, HeapTyped, FileTyped, UrlTyped, LockTyped, CountTyped, StepTyped, TrhTyped
<1>2. CASE GetTuneData
  <2>1. CtlTyped' /\ FlagsTyped' /\ HeapTyped' /\ FileTyped'
    BY <1>0, <1>2 DEF GetTuneData, CtlTyped, FlagsTyped, HeapTyped, FileTyped, Codes, MayBe, Write, SaveTuneFailureMsg, Return
  <2>2. UrlTyped'
    BY <1>0, <1>2, TunerAssumption DEF GetTuneData, UrlTyped
  <2>3. LockTyped'
    BY <1>0, <1>2 DEF GetTuneData, LockTyped
  <2>4. CountTyped' /\ StepTyped'
    BY <1>0, <1>2, MaxOfBounds, TunerAssumption DEF GetTuneData, CountTyped, StepTyped
  <2>5. TrhTyped'
    BY <1>0, <1>2 DEF GetTuneData, TrhTyped
  <2> QED
    BY <2>1, <2>2, <2>3, <2>4, <2>5, TypedParts
<1>3. CASE CancelTest
  <2>1. CtlTyped' /\ HeapTyped' /\ FileTyped' /\ UrlTyped' /\ LockTyped' /\ CountTyped' /\ StepTyped' /\ TrhTyped'
    BY <1>0, <1>3 DEF CancelTest, CtlTyped, HeapTyped, FileTyped, UrlTyped, LockTyped, CountTyped, StepTyped, TrhTyped
  <2>2. FlagsTyped'
    BY <1>0, <1>3 DEF CancelTest, FlagsTyped
  <2> QED
    BY <2>1, <2>2, TypedParts
<1>4. CASE RemoveTuneResults
  <2>1. FlagsTyped' /\ HeapTyped' /\ UrlTyped' /\ LockTyped' /\ CountTyped' /\ StepTyped' /\ TrhTyped'
    BY <1>0, <1>4 DEF RemoveTuneResults, FlagsTyped, HeapTyped, UrlTyped, LockTyped, CountTyped, StepTyped, TrhTyped
  <2>2. CtlTyped'
    BY <1>0, <1>4 DEF RemoveTuneResults, CtlTyped, Codes, Return
  <2>3. FileTyped'
    BY <1>0, <1>4 DEF RemoveTuneResults, FileTyped, MayBe, Write, SaveTuneFailureMsg
  <2> QED
    BY <2>1, <2>2, <2>3, TypedParts
<1>5. CASE VerifyStandbyState
  <2>1. FlagsTyped' /\ HeapTyped' /\ UrlTyped' /\ LockTyped' /\ CountTyped' /\ StepTyped' /\ TrhTyped'
    BY <1>0, <1>5 DEF VerifyStandbyState, FlagsTyped, HeapTyped, UrlTyped, LockTyped, CountTyped, StepTyped, TrhTyped
  <2>2. CtlTyped'
    BY <1>0, <1>5 DEF VerifyStandbyState, CtlTyped, Codes, Return
  <2>3. FileTyped'
    BY <1>0, <1>5 DEF VerifyStandbyState, FileTyped, MayBe, Write, SaveTuneFailureMsg
  <2> QED
    BY <2>1, <2>2, <2>3, TypedParts
<1>6. CASE ReadDecoder
  <2>1. UrlTyped' /\ LockTyped' /\ CountTyped' /\ StepTyped' /\ TrhTyped'
    BY <1>0, <1>6 DEF ReadDecoder, UrlTyped, LockTyped, CountTyped, StepTyped, TrhTyped
  <2>2. CtlTyped'
    BY <1>0, <1>6 DEF ReadDecoder, CtlTyped, NoMemory, Codes, Return
  <2>3. FlagsTyped'
    BY <1>0, <1>6 DEF ReadDecoder, FlagsTyped, NoMemory
  <2>4. HeapTyped'
    BY <1>0, <1>6 DEF ReadDecoder, HeapTyped, NoMemory, GetTransportData
  <2>5. FileTyped'
    BY <1>0, <1>6 DEF ReadDecoder, FileTyped, NoMemory, MayBe, Write, SaveTuneFailureMsg
  <2> QED
    BY <2>1, <2>2, <2>3, <2>4, <2>5, TypedParts
<1>7. CASE GetNumberOfTuners
  <2>1. FlagsTyped' /\ HeapTyped' /\ UrlTyped' /\ LockTyped' /\ CountTyped' /\ StepTyped' /\ TrhTyped'
    BY <1>0, <1>7 DEF GetNumberOfTuners, FlagsTyped, HeapTyped, UrlTyped, LockTyped, CountTyped, StepTyped, TrhTyped
  <2>2. CtlTyped'
    BY <1>0, <1>7 DEF GetNumberOfTuners, CtlTyped, Codes, Return
  <2>3. FileTyped'
    BY <1>0, <1>7 DEF GetNumberOfTuners, FileTyped, MayBe, Write, SaveTuneFailureMsg
  <2> QED
    BY <2>1, <2>2, <2>3, TypedParts
<1>8. CASE CheckQamConnection
  <2>1. FlagsTyped' /\ HeapTyped' /\ UrlTyped' /\ TrhTyped'
    BY <1>0, <1>8 DEF CheckQamConnection, FlagsTyped, HeapTyped, UrlTyped, TrhTyped
  <2>2. CtlTyped'
    BY <1>0, <1>8 DEF CheckQamConnection, CtlTyped, QamChecked, Codes, Return
  <2>3. FileTyped'
    BY <1>0, <1>8 DEF CheckQamConnection, FileTyped, QamChecked, MayBe, Write, SaveTuneFailureMsg
  <2>4. LockTyped'
    BY <1>0, <1>8 DEF CheckQamConnection, LockTyped
  <2>5. CountTyped'
    <3>1. power' = power \/ \E p \in Powers : power' = power + p
      BY <1>8, Zenon DEF CheckQamConnection
    <3>2. numLocked' = numLocked
      BY <1>8 DEF CheckQamConnection
    <3> QED
      BY <1>0, <3>1, <3>2, TunerAssumption DEF CountTyped
  <2>6. StepTyped'
    <3>1. step' = step \/ (step <= NumTuners /\ step' = step + 1)
      BY <1>8, Zenon DEF CheckQamConnection
    <3> QED
      BY <1>0, <3>1, MaxOfBounds, TunerAssumption DEF StepTyped
  <2> QED
    BY <2>1, <2>2, <2>3, <2>4, <2>5, <2>6, TypedParts
<1>9. CASE GetTuneUrls
  <2>1. FlagsTyped' /\ LockTyped' /\ CountTyped' /\ TrhTyped'
    BY <1>0, <1>9 DEF GetTuneUrls, FlagsTyped, LockTyped, CountTyped, TrhTyped
  <2>2. CtlTyped'
    BY <1>0, <1>9 DEF GetTuneUrls, CtlTyped, Codes, Return
  <2>3. HeapTyped'
    BY <1>0, <1>9 DEF GetTuneUrls, HeapTyped
  <2>4. FileTyped'
    BY <1>0, <1>9 DEF GetTuneUrls, FileTyped, MayBe, Write, SaveTuneFailureMsg
  <2>5. UrlTyped'
    BY <1>0, <1>9, UrlsTyped, TunerAssumption DEF GetTuneUrls, UrlTyped, TuningRead
  <2>6. StepTyped'
    BY <1>0, <1>9, MaxOfBounds DEF GetTuneUrls, StepTyped
  <2> QED
    BY <2>1, <2>2, <2>3, <2>4, <2>5, <2>6, TypedParts
<1>10. CASE LookForDecoder
  <2>1. CtlTyped' /\ FlagsTyped' /\ HeapTyped' /\ FileTyped' /\ UrlTyped' /\ TrhTyped'
    BY <1>0, <1>10 DEF LookForDecoder, CtlTyped, FlagsTyped, HeapTyped, FileTyped, UrlTyped, TrhTyped
  <2>2. LockTyped'
    BY <1>0, <1>10, LookKeeps DEF LookForDecoder, LockTyped
  <2>3. CountTyped'
    BY <1>0, <1>10, LookKeeps DEF LookForDecoder, CountTyped
  <2>4. StepTyped'
    BY <1>0, <1>10, MaxOfBounds, TunerAssumption DEF LookForDecoder, StepTyped
  <2> QED
    BY <2>1, <2>2, <2>3, <2>4, TypedParts
<1>11. CASE SaveDecoderTuneResults
  <2>1. FlagsTyped' /\ UrlTyped' /\ LockTyped' /\ CountTyped' /\ StepTyped' /\ TrhTyped'
    BY <1>0, <1>11 DEF SaveDecoderTuneResults, FlagsTyped, UrlTyped, LockTyped, CountTyped, StepTyped, TrhTyped
  <2>2. CtlTyped'
    BY <1>0, <1>11 DEF SaveDecoderTuneResults, CtlTyped, Codes, Return
  <2>3. HeapTyped'
    BY <1>0, <1>11 DEF SaveDecoderTuneResults, HeapTyped
  <2>4. FileTyped'
    BY <1>0, <1>11 DEF SaveDecoderTuneResults, FileTyped, MayBe, Write, SaveTuneFailureMsg
  <2> QED
    BY <2>1, <2>2, <2>3, <2>4, TypedParts
<1>12. CASE NextUrl
  <2>1. FlagsTyped' /\ HeapTyped' /\ FileTyped' /\ UrlTyped' /\ TrhTyped'
    BY <1>0, <1>12 DEF NextUrl, FlagsTyped, HeapTyped, FileTyped, UrlTyped, TrhTyped
  <2>2. CtlTyped'
    BY <1>0, <1>12 DEF NextUrl, CtlTyped, Codes, Return
  <2>3. LockTyped'
    BY <1>0, <1>12, LookKeeps DEF NextUrl, LockTyped
  <2>4. CountTyped'
    <3>1. power' = power
      BY <1>12 DEF NextUrl
    <3>2. numLocked' = numLocked \/ numLocked' = 0 \/ LookAtTuners(FALSE)
      BY <1>12, Zenon DEF NextUrl
    <3>3. LookAtTuners(FALSE) => numLocked' \in 0..NumTuners
      BY LookKeeps, Zenon
    <3>4. numLocked' \in 0..NumTuners
      BY <1>0, <3>2, <3>3, NoneCounted, Zenon DEF CountTyped
    <3> QED
      BY <1>0, <3>1, <3>4 DEF CountTyped
  <2>5. StepTyped'
    BY <1>0, <1>12, MaxOfBounds DEF NextUrl, StepTyped
  <2> QED
    BY <2>1, <2>2, <2>3, <2>4, <2>5, TypedParts
<1>13. CASE ReserveTuner
  <2>1. FlagsTyped' /\ HeapTyped' /\ FileTyped' /\ UrlTyped' /\ LockTyped' /\ CountTyped' /\ StepTyped'
    BY <1>0, <1>13 DEF ReserveTuner, FlagsTyped, HeapTyped, FileTyped, UrlTyped, LockTyped, CountTyped, StepTyped
  <2>2. CtlTyped'
    BY <1>0, <1>13 DEF ReserveTuner, CtlTyped, Return
  <2>3. TrhTyped'
    <3>1. url \in Reservations
      BY <1>13, TryingReservation DEF ReserveTuner, Trying
    <3>2. session' = session /\ givenUp' \in {givenUp, givenUp \cup {url}}
          /\ (trh' = trh \/ \E w \in {"idle", "unreserved"} : trh' = [trh EXCEPT ![url] = w])
      BY <1>13 DEF ReserveTuner, GiveUp
    <3> QED
      BY <1>0, <3>1, <3>2 DEF TrhTyped
  <2> QED
    BY <2>1, <2>2, <2>3, TypedParts
<1>14. CASE ReserveCancelled
  <2>1. FlagsTyped' /\ HeapTyped' /\ FileTyped' /\ UrlTyped' /\ LockTyped' /\ CountTyped' /\ StepTyped' /\ TrhTyped'
    BY <1>0, <1>14 DEF ReserveCancelled, FlagsTyped, HeapTyped, FileTyped, UrlTyped, LockTyped, CountTyped, StepTyped, TrhTyped
  <2>2. CtlTyped'
    BY <1>0, <1>14 DEF ReserveCancelled, CtlTyped, Return
  <2> QED
    BY <2>1, <2>2, TypedParts
<1>15. CASE TrmAnswers
  <2>1. CtlTyped' /\ FlagsTyped' /\ HeapTyped' /\ FileTyped' /\ UrlTyped' /\ LockTyped' /\ CountTyped' /\ StepTyped'
    BY <1>0, <1>15 DEF TrmAnswers, CtlTyped, FlagsTyped, HeapTyped, FileTyped, UrlTyped, LockTyped, CountTyped, StepTyped
  <2>2. TrhTyped'
    BY <1>0, <1>15 DEF TrmAnswers, TrhTyped
  <2> QED
    BY <2>1, <2>2, TypedParts
<1>16. CASE ReserveWaitEnds
  <2>1. FlagsTyped' /\ HeapTyped' /\ FileTyped' /\ UrlTyped' /\ LockTyped' /\ CountTyped' /\ StepTyped'
    BY <1>0, <1>16 DEF ReserveWaitEnds, FlagsTyped, HeapTyped, FileTyped, UrlTyped, LockTyped, CountTyped, StepTyped
  <2>2. CtlTyped'
    BY <1>0, <1>16 DEF ReserveWaitEnds, CtlTyped, Return
  <2>3. TrhTyped'
    <3>1. url \in Reservations
      BY <1>16, TryingReservation DEF ReserveWaitEnds, Trying
    <3> QED
      BY <1>0, <1>16, <3>1 DEF ReserveWaitEnds, TrhTyped, GiveUp
  <2> QED
    BY <2>1, <2>2, <2>3, TypedParts
<1>17. CASE Reserved
  <2>1. FlagsTyped' /\ HeapTyped' /\ FileTyped' /\ UrlTyped' /\ LockTyped' /\ CountTyped' /\ StepTyped'
    BY <1>0, <1>17 DEF Reserved, FlagsTyped, HeapTyped, FileTyped, UrlTyped, LockTyped, CountTyped, StepTyped
  <2>2. CtlTyped'
    BY <1>0, <1>17 DEF Reserved, CtlTyped, Return
  <2>3. TrhTyped'
    <3>1. url \in Reservations
      BY <1>17, TryingReservation DEF Reserved, Trying
    <3>2. session' \in BOOLEAN /\ trh' = trh /\ givenUp' \in {givenUp, givenUp \cup {url}}
      BY <1>17 DEF Reserved, GiveUp
    <3> QED
      BY <1>0, <3>1, <3>2 DEF TrhTyped
  <2> QED
    BY <2>1, <2>2, <2>3, TypedParts
<1>18. CASE WaitForTunerRelease
  <2>1. FlagsTyped' /\ HeapTyped' /\ FileTyped' /\ UrlTyped' /\ LockTyped' /\ CountTyped' /\ StepTyped' /\ TrhTyped'
    BY <1>0, <1>18 DEF WaitForTunerRelease, FlagsTyped, HeapTyped, FileTyped, UrlTyped, LockTyped, CountTyped, StepTyped, TrhTyped
  <2>2. CtlTyped'
    BY <1>0, <1>18 DEF WaitForTunerRelease, CtlTyped, Return
  <2> QED
    BY <2>1, <2>2, TypedParts
<1>19. CASE SessionsStarted
  <2>1. FlagsTyped' /\ HeapTyped' /\ FileTyped' /\ UrlTyped' /\ StepTyped' /\ TrhTyped'
    BY <1>0, <1>19 DEF SessionsStarted, FlagsTyped, HeapTyped, FileTyped, UrlTyped, StepTyped, TrhTyped
  <2>2. CtlTyped'
    BY <1>0, <1>19 DEF SessionsStarted, CtlTyped, Codes, Return
  <2>3. LockTyped'
    BY <1>0, <1>19 DEF SessionsStarted, LockTyped
  <2>4. CountTyped'
    BY <1>0, <1>19, TunerAssumption DEF SessionsStarted, CountTyped
  <2> QED
    BY <2>1, <2>2, <2>3, <2>4, TypedParts
<1>20. CASE Probe
  <2>1. CtlTyped' /\ FlagsTyped' /\ HeapTyped' /\ FileTyped' /\ UrlTyped' /\ TrhTyped'
    BY <1>0, <1>20 DEF Probe, CtlTyped, FlagsTyped, HeapTyped, FileTyped, UrlTyped, TrhTyped
  <2>2. LockTyped'
    BY <1>0, <1>20, LookKeeps DEF Probe, LockTyped
  <2>3. CountTyped'
    BY <1>0, <1>20, LookKeeps DEF Probe, CountTyped
  <2>4. StepTyped'
    BY <1>0, <1>20, MaxOfBounds, TunerAssumption DEF Probe, StepTyped, ProbeAgain
  <2> QED
    BY <2>1, <2>2, <2>3, <2>4, TypedParts
<1>21. CASE CloseTuneSessions
  <2>1. FlagsTyped' /\ HeapTyped' /\ FileTyped' /\ UrlTyped' /\ LockTyped' /\ CountTyped' /\ StepTyped'
    BY <1>0, <1>21 DEF CloseTuneSessions, FlagsTyped, HeapTyped, FileTyped, UrlTyped, LockTyped, CountTyped, StepTyped
  <2>2. CtlTyped'
    BY <1>0, <1>21 DEF CloseTuneSessions, CtlTyped, Return
  <2>3. TrhTyped'
    BY <1>0, <1>21 DEF CloseTuneSessions, TrhTyped, ReleaseTuner
  <2> QED
    BY <2>1, <2>2, <2>3, TypedParts
<1>22. CASE Judge
  <2>1. FlagsTyped' /\ HeapTyped' /\ LockTyped' /\ CountTyped' /\ StepTyped' /\ TrhTyped'
    BY <1>0, <1>22 DEF Judge, FlagsTyped, HeapTyped, LockTyped, CountTyped, StepTyped, TrhTyped
  <2>2. CtlTyped'
    BY <1>0, <1>22 DEF Judge, CtlTyped, SaveTuneResults, Codes, Return
  <2>3. FileTyped'
    BY <1>0, <1>22 DEF Judge, FileTyped, SaveTuneResults, MayBe, Write, SaveTuneFailureMsg
  <2>4. UrlTyped'
    BY <1>0, <1>22, TunerAssumption DEF Judge, UrlTyped, SetLuckyId, Place, Trying
  <2> QED
    BY <2>1, <2>2, <2>3, <2>4, TypedParts
<1>23. CASE EndTest
  <2>1. FlagsTyped' /\ FileTyped' /\ UrlTyped' /\ LockTyped' /\ CountTyped' /\ StepTyped' /\ TrhTyped'
    BY <1>0, <1>23 DEF EndTest, FlagsTyped, FileTyped, UrlTyped, LockTyped, CountTyped, StepTyped, TrhTyped
  <2>2. CtlTyped'
    BY <1>0, <1>23 DEF EndTest, CtlTyped, Return
  <2>3. HeapTyped'
    BY <1>0, <1>23 DEF EndTest, HeapTyped
  <2> QED
    BY <2>1, <2>2, <2>3, TypedParts
<1>24. CASE TunerRestart
  <2>1. FlagsTyped' /\ FileTyped' /\ LockTyped' /\ CountTyped' /\ StepTyped'
    BY <1>0, <1>24 DEF TunerRestart, FlagsTyped, FileTyped, LockTyped, CountTyped, StepTyped
  <2>2. CtlTyped'
    BY <1>0, <1>24 DEF TunerRestart, CtlTyped, Codes, Return
  <2>3. HeapTyped'
    BY <1>0, <1>24 DEF TunerRestart, HeapTyped
  <2>4. UrlTyped'
    BY <1>0, <1>24, TunerAssumption DEF TunerRestart, UrlTyped
  <2>5. TrhTyped'
    BY <1>0, <1>24 DEF TunerRestart, TrhTyped
  <2> QED
    BY <2>1, <2>2, <2>3, <2>4, <2>5, TypedParts
<1> QED
  BY <1>1, <1>2, <1>3, <1>4, <1>5, <1>6, <1>7, <1>8, <1>9, <1>10, <1>11, <1>12, <1>13, <1>14, <1>15, <1>16, <1>17, <1>18, <1>19, <1>20, <1>21, <1>22, <1>23, <1>24 DEF UNext

LEMMA PlaceStep == UTypeOK /\ Place /\ [UNext]_uvars => Place'
<1> SUFFICES ASSUME UTypeOK, Place, [UNext]_uvars PROVE Place'
  OBVIOUS
<1> USE DEF Place, Trying, InLoop, Early, uctl, ufile, ulock, uqam, utrh, ulater, ustill, Return, QamChecked, NoMemory
<1>1. CASE UNCHANGED uvars
  BY <1>1 DEF uvars
<1>2. CASE GetTuneData
  BY <1>2 DEF GetTuneData
<1>3. CASE CancelTest
  BY <1>3 DEF CancelTest
<1>4. CASE RemoveTuneResults
  BY <1>4 DEF RemoveTuneResults
<1>5. CASE VerifyStandbyState
  BY <1>5 DEF VerifyStandbyState
<1>6. CASE ReadDecoder
  BY <1>6 DEF ReadDecoder
<1>7. CASE GetNumberOfTuners
  BY <1>7 DEF GetNumberOfTuners
<1>8. CASE CheckQamConnection
  BY <1>8 DEF CheckQamConnection
<1>9. CASE GetTuneUrls
  <2>1. alone => alone = TRUE
    BY DEF UTypeOK
  <2>2. alone' = alone /\ decoder' = decoder /\ url' = url
        /\ upc' \in {"idle", "look", "url"} /\ (upc' = "look" => decoder)
    BY <1>9 DEF GetTuneUrls
  <2>3. alone /\ upc' # "idle" => Len(tuneUrls') = 1
    <3>1. ASSUME alone, upc' # "idle" PROVE \E n \in TuningRead \ {0} : tuneUrls' = UrlsOf(n)
      BY <1>9, <3>1, Zenon DEF GetTuneUrls, Return
    <3>2. alone => TuningRead = 0..1
      BY DEF TuningRead
    <3>3. \A n \in 0..1 : n \in 0..NumSiEntries
      BY TunerAssumption
    <3>4. \A n \in (0..1) \ {0} : n = 1
      OBVIOUS
    <3> QED
      BY <3>1, <3>2, <3>3, <3>4, UrlsTyped, Zenon
  <2>4. upc' \notin Trying /\ upc' \notin {"standby", "power", "decoder"} /\ url = 1
    <3>1. upc = "urls"
      BY <1>9 DEF GetTuneUrls
    <3> QED
      BY <2>2, <3>1
  <2>5. upc' \in InLoop => upc' # "idle"
    OBVIOUS
  <2>6. decoder => alone
    OBVIOUS
  <2> HIDE DEF Trying, InLoop, Early
  <2> QED
    BY <2>2, <2>3, <2>4, <2>5, <2>6, Zenon DEF Place
<1>10. CASE LookForDecoder
  BY <1>10 DEF LookForDecoder
<1>11. CASE SaveDecoderTuneResults
  BY <1>11 DEF SaveDecoderTuneResults
<1>12. CASE NextUrl
  BY <1>12 DEF NextUrl
<1>13. CASE ReserveTuner
  BY <1>13 DEF ReserveTuner
<1>14. CASE ReserveCancelled
  BY <1>14 DEF ReserveCancelled
<1>15. CASE TrmAnswers
  BY <1>15 DEF TrmAnswers
<1>16. CASE ReserveWaitEnds
  BY <1>16 DEF ReserveWaitEnds
<1>17. CASE Reserved
  BY <1>17 DEF Reserved
<1>18. CASE WaitForTunerRelease
  BY <1>18 DEF WaitForTunerRelease
<1>19. CASE SessionsStarted
  BY <1>19 DEF SessionsStarted
<1>20. CASE Probe
  BY <1>20 DEF Probe
<1>21. CASE CloseTuneSessions
  BY <1>21 DEF CloseTuneSessions
<1>22. CASE Judge
  <2>1. upc' \in {"end", "url", "dead"}
    BY <1>22 DEF Judge, SaveTuneResults
  <2> QED
    BY <1>22, <2>1 DEF Judge
<1>23. CASE EndTest
  BY <1>23 DEF EndTest
<1>24. CASE TunerRestart
  BY <1>24 DEF TunerRestart
<1> QED
  BY <1>1, <1>2, <1>3, <1>4, <1>5, <1>6, <1>7, <1>8, <1>9, <1>10, <1>11, <1>12, <1>13, <1>14, <1>15, <1>16, <1>17, <1>18, <1>19, <1>20, <1>21, <1>22, <1>23, <1>24 DEF UNext

LEMMA HeldStep == UTypeOK /\ Place /\ Held /\ [UNext]_uvars => Held'
<1> SUFFICES ASSUME UTypeOK, Place, Held, [UNext]_uvars PROVE Held'
  OBVIOUS
<1> USE DEF Held, Decoded, Place, Trying, InLoop, Early, uctl, ufile, ulock, uqam, utrh, ulater, ustill, Return, QamChecked, NoMemory, GetTransportData, ReleaseTuner
<1>1. CASE UNCHANGED uvars
  BY <1>1 DEF uvars
<1>2. CASE GetTuneData
  BY <1>2 DEF GetTuneData
<1>3. CASE CancelTest
  BY <1>3 DEF CancelTest
<1>4. CASE RemoveTuneResults
  BY <1>4 DEF RemoveTuneResults
<1>5. CASE VerifyStandbyState
  BY <1>5 DEF VerifyStandbyState
<1>6. CASE ReadDecoder
  BY <1>6 DEF ReadDecoder
<1>7. CASE GetNumberOfTuners
  BY <1>7 DEF GetNumberOfTuners
<1>8. CASE CheckQamConnection
  BY <1>8 DEF CheckQamConnection
<1>9. CASE GetTuneUrls
  <2>1. heap \subseteq Decoded /\ (heap # {} => decoder) /\ (decoder => alone)
    BY <1>9 DEF GetTuneUrls
  <2>2. session = FALSE /\ session' = session /\ decoder' = decoder
    BY <1>9, Zenon DEF GetTuneUrls, UTypeOK
  <2>3. \/ upc' = "idle" /\ result' = "CANCELLED" /\ heap' = heap \cup {"urls"}
        \/ upc' = "idle" /\ result' = "SI_MISSING" /\ heap' = heap
        \/ upc' = "look" /\ decoder
        \/ upc' = "url" /\ heap' \subseteq heap \cup {"urls", "frontend"} /\ ~decoder
        \/ upc' = "idle" /\ result' = "INTERNAL" /\ heap' = {"urls"}
    BY <1>9 DEF GetTuneUrls, MayBe
  <2> QED
    BY <2>1, <2>2, <2>3
<1>10. CASE LookForDecoder
  BY <1>10 DEF LookForDecoder
<1>11. CASE SaveDecoderTuneResults
  BY <1>11 DEF SaveDecoderTuneResults
<1>12. CASE NextUrl
  BY <1>12 DEF NextUrl
<1>13. CASE ReserveTuner
  BY <1>13 DEF ReserveTuner
<1>14. CASE ReserveCancelled
  BY <1>14 DEF ReserveCancelled
<1>15. CASE TrmAnswers
  BY <1>15 DEF TrmAnswers
<1>16. CASE ReserveWaitEnds
  BY <1>16 DEF ReserveWaitEnds
<1>17. CASE Reserved
  BY <1>17 DEF Reserved
<1>18. CASE WaitForTunerRelease
  BY <1>18 DEF WaitForTunerRelease
<1>19. CASE SessionsStarted
  BY <1>19 DEF SessionsStarted
<1>20. CASE Probe
  BY <1>20 DEF Probe
<1>21. CASE CloseTuneSessions
  BY <1>21 DEF CloseTuneSessions
<1>22. CASE Judge
  <2>1. upc' \in {"end", "url", "dead"}
    BY <1>22 DEF Judge, SaveTuneResults
  <2>2. session = FALSE
    BY <1>22 DEF Judge, UTypeOK
  <2> QED
    BY <1>22, <2>1, <2>2 DEF Judge
<1>23. CASE EndTest
  BY <1>23 DEF EndTest
<1>24. CASE TunerRestart
  BY <1>24 DEF TunerRestart
<1> QED
  BY <1>1, <1>2, <1>3, <1>4, <1>5, <1>6, <1>7, <1>8, <1>9, <1>10, <1>11, <1>12, <1>13, <1>14, <1>15, <1>16, <1>17, <1>18, <1>19, <1>20, <1>21, <1>22, <1>23, <1>24 DEF UNext

LEMMA ReservingStep == UTypeOK /\ Place /\ Held /\ Reserving /\ [UNext]_uvars => Reserving'
<1> SUFFICES ASSUME UTypeOK, Place, Held, Reserving, [UNext]_uvars PROVE Reserving'
  OBVIOUS
<1> USE DEF uctl, ufile, ulock, uqam, utrh, ulater, ustill
<1> DEFINE Kept(r) == trh[r] # "none" /\ r \notin givenUp
<1>0. trh \in [Reservations -> {"none", "idle", "unreserved", "reserved", "failed", "released"}]
  BY TypedParts DEF TrhTyped
<1>1. CASE upc \notin Waiting \cup InSession \cup {"end", "idle"} /\ UNCHANGED <<trh, givenUp>>
  BY <1>1, Zenon DEF Reserving, Waiting, InSession
<1>2. CASE \/ RemoveTuneResults \/ VerifyStandbyState \/ ReadDecoder \/ GetNumberOfTuners
           \/ CheckQamConnection \/ GetTuneUrls \/ LookForDecoder \/ SaveDecoderTuneResults
           \/ NextUrl \/ ReserveCancelled \/ Judge
  <2>1. upc \notin Waiting \cup InSession \cup {"end", "idle"} /\ UNCHANGED <<trh, givenUp>>
    BY <1>2 DEF RemoveTuneResults, VerifyStandbyState, ReadDecoder, GetNumberOfTuners,
                CheckQamConnection, GetTuneUrls, LookForDecoder, SaveDecoderTuneResults,
                NextUrl, ReserveCancelled, Judge, Waiting, InSession
  <2> QED
    BY <1>1, <2>1
<1>3. CASE GetTuneData \/ TunerRestart
  <2>1. trh' = [r \in Reservations |-> "none"]
    BY <1>3 DEF GetTuneData, TunerRestart
  <2> QED
    BY <2>1 DEF Reserving
<1>4. CASE CancelTest \/ Probe \/ UNCHANGED uvars
  <2>1. UNCHANGED <<upc, url, result, session, trh, givenUp>>
    BY <1>4 DEF CancelTest, Probe, uvars
  <2> QED
    BY <2>1 DEF Reserving
<1>5. CASE ReserveTuner
  <2>1. \A r \in Reservations : ~Kept(r)
    BY <1>5 DEF ReserveTuner, Reserving, Waiting, InSession
  <2>2. \A r \in Reservations \ {url} : trh'[r] = trh[r]
    BY <1>0, <1>5 DEF ReserveTuner
  <2>3. givenUp \subseteq givenUp' /\ (upc' = "reserving" \/ trh' = trh \/ url \in givenUp') /\ url' = url
    BY <1>5 DEF ReserveTuner, GiveUp
  <2> QED
    BY <2>1, <2>2, <2>3 DEF Reserving, Waiting
<1>6. CASE TrmAnswers
  <2>1. \A r \in Reservations : trh'[r] # "none" => trh[r] # "none"
    BY <1>0, <1>6 DEF TrmAnswers
  <2>2. UNCHANGED <<givenUp, upc, url, session, result>>
    BY <1>6 DEF TrmAnswers
  <2> QED
    BY <2>1, <2>2 DEF Reserving
<1>7. CASE ReserveWaitEnds
  BY <1>7 DEF ReserveWaitEnds, GiveUp, Reserving, Waiting, InSession
<1>8. CASE Reserved
  <2>1. upc = "reserved" /\ upc' \in InSession /\ trh' = trh /\ url' = url
    BY <1>8 DEF Reserved, InSession
  <2>2. session' \/ givenUp' = givenUp \cup {url}
    BY <1>8 DEF Reserved, GiveUp
  <2>3. givenUp \subseteq givenUp'
    BY <1>8 DEF Reserved, GiveUp
  <2> QED
    BY <2>1, <2>2, <2>3 DEF Reserving, Waiting, InSession
<1>9. CASE WaitForTunerRelease \/ SessionsStarted
  BY <1>9 DEF WaitForTunerRelease, SessionsStarted, Reserving, Waiting, InSession
<1>10. CASE CloseTuneSessions
  <2>1. upc = "probe" /\ givenUp' = givenUp
    BY <1>10 DEF CloseTuneSessions, ReleaseTuner
  <2>2. CASE session
    <3>1. trh' = [trh EXCEPT ![url] = "none"]
      BY <1>10, <2>2 DEF CloseTuneSessions, ReleaseTuner
    <3> QED
      BY <1>0, <2>1, <3>1 DEF Reserving, Waiting, InSession
  <2>3. CASE ~session
    <3>1. trh' = trh
      BY <1>10, <2>3 DEF CloseTuneSessions, ReleaseTuner
    <3> QED
      BY <2>1, <2>3, <3>1 DEF Reserving, Waiting, InSession
  <2> QED
    BY <2>2, <2>3
<1>11. CASE EndTest
  BY <1>11 DEF EndTest, Reserving, Waiting, InSession
<1> QED
  BY <1>2, <1>3, <1>4, <1>5, <1>6, <1>7, <1>8, <1>9, <1>10, <1>11 DEF UNext

LEMMA AloneFirst ==
    ASSUME UTypeOK, Place, alone, upc \in Trying
    PROVE  url = 1
<1>1. Len(tuneUrls) = 1 /\ url <= Len(tuneUrls)
  BY DEF Place, InLoop
<1>2. url \in Nat /\ url >= 1
  <2>1. url \in 1..(NumSiEntries + 1)
    BY TypedParts, Zenon DEF UrlTyped
  <2> QED
    BY <2>1, TunerAssumption
<1> QED
  BY <1>1, <1>2

LEMMA EarnedStep == UTypeOK /\ Place /\ Counted /\ Earned /\ [UNext]_uvars => Earned'
<1> SUFFICES ASSUME UTypeOK, Place, Counted, Earned, [UNext]_uvars PROVE Earned'
  OBVIOUS
<1> USE DEF Earned, AllSeenLocked, FileTold, Place, Trying, InLoop, Early, uctl, ufile, ulock, uqam, utrh, ulater, ustill, Return, QamChecked, NoMemory, MayBe, Write, SaveTuneFailureMsg
<1>1. CASE UNCHANGED uvars
  BY <1>1 DEF uvars
<1>2. CASE GetTuneData
  BY <1>2 DEF GetTuneData
<1>3. CASE CancelTest
  BY <1>3 DEF CancelTest
<1>4. CASE RemoveTuneResults
  BY <1>4 DEF RemoveTuneResults
<1>5. CASE VerifyStandbyState
  BY <1>5 DEF VerifyStandbyState
<1>6. CASE ReadDecoder
  BY <1>6 DEF ReadDecoder
<1>7. CASE GetNumberOfTuners
  BY <1>7 DEF GetNumberOfTuners
<1>8. CASE CheckQamConnection
  BY <1>8 DEF CheckQamConnection
<1>9. CASE GetTuneUrls
  BY <1>9 DEF GetTuneUrls
<1>10. CASE LookForDecoder
  BY <1>10 DEF LookForDecoder
<1>11. CASE SaveDecoderTuneResults
  BY <1>11 DEF SaveDecoderTuneResults
<1>12. CASE NextUrl
  <2>1. /\ alone' = alone /\ tuneFile' = tuneFile /\ unwritten' = unwritten /\ url' = url
        /\ upc = "url" /\ upc' \in {"end", "reserve"} /\ qamLocked' = qamLocked
    BY <1>12 DEF NextUrl
  <2>2. CASE alone
    <3>1. Len(tuneUrls) = 1 /\ url \in Nat
      BY <2>1, <2>2, TypedParts DEF UrlTyped
    <3>2. url = 1 => tuneFile = "none"
      BY <2>1, <2>2
    <3>3. url # 1 /\ result # "none" => FileTold
      BY <2>1, <2>2
    <3>4. \/ url # 1 /\ upc' = "end" /\ result' = result
          \/ url = 1 /\ upc' = "end" /\ result' = "CANCELLED"
          \/ url = 1 /\ upc' = "reserve"
      <4>1. url > Len(tuneUrls) => url # 1
        BY <3>1
      <4>2. url <= Len(tuneUrls) => url = 1
        BY <3>1, TypedParts DEF UrlTyped
      <4> QED
        BY <1>12, <2>2, <4>1, <4>2, Zenon DEF NextUrl
    <3> QED
      BY <2>1, <2>2, <3>2, <3>3, <3>4
  <2>3. CASE ~alone
    <3>1. \/ UNCHANGED locked
          \/ LookAtTuners(FALSE)
      BY <1>12, Zenon DEF NextUrl
    <3>2. AllSeenLocked => AllSeenLocked'
      BY <3>1, LookKeeps
    <3>3. result' # "SUCCESS" \/ result' = result \/ (numLocked' = NumTuners /\ LookAtTuners(FALSE))
      BY <1>12, <2>3 DEF NextUrl
    <3>4. numLocked' = NumTuners /\ LookAtTuners(FALSE) => AllSeenLocked'
      BY LookKeeps, Zenon DEF Counted
    <3> QED
      BY <2>1, <2>3, <3>2, <3>3, <3>4
  <2> QED
    BY <2>2, <2>3
<1>13. CASE ReserveTuner
  BY <1>13 DEF ReserveTuner
<1>14. CASE ReserveCancelled
  BY <1>14 DEF ReserveCancelled
<1>15. CASE TrmAnswers
  BY <1>15 DEF TrmAnswers
<1>16. CASE ReserveWaitEnds
  BY <1>16 DEF ReserveWaitEnds
<1>17. CASE Reserved
  BY <1>17 DEF Reserved
<1>18. CASE WaitForTunerRelease
  BY <1>18 DEF WaitForTunerRelease
<1>19. CASE SessionsStarted
  <2>1. /\ alone' = alone /\ tuneFile' = tuneFile /\ unwritten' = unwritten /\ url' = url
        /\ qamLocked' = qamLocked /\ locked' = locked
        /\ upc = "started" /\ upc' \in {"end", "probe"}
        /\ (upc' = "end" => result' = "CANCELLED") /\ (upc' = "probe" => result' = result)
    BY <1>19 DEF SessionsStarted
  <2>2. alone => url = 1
    BY <2>1, AloneFirst, Zenon
  <2> QED
    BY <2>1, <2>2
<1>20. CASE Probe
  <2>1. AllSeenLocked => AllSeenLocked'
    BY <1>20, LookKeeps DEF Probe
  <2> QED
    BY <1>20, <2>1 DEF Probe
<1>21. CASE CloseTuneSessions
  BY <1>21 DEF CloseTuneSessions
<1>22. CASE Judge
  <2>1. /\ alone' = alone /\ url' = url + 1 /\ qamLocked' = qamLocked /\ locked' = locked
        /\ upc = "judge" /\ upc' \in {"end", "url", "dead"}
    BY <1>22 DEF Judge, SaveTuneResults
  <2>2. CASE alone
    <3>1. url = 1
      BY <2>1, <2>2, AloneFirst
    <3>9. url' = 2 /\ tuneFile = "none"
      BY <2>1, <2>2, <3>1
    <3>2. \/ upc' = "dead"
          \/ unwritten' = TRUE
          \/ result' = "SUCCESS" /\ tuneFile' = "results"
          \/ result' \in {"FAILURE", "NO_LOCK"} /\ tuneFile' = "message"
      BY <1>22, <2>2 DEF Judge, SaveTuneResults, AllLocked
    <3> QED
      BY <2>1, <2>2, <3>1, <3>9, <3>2
  <2>3. CASE ~alone
    <3>1. result' = "SUCCESS" => numLocked >= NumTuners
      BY <1>22, <2>3 DEF Judge, AllLocked
    <3>2. numLocked >= NumTuners => numLocked = NumTuners
      BY TypedParts, TunerAssumption DEF CountTyped
    <3>3. result' = "SUCCESS" => AllSeenLocked
      BY <3>1, <3>2 DEF Counted
    <3> QED
      BY <2>1, <2>3, <3>3
  <2> QED
    BY <2>2, <2>3
<1>23. CASE EndTest
  BY <1>23 DEF EndTest
<1>24. CASE TunerRestart
  BY <1>24 DEF TunerRestart
<1> QED
  BY <1>1, <1>2, <1>3, <1>4, <1>5, <1>6, <1>7, <1>8, <1>9, <1>10, <1>11, <1>12, <1>13, <1>14, <1>15, <1>16, <1>17, <1>18, <1>19, <1>20, <1>21, <1>22, <1>23, <1>24 DEF UNext

LEMMA CountedStep == UTypeOK /\ Counted /\ [UNext]_uvars => Counted'
<1> SUFFICES ASSUME UTypeOK, Counted, [UNext]_uvars PROVE Counted'
  OBVIOUS
<1>1. UNCHANGED <<locked, numLocked>> => Counted'
  BY DEF Counted, AllSeenLocked
<1>2. numLocked' = 0 => Counted'
  BY NoneCounted DEF Counted
<1>3. \A forFreq \in BOOLEAN : LookAtTuners(forFreq) => Counted'
  BY LookKeeps, Zenon
<1> USE DEF uctl, ufile, ulock, uqam, utrh, ulater, ustill
<1>4. CASE NextUrl \/ LookForDecoder \/ Probe
  BY <1>1, <1>2, <1>3, <1>4, Zenon DEF NextUrl, LookForDecoder, Probe
<1>5. CASE GetTuneData \/ SessionsStarted
  BY <1>1, <1>2, <1>5 DEF GetTuneData, SessionsStarted
<1>6. CASE \/ CancelTest \/ RemoveTuneResults \/ VerifyStandbyState \/ ReadDecoder
           \/ GetNumberOfTuners \/ CheckQamConnection \/ GetTuneUrls \/ SaveDecoderTuneResults
  BY <1>1, <1>6 DEF CancelTest, RemoveTuneResults, VerifyStandbyState, ReadDecoder,
                    GetNumberOfTuners, CheckQamConnection, GetTuneUrls, SaveDecoderTuneResults
<1>7. CASE \/ ReserveTuner \/ ReserveCancelled \/ TrmAnswers \/ ReserveWaitEnds \/ Reserved
           \/ WaitForTunerRelease \/ CloseTuneSessions \/ Judge \/ EndTest \/ TunerRestart
           \/ UNCHANGED uvars
  BY <1>1, <1>7 DEF ReserveTuner, ReserveCancelled, TrmAnswers, ReserveWaitEnds, Reserved,
                    WaitForTunerRelease, CloseTuneSessions, Judge, EndTest, TunerRestart, uvars
<1> QED
  BY <1>4, <1>5, <1>6, <1>7 DEF UNext

LEMMA TunerInit == UInit => TunerInv
<1> SUFFICES ASSUME UInit PROVE TunerInv
  OBVIOUS
<1>1. Counted
  BY NoneCounted DEF Counted, UInit
<1>2. Place /\ Held /\ Reserving /\ Earned
  BY DEF UInit, Place, Held, Reserving, Earned, Decoded, Trying, InLoop, Early
<1> QED
  BY <1>1, <1>2, TunerTypesInit DEF TunerInv

LEMMA TunerStep == TunerInv /\ [UNext]_uvars => TunerInv'
BY TunerTypesStep, PlaceStep, HeldStep, ReservingStep, CountedStep, EarnedStep DEF TunerInv

\* The invariant of a tuner test: its place, what it holds, what it counted and what it
\* has written, at each of its steps.
THEOREM TunerSafe == USpec => []TunerInv
BY TunerInit, TunerStep, PTL DEF USpec

\* The variables of the tuner diagnostic keep to their types, whatever the services
\* answer and whoever cancels it (wa_diag_tuner.c).
THEOREM Tuner_Types == USpec => []UTypeOK
<1>1. TunerInv => UTypeOK
  BY DEF TunerInv
<1> QED
  BY <1>1, TunerSafe, PTL

\* ReturnsEverything: a test gives back its memory, its session and every reservation,
\* save on the ways out that forget them and save what the wait for TRM gave up
\* (wa_diag_tuner.c:1805-2162, wa_trh.cpp:165-283).
THEOREM Returns_Everything == USpec => []ReturnsEverything
<1>1. TunerInv => ReturnsEverything
  BY DEF TunerInv, Held, Reserving, ReturnsEverything, Decoded, Waiting, InSession
<1> QED
  BY <1>1, TunerSafe, PTL

\* SuccessIsEarned: a test that says SUCCESS saw the locks it says, or left its results
\* in the file, for any number of tuners and entries (wa_diag_tuner.c:1805-2162).
THEOREM Success_Is_Earned == USpec => []SuccessIsEarned
<1>1. TunerInv => SuccessIsEarned
  BY DEF TunerInv, Earned, FileTold, AllSeenLocked, SuccessIsEarned
<1> QED
  BY <1>1, TunerSafe, PTL

-----------------------------------------------------------------------------
(* The users of IARM.                                                      *)

\* What counts the users: the invariant is inductive with the types it needs.
BusInv ==
    /\ team \in Teams /\ DOMAIN at = team /\ IsFiniteSet(Users)
    /\ count \in Nat /\ lost \in Nat /\ connected \in BOOLEAN
    /\ ConnectedWhileUsed

LEMMA TeamFinite == \A t \in Teams : IsFiniteSet(t)
<1>1. IsFiniteSet({"rf4ce"} \cup {"caps"} \cup {"wifi"} \cup {"sysinfo"} \cup {"moca"})
  BY FS_Singleton, FS_Union
<1>2. IsFiniteSet({"wan"} \cup {"flash"} \cup {"sdcard"} \cup {"hdmiout"})
  BY FS_Singleton, FS_Union
<1>3. Threads = ({"rf4ce"} \cup {"caps"} \cup {"wifi"} \cup {"sysinfo"} \cup {"moca"})
                \cup ({"wan"} \cup {"flash"} \cup {"sdcard"} \cup {"hdmiout"})
  BY DEF Threads
<1>4. IsFiniteSet(Threads)
  BY <1>1, <1>2, <1>3, FS_Union
<1> QED
  BY <1>4, FS_Subset, IarmAssumption

LEMMA BusInit == SInit => BusInv
<1> SUFFICES ASSUME SInit PROVE BusInv
  OBVIOUS
<1>1. Users = {}
  BY DEF SInit, Users, Outside
<1>2. IsFiniteSet(Users) /\ Cardinality(Users) = 0
  BY <1>1, FS_EmptySet
<1>3. connected \in BOOLEAN /\ (connected <=> count > 0) /\ count \in Nat /\ lost \in Nat
  <2>1. connected = FALSE /\ count = 0 /\ lost = 0
    BY DEF SInit
  <2>2. count \in Nat /\ lost \in Nat /\ ~(count > 0)
    BY <2>1
  <2> QED
    BY <2>1, <2>2, Zenon
<1>4. count = Cardinality(Users) + lost
  BY <1>2 DEF SInit
<1>5. team \in Teams /\ DOMAIN at = team
  BY DEF SInit
<1> QED
  BY <1>2, <1>3, <1>4, <1>5, Zenon DEF BusInv, ConnectedWhileUsed

-----------------------------------------------------------------------------
(* What a step of one thread does to the users.                            *)

Moves(t, stage) == at' = [at EXCEPT ![t] = stage] /\ team' = team

LEMMA UsersAfter ==
    ASSUME BusInv, NEW t \in team, NEW stage, Moves(t, stage)
    PROVE  /\ team' \in Teams /\ DOMAIN at' = team'
           /\ Users' = IF stage \in Outside THEN Users \ {t} ELSE Users \cup {t}
BY DEF BusInv, Moves, Users

\* Who neither connects nor disconnects stays in or out.
LEMMA Stays ==
    ASSUME BusInv, NEW t \in team, NEW stage, Moves(t, stage), UNCHANGED bus,
           at[t] \in Outside <=> stage \in Outside
    PROVE  BusInv'
<1>1. Users' = Users
  BY UsersAfter DEF Users
<1> QED
  BY <1>1, UsersAfter DEF BusInv, ConnectedWhileUsed, bus

LEMMA Connects ==
    ASSUME BusInv, NEW t \in team, NEW stage, Moves(t, stage), Connect,
           at[t] \in Outside, stage \notin Outside
    PROVE  BusInv'
<1>1. Users' = Users \cup {t} /\ t \notin Users
  BY UsersAfter DEF Users
<1>2. IsFiniteSet(Users') /\ Cardinality(Users') = Cardinality(Users) + 1
  BY <1>1, FS_AddElement DEF BusInv
<1>3. Cardinality(Users) \in Nat
  BY FS_CardinalityType DEF BusInv
<1> QED
  BY <1>2, <1>3, UsersAfter DEF BusInv, ConnectedWhileUsed, Connect

\* The last user may leave the connection behind, and counts as lost then.
LEMMA Leaves ==
    ASSUME BusInv, NEW t \in team, NEW stage, Moves(t, stage),
           at[t] \notin Outside, stage \in Outside,
           \/ \E failed \in BOOLEAN : Disconnect(failed)
           \/ lost' = lost + 1 /\ UNCHANGED <<connected, count>>
    PROVE  BusInv'
<1>1. Users' = Users \ {t} /\ t \in Users
  BY UsersAfter DEF Users
<1>2. IsFiniteSet(Users') /\ Cardinality(Users') = Cardinality(Users) - 1
  BY <1>1, FS_RemoveElement DEF BusInv
<1>3. Cardinality(Users) \in Nat /\ Cardinality(Users') \in Nat
  BY <1>2, FS_CardinalityType DEF BusInv
<1>4. count \in Nat /\ lost \in Nat /\ count = Cardinality(Users) + lost /\ Cardinality(Users) >= 1
      /\ (connected = TRUE)
  <2>1. count \in Nat /\ lost \in Nat /\ count = Cardinality(Users) + lost
        /\ connected \in BOOLEAN /\ (connected <=> count > 0)
    BY DEF BusInv, ConnectedWhileUsed
  <2>2. Cardinality(Users) >= 1
    BY <1>2, <1>3
  <2>3. count > 0
    BY <1>3, <2>1, <2>2
  <2> QED
    BY <2>1, <2>2, <2>3
<1>5. \/ count' = count - 1 /\ count > 1 /\ connected' = connected /\ lost' = lost
      \/ count = 1 /\ count' = 1 /\ lost' = lost + 1 /\ connected' = connected
      \/ count = 1 /\ count' = 0 /\ connected' = FALSE /\ lost' = lost
      \/ count' = count /\ lost' = lost + 1 /\ connected' = connected
  <2>1. ASSUME NEW failed \in BOOLEAN, Disconnect(failed), count > 1
        PROVE  count' = count - 1 /\ connected' = connected /\ lost' = lost
    BY <2>1 DEF Disconnect
  <2>2. ASSUME NEW failed \in BOOLEAN, Disconnect(failed), ~(count > 1)
        PROVE  \/ count' = 1 /\ lost' = lost + 1 /\ connected' = connected
               \/ count' = 0 /\ connected' = FALSE /\ lost' = lost
    BY <2>2, Zenon DEF Disconnect
  <2>3. count > 1 \/ count = 1
    BY <1>3, <1>4
  <2>4. ~(1 > 1)
    OBVIOUS
  <2> QED
    BY <2>1, <2>2, <2>3, <2>4, Zenon
<1>6. count' \in Nat /\ lost' \in Nat /\ count' = Cardinality(Users') + lost'
  <2> DEFINE before == Cardinality(Users)
             after == Cardinality(Users')
  <2>1. before \in Nat /\ after \in Nat /\ after = before - 1
    BY <1>2, <1>3
  <2>2. count \in Nat /\ lost \in Nat /\ count = before + lost /\ before >= 1
    BY <1>4
  <2> HIDE DEF before, after
  <2>3. count = 1 => lost = 0 /\ before = 1
    BY <2>1, <2>2
  <2>4. \/ count' = count - 1 /\ count > 1 /\ lost' = lost
        \/ count = 1 /\ count' = 1 /\ lost' = lost + 1
        \/ count = 1 /\ count' = 0 /\ lost' = lost
        \/ count' = count /\ lost' = lost + 1
    BY <1>5, Zenon
  <2>5. count' \in Nat /\ lost' \in Nat /\ count' = after + lost'
    BY <2>1, <2>2, <2>3, <2>4
  <2> QED
    BY <2>5 DEF after
<1>7. connected' \in BOOLEAN /\ (connected' <=> count' > 0)
  <2>1. connected = TRUE /\ count \in Nat /\ count >= 1
    BY <1>3, <1>4
  <2>2. count > 1 => count - 1 > 0
    BY <2>1
  <2>3. count > 0 /\ 1 > 0 /\ ~(0 > 0)
    BY <2>1
  <2> QED
    BY <1>5, <2>1, <2>2, <2>3, Zenon
<1> QED
  BY <1>2, <1>6, <1>7, UsersAfter, Zenon DEF BusInv, ConnectedWhileUsed

\* The agent starts again with nobody connected.
LEMMA Crashes ==
    ASSUME BusInv, Crash, UNCHANGED team
    PROVE  BusInv'
<1>1. Users' = {}
  BY DEF Crash, Users, Outside
<1>2. IsFiniteSet(Users') /\ Cardinality(Users') = 0
  BY <1>1, FS_EmptySet
<1>3. connected' \in BOOLEAN /\ (connected' <=> count' > 0) /\ count' \in Nat /\ lost' \in Nat
  <2>1. connected' = FALSE /\ count' = 0 /\ lost' = 0
    BY DEF Crash
  <2>2. count' \in Nat /\ lost' \in Nat /\ ~(count' > 0)
    BY <2>1
  <2> QED
    BY <2>1, <2>2, Zenon
<1>4. count' = Cardinality(Users') + lost'
  BY <1>2 DEF Crash
<1>5. team' \in Teams /\ DOMAIN at' = team'
  BY DEF Crash, BusInv
<1> QED
  BY <1>2, <1>3, <1>4, <1>5, Zenon DEF BusInv, ConnectedWhileUsed

-----------------------------------------------------------------------------
(* Whoever asks is connected, and stays so until it gives the connection   *)
(* back.                                                                   *)

Within(answers) == \A a \in answers : a[2] \notin Outside

LEMMA NextStep ==
    /\ \A h, stage : Go(h, stage)[2] = stage
    /\ \A h, v : End(h, v)[2] = "disconnect"
    /\ \A a, stage, v : <<a, stage, v>>[2] = stage
BY DEF Go, End

LEMMA AskedWithin ==
    ASSUME NEW t \in team
    PROVE  Within(AnswersOf(t)) /\ (AnswersOf(t) # {} => at[t] \notin Outside)
<1> USE NextStep DEF Outside
<1>1. \A stage, h : Within(Wan(stage, h)) /\ (Wan(stage, h) # {} => stage \notin Outside)
  BY DEF Wan, Gateway, ComcastNetwork, PublicNetwork, Within
<1>2. \A stage, h : Within(Flash(stage, h)) /\ (Flash(stage, h) # {} => stage \notin Outside)
  BY DEF Flash, PreEOLState, PreEOLStates, StorageLife, Within
<1>3. \A stage : Within(Sdcard(stage)) /\ (Sdcard(stage) # {} => stage \notin Outside)
  BY DEF Sdcard, Within
<1>4. \A stage : Within(Hdmiout(stage)) /\ (Hdmiout(stage) # {} => stage \notin Outside)
  BY DEF Hdmiout, HdmiPort, HdmiDisplay, Within
<1>5. \A stage : Within(SysinfoHost(stage)) /\ (SysinfoHost(stage) # {} => stage \notin Outside)
  BY DEF SysinfoHost, UpnpResults, HostParams, Within
<1>6. \A stage : Within(Sysinfo(stage)) /\ (Sysinfo(stage) # {} => stage \notin Outside)
  BY DEF Sysinfo, Within
<1> QED
  BY <1>1, <1>2, <1>3, <1>4, <1>5, <1>6 DEF AnswersOf, Within

LEMMA Rf4ceWithin ==
    ASSUME NEW t \in team
    PROVE  Within(Rf4ceAnswers(t)) /\ (Rf4ceAnswers(t) # {} => at[t] \notin Outside)
<1> USE DEF Go, EndWith, EndRf4ce, Outside, Within
<1>1. Within(ViaRf4ceMgr(t))
  BY DEF ViaRf4ceMgr
<1>2. Within(ChipStatus(t)) /\ Within(LastKeyInfo(t))
  BY DEF ChipStatus, LastKeyInfo
<1>3. at[t] \in {"ctrlm", "network", "keyWanted"} => Within(ViaCtrlMgr(t))
  BY DEF ViaCtrlMgr
<1> QED
  BY <1>1, <1>2, <1>3 DEF Rf4ceAnswers

\* An answer moves who asked for it, and nothing of the bus.
LEMMA TakeKeeps ==
    ASSUME BusInv, NEW t \in team, NEW answer, Take(t, answer), UNCHANGED team,
           at[t] \notin Outside, answer[2] \notin Outside
    PROVE  BusInv'
BY Stays DEF Take, Moves

LEMMA AskKeeps ==
    ASSUME BusInv, NEW t \in team, UNCHANGED team,
           Ask(t) \/ HdcpLook(t) \/ AskRf4ce(t) \/ WifiEnable(t) \/ WifiOper(t) \/ WifiCompare(t)
    PROVE  BusInv'
<1> USE DEF Go, End
<1>1. CASE Ask(t)
  BY <1>1, AskedWithin, TakeKeeps DEF Ask, Within
<1>2. CASE AskRf4ce(t)
  BY <1>2, Rf4ceWithin, TakeKeeps DEF AskRf4ce, Within
<1>3. CASE HdcpLook(t)
  <2>1. PICK answer : Take(t, answer) /\ answer[2] \in {"disconnect", "hdcp", "nexusHdcp"}
    BY <1>3 DEF HdcpLook
  <2> QED
    BY <1>3, <2>1, TakeKeeps DEF HdcpLook, Outside
<1>4. CASE WifiEnable(t)
  <2>1. PICK answer : Take(t, answer) /\ answer[2] \in {"oper", "disconnect"}
    BY <1>4 DEF WifiEnable
  <2> QED
    BY <1>4, <2>1, TakeKeeps DEF WifiEnable, Outside
<1>5. CASE WifiOper(t)
  <2>1. PICK answer : Take(t, answer) /\ answer[2] \in {"wifiCompare", "disconnect", "disconnectAgain"}
    BY <1>5 DEF WifiOper, EndWifi
  <2> QED
    BY <1>5, <2>1, TakeKeeps DEF WifiOper, Outside
<1>6. CASE WifiCompare(t)
  <2>1. PICK answer : Take(t, answer) /\ answer[2] \in {"disconnect", "disconnectAgain"}
    BY <1>6 DEF WifiCompare, EndWifi
  <2> QED
    BY <1>6, <2>1, TakeKeeps DEF WifiCompare, Outside
<1> QED
  BY <1>1, <1>2, <1>3, <1>4, <1>5, <1>6

\* The diagnostics with questions of their own.
LEMMA OwnKeeps ==
    ASSUME BusInv, UNCHANGED team,
           \/ Ssid \/ SsidPrint \/ MocaEnable \/ MocaDevices \/ MocaCount \/ MocaPackets \/ MocaInfo
    PROVE  BusInv'
<1>1. CASE Ssid \/ SsidPrint \/ MocaInfo
  <2>1. "sysinfo" \in team /\ at["sysinfo"] \notin Outside
    BY <1>1 DEF Ssid, SsidPrint, MocaInfo, Is, Outside
  <2>2. PICK answer : /\ Take("sysinfo", answer)
                      /\ answer[2] \in {"mac", "freq", "ssidPrint", "mocaInfo", "ssid"}
    BY <1>1 DEF Ssid, SsidPrint, MocaInfo, Go
  <2> QED
    BY <2>1, <2>2, TakeKeeps DEF Outside
<1>2. CASE MocaEnable \/ MocaDevices \/ MocaCount \/ MocaPackets
  <2>1. "moca" \in team /\ at["moca"] \notin Outside
    BY <1>2 DEF MocaEnable, MocaDevices, MocaCount, MocaPackets, Is, Outside
  <2>2. PICK answer : /\ Take("moca", answer)
                      /\ answer[2] \in {"mocaDevices", "disconnect", "mocaCount", "packets"}
    BY <1>2 DEF MocaEnable, MocaDevices, MocaCount, MocaPackets, Go, End
  <2> QED
    BY <2>1, <2>2, TakeKeeps DEF Outside
<1> QED
  BY <1>1, <1>2

-----------------------------------------------------------------------------
(* How a test begins and ends.                                             *)

LEMMA FinishMoves == ASSUME NEW t, NEW v, Finish(t, v), UNCHANGED team PROVE Moves(t, "idle")
BY DEF Finish, Moves

LEMMA TestKeeps ==
    ASSUME BusInv, NEW t \in team, UNCHANGED team,
           BeginTest(t) \/ Supported(t) \/ Cancelled(t) \/ ConnectFirst(t) \/ GiveBack(t)
    PROVE  BusInv'
<1>1. CASE BeginTest(t)
  <2>1. Moves(t, FirstStep(t)) /\ UNCHANGED bus /\ at[t] \in Outside
    BY <1>1 DEF BeginTest, Moves, Outside
  <2>2. FirstStep(t) \in Outside
    BY DEF FirstStep, Outside
  <2> QED
    BY <2>1, <2>2, Stays
<1>2. CASE Supported(t) \/ Cancelled(t)
  <2>1. UNCHANGED bus /\ at[t] \in Outside
    BY <1>2 DEF Supported, Cancelled, Outside
  <2>2. Moves(t, "connect") \/ Moves(t, "idle")
    BY <1>2, FinishMoves DEF Supported, Cancelled, Moves
  <2> QED
    BY <2>1, <2>2, Stays DEF Outside
<1>3. CASE ConnectFirst(t)
  <2>1. at[t] \in Outside
    BY <1>3 DEF ConnectFirst, Outside
  <2>2. \/ Connect /\ Moves(t, AskFirst(t))
        \/ UNCHANGED bus /\ (Moves(t, "connectAgain") \/ Moves(t, "idle"))
    BY <1>3, FinishMoves DEF ConnectFirst, Moves
  <2>3. AskFirst(t) \notin Outside
    <3>1. t \in Threads
      BY IarmAssumption DEF BusInv
    <3> QED
      BY <3>1 DEF AskFirst, Outside, Threads
  <2> QED
    BY <2>1, <2>2, <2>3, Connects, Stays DEF Outside
<1>4. CASE GiveBack(t)
  <2>1. at[t] \notin Outside
    BY <1>4 DEF GiveBack, Outside
  <2>2. /\ \E failed \in BOOLEAN : Disconnect(failed)
        /\ Moves(t, "connectAgain") \/ Moves(t, "idle")
    BY <1>4, FinishMoves DEF GiveBack, Moves
  <2> QED
    BY <2>1, <2>2, Leaves DEF Outside
<1> QED
  BY <1>1, <1>2, <1>3, <1>4

\* The capabilities, which connect a second time, and may never disconnect.
LEMMA CapsKeeps ==
    ASSUME BusInv, UNCHANGED team, BeginPairing \/ EndPairing \/ ConnectAgain \/ DefaultRoute
    PROVE  BusInv'
<1>1. "caps" \in team
  BY DEF BeginPairing, EndPairing, ConnectAgain, DefaultRoute, Is
<1>2. CASE BeginPairing \/ EndPairing
  <2>1. UNCHANGED bus /\ at["caps"] \notin Outside
    BY <1>2 DEF BeginPairing, EndPairing, Is, Outside
  <2>2. Moves("caps", "rf4cemgr") \/ Moves("caps", "disconnect")
    BY <1>2 DEF BeginPairing, EndPairing, Moves
  <2> QED
    BY <1>1, <2>1, <2>2, Stays DEF Outside
<1>3. CASE ConnectAgain
  <2>1. at["caps"] \in Outside
    BY <1>3 DEF ConnectAgain, Is, Outside
  <2>2. \/ Connect /\ Moves("caps", "route")
        \/ UNCHANGED bus /\ Moves("caps", "idle")
    BY <1>3, FinishMoves DEF ConnectAgain, Moves
  <2> QED
    BY <1>1, <2>1, <2>2, Connects, Stays DEF Outside
<1>4. CASE DefaultRoute
  <2>1. at["caps"] \notin Outside
    BY <1>4 DEF DefaultRoute, Is, Outside
  <2>2. \/ UNCHANGED bus /\ (Moves("caps", "oper") \/ Moves("caps", "disconnectAgain"))
        \/ lost' = lost + 1 /\ UNCHANGED <<connected, count>> /\ Moves("caps", "idle")
    BY <1>4, FinishMoves DEF DefaultRoute, Moves, bus
  <2> QED
    BY <1>1, <2>1, <2>2, Leaves, Stays DEF Outside
<1> QED
  BY <1>2, <1>3, <1>4

LEMMA BusStep == BusInv /\ [SNext]_svars => BusInv'
<1> SUFFICES ASSUME BusInv, [SNext]_svars PROVE BusInv'
  OBVIOUS
<1>1. CASE UNCHANGED svars
  BY <1>1 DEF svars, bus, BusInv, ConnectedWhileUsed, Users
<1>2. ASSUME UNCHANGED team, NEW t \in team, NotAnswered(t) PROVE BusInv'
  BY <1>2, Crashes DEF NotAnswered
<1> QED
  BY <1>1, <1>2, TestKeeps, AskKeeps, OwnKeeps, CapsKeeps DEF SNext

\* ConnectedWhileUsed: the count of the connection is that of its users, so that the
\* bus is left when the last one leaves and not before (wa_iarm.cpp:185-293).
THEOREM Connected_While_Used == SSpec => []ConnectedWhileUsed
<1>1. BusInv => ConnectedWhileUsed
  BY DEF BusInv
<1> QED
  BY <1>1, BusInit, BusStep, PTL DEF SSpec

-----------------------------------------------------------------------------
(* Types.                                                                  *)

\* The parts of STypeOK that are about the threads and what they share.
ThreadsTyped ==
    /\ at \in [team -> Outside \cup Asking] /\ ret \in [team -> Verdicts]
    /\ judged \in [team -> Verdicts]
    /\ heard \in [team -> SUBSET News] /\ (\A t \in team \ Tests : heard[t] = {})
    /\ disturbed \subseteq team
SharedTyped ==
    /\ only \in BOOLEAN /\ wifiIARM \in {"unset", "UP", "DOWN", "text"}
    /\ mocaInt \in {"none", "few", "many"}
BoundsTyped == lost \in 0..MaxLost /\ tries \in 0..HdmiTries

\* What is concluded, and what is heard if it is a test that asks.
Concludes(t, answer) == answer[2] \in Asking /\ answer[3] \in Verdicts
                        /\ (t \in Tests => answer[1] \subseteq News)

LEMMA AskedTyped ==
    ASSUME NEW t \in team, NEW answer \in AnswersOf(t)
    PROVE  Concludes(t, answer)
<1> USE DEF Go, End, Concludes
<1>1. \A stage, h : \A a \in Wan(stage, h) : Concludes("wan", a)
  <2>1. \A a \in Gateway : Concludes("wan", a)
    BY DEF Gateway, Asking, Verdicts, News
  <2>2. \A a \in ComcastNetwork : Concludes("wan", a)
    BY DEF ComcastNetwork, Asking, Verdicts, News
  <2>3. \A c : \A a \in PublicNetwork(c) : Concludes("wan", a)
    BY DEF PublicNetwork, Asking, Verdicts, News
  <2> QED
    BY <2>1, <2>2, <2>3 DEF Wan
<1>2. \A stage, h : \A a \in Flash(stage, h) : Concludes("flash", a)
  <2>1. \A next \in Asking : \A a \in PreEOLState(next) : Concludes("flash", a)
    BY DEF PreEOLState, Verdicts, News
  <2>2. \A h : \A a \in PreEOLStates(h) : Concludes("flash", a)
    BY DEF PreEOLStates, Asking, Verdicts
  <2>3. \A good, next : Concludes("flash", good)
            => \A a \in StorageLife(good, next) : Concludes("flash", a)
    BY DEF StorageLife, Asking, Verdicts, News
  <2>4. Concludes("flash", Go("lifeA", "lifeB")) /\ Concludes("flash", End("lifeB", "SUCCESS"))
    BY DEF Asking, Verdicts, News
  <2>5. {"eol2", "eol3", "eol"} \subseteq Asking
    BY DEF Asking
  <2> QED
    BY <2>1, <2>2, <2>3, <2>4, <2>5 DEF Flash
<1>3. \A stage : \A a \in Sdcard(stage) : Concludes("sdcard", a)
  BY DEF Sdcard, Asking, Verdicts, News
<1>4. \A stage : \A a \in Hdmiout(stage) : Concludes("hdmiout", a)
  BY DEF Hdmiout, HdmiPort, HdmiDisplay, Asking, Verdicts, News
<1>5. \A stage : \A a \in SysinfoHost(stage) : Concludes("sysinfo", a)
  BY DEF SysinfoHost, UpnpResults, HostParams, Asking, Verdicts, Tests
<1>6. \A stage : \A a \in Sysinfo(stage) : Concludes("sysinfo", a)
  <2>1. \A data, high, critical : Temperature(data, high, critical) \in Verdicts
    BY DEF Temperature, Verdicts
  <2> QED
    BY <2>1 DEF Sysinfo, Asking, Verdicts, Tests
<1> QED
  BY <1>1, <1>2, <1>3, <1>4, <1>5, <1>6 DEF AnswersOf

LEMMA Rf4ceTyped ==
    ASSUME NEW t \in team, NEW answer \in Rf4ceAnswers(t)
    PROVE  Concludes(t, answer)
<1> USE DEF EndWith, EndRf4ce, Go, Concludes
<1>1. \A a \in ViaRf4ceMgr(t) : Concludes(t, a)
  BY DEF ViaRf4ceMgr, VerifyRf4ceStatus, Asking, Verdicts, News
<1>2. \A a \in ChipStatus(t) \cup LastKeyInfo(t) : Concludes(t, a)
  BY DEF ChipStatus, LastKeyInfo, Asking, Verdicts, News
<1>3. at[t] \in {"ctrlm", "network", "keyWanted"} => \A a \in ViaCtrlMgr(t) : Concludes(t, a)
  BY DEF ViaCtrlMgr, VerifyRf4ceStatus, Asking, Verdicts, News
<1> QED
  BY <1>1, <1>2, <1>3 DEF Rf4ceAnswers

LEMMA TypedInit == SInit => ThreadsTyped /\ SharedTyped /\ BoundsTyped
<1> SUFFICES ASSUME SInit PROVE ThreadsTyped /\ SharedTyped /\ BoundsTyped
  OBVIOUS
<1>1. ThreadsTyped /\ SharedTyped
  BY DEF SInit, ThreadsTyped, SharedTyped, Outside, Verdicts
<1>2. BoundsTyped
  BY IarmAssumption DEF SInit, BoundsTyped
<1> QED
  BY <1>1, <1>2

LEMMA TakeTyped ==
    ASSUME ThreadsTyped, UNCHANGED team, NEW t \in team, NEW answer, Concludes(t, answer),
           Take(t, answer), disturbed' \subseteq team
    PROVE  ThreadsTyped'
<1>1. at' \in [team -> Outside \cup Asking] /\ ret' \in [team -> Verdicts]
      /\ judged' \in [team -> Verdicts]
  BY DEF ThreadsTyped, Take, Concludes
<1>2. CASE t \in Tests
  BY <1>2 DEF ThreadsTyped, Take, Concludes
<1>3. CASE t \notin Tests
  BY <1>3 DEF ThreadsTyped, Take, Concludes
<1>4. heard' \in [team -> SUBSET News] /\ \A u \in team \ Tests : heard'[u] = {}
  BY <1>2, <1>3 DEF ThreadsTyped
<1> QED
  BY <1>1, <1>4 DEF ThreadsTyped

LEMMA FinishTyped ==
    ASSUME ThreadsTyped, UNCHANGED <<team, heard, disturbed>>, NEW t \in team, NEW v \in Verdicts,
           Finish(t, v)
    PROVE  ThreadsTyped'
BY DEF ThreadsTyped, Finish, Outside, Verdicts

LEMMA MoveTyped ==
    ASSUME ThreadsTyped, UNCHANGED <<team, judged, heard, disturbed>>, NEW t \in team,
           NEW s \in Outside \cup Asking, NEW v \in Verdicts, Moves(t, s),
           ret' = [ret EXCEPT ![t] = v] \/ ret' = ret
    PROVE  ThreadsTyped'
BY DEF ThreadsTyped, Moves

LEMMA CrashTyped == ASSUME Crash, UNCHANGED team PROVE ThreadsTyped' /\ SharedTyped' /\ BoundsTyped'
<1>1. ThreadsTyped' /\ SharedTyped'
  BY DEF Crash, ThreadsTyped, SharedTyped, Outside, Verdicts
<1>2. BoundsTyped'
  BY IarmAssumption DEF Crash, BoundsTyped
<1> QED
  BY <1>1, <1>2

\* What a test says that cannot be held, or ends.
LEMMA Said ==
    /\ {"none", "NOT_APPLICABLE", "CANCELLED", "INTERNAL", "ir", "rf4ce", "SUCCESS", "FAILURE",
        "WIFI_NO_CONNECTION", "MOCA_NO_CLIENTS", "MOCA_DISABLED"} \subseteq Verdicts
    /\ \A t : Unconnected(t) \in {"NOT_APPLICABLE", "noData", "INTERNAL"} \cap Verdicts
    /\ \A v \in Verdicts : WithWifi(v) \in Verdicts
    /\ \A t \in Threads : AskFirst(t) \in Asking
    /\ \A t : FirstStep(t) \in Outside
BY DEF Verdicts, Unconnected, WithWifi, AskFirst, Asking, Threads, FirstStep, Outside

LEMMA ThreadOf == BusInv => team \subseteq Threads
BY IarmAssumption DEF BusInv

LEMMA TestTyped ==
    ASSUME BusInv, ThreadsTyped, UNCHANGED team, NEW t \in team,
           BeginTest(t) \/ Supported(t) \/ Cancelled(t) \/ ConnectFirst(t) \/ GiveBack(t)
    PROVE  ThreadsTyped'
<1> USE Said
<1>1. CASE BeginTest(t)
  BY <1>1 DEF BeginTest, ThreadsTyped
<1>2. CASE Supported(t) \/ Cancelled(t)
  <2>1. UNCHANGED <<heard, disturbed>>
    BY <1>2 DEF Supported, Cancelled
  <2>2. \/ Moves(t, "connect") /\ UNCHANGED <<ret, judged>>
        \/ \E v \in {"NOT_APPLICABLE", "CANCELLED", "INTERNAL"} : Finish(t, v)
    BY <1>2 DEF Supported, Cancelled, Moves
  <2>3. "connect" \in Outside
    BY DEF Outside
  <2> QED
    BY <2>1, <2>2, <2>3, MoveTyped, FinishTyped
<1>3. CASE ConnectFirst(t)
  <2>1. UNCHANGED <<heard, disturbed>>
    BY <1>3 DEF ConnectFirst
  <2>2. \/ Moves(t, AskFirst(t)) /\ UNCHANGED <<ret, judged>>
        \/ Moves(t, "connectAgain") /\ ret' = [ret EXCEPT ![t] = "ir"] /\ UNCHANGED judged
        \/ Finish(t, Unconnected(t))
    BY <1>3 DEF ConnectFirst, Moves
  <2>3. "connectAgain" \in Outside
    BY DEF Outside
  <2> QED
    BY <2>1, <2>2, <2>3, ThreadOf, MoveTyped, FinishTyped
<1>4. CASE GiveBack(t)
  <2>1. UNCHANGED <<heard, disturbed>>
    BY <1>4 DEF GiveBack
  <2>2. \/ Moves(t, "connectAgain") /\ UNCHANGED <<ret, judged>>
        \/ \E failed \in BOOLEAN : \E v \in VerdictOf(t, failed) : Finish(t, v)
    BY <1>4 DEF GiveBack, Moves
  <2>3. "connectAgain" \in Outside
    BY DEF Outside
  <2>4. \A failed \in BOOLEAN : VerdictOf(t, failed) \subseteq Verdicts
    BY DEF VerdictOf, ThreadsTyped
  <2> QED
    BY <2>1, <2>2, <2>3, <2>4, MoveTyped, FinishTyped
<1> QED
  BY <1>1, <1>2, <1>3, <1>4

LEMMA AskTyped ==
    ASSUME BusInv, ThreadsTyped, SharedTyped, UNCHANGED team, NEW t \in team,
           Ask(t) \/ HdcpLook(t) \/ AskRf4ce(t) \/ WifiEnable(t) \/ WifiOper(t) \/ WifiCompare(t)
    PROVE  ThreadsTyped'
<1> USE DEF Go, End
<1>1. CASE Ask(t)
  BY <1>1, AskedTyped, TakeTyped DEF Ask, ThreadsTyped
<1>2. CASE AskRf4ce(t)
  <2>1. disturbed' \subseteq team
    BY <1>2 DEF AskRf4ce, ThreadsTyped
  <2> QED
    BY <1>2, <2>1, Rf4ceTyped, TakeTyped DEF AskRf4ce
<1>3. CASE HdcpLook(t)
  <2>1. PICK answer : Take(t, answer) /\ Concludes(t, answer)
    BY <1>3 DEF HdcpLook, Concludes, Asking, Verdicts, News
  <2>2. disturbed' \subseteq team
    BY <1>3 DEF HdcpLook, ThreadsTyped
  <2> QED
    BY <2>1, <2>2, TakeTyped
<1>4. CASE WifiEnable(t)
  <2>1. PICK answer : Take(t, answer) /\ Concludes(t, answer)
    BY <1>4 DEF WifiEnable, Concludes, Asking, Verdicts, News
  <2>2. disturbed' \subseteq team
    BY <1>4 DEF WifiEnable, ThreadsTyped
  <2> QED
    BY <2>1, <2>2, TakeTyped
<1>5. CASE WifiOper(t)
  <2>0. ret[t] \in Verdicts
    BY DEF ThreadsTyped
  <2>1. PICK answer : Take(t, answer) /\ Concludes(t, answer)
    BY <1>5, <2>0, Said DEF WifiOper, EndWifi, Concludes, Asking, News
  <2>2. disturbed' \subseteq team
    BY <1>5 DEF WifiOper, CopyWifi, Reading, ThreadsTyped
  <2> QED
    BY <2>1, <2>2, TakeTyped
<1>6. CASE WifiCompare(t)
  <2>0. ret[t] \in Verdicts
    BY DEF ThreadsTyped
  <2>1. PICK answer : Take(t, answer) /\ Concludes(t, answer)
    BY <1>6, <2>0, Said DEF WifiCompare, EndWifi, Concludes, Asking, News
  <2>2. disturbed' \subseteq team
    BY <1>6 DEF WifiCompare, ThreadsTyped
  <2> QED
    BY <2>1, <2>2, TakeTyped
<1> QED
  BY <1>1, <1>2, <1>3, <1>4, <1>5, <1>6

LEMMA OwnTyped ==
    ASSUME BusInv, ThreadsTyped, SharedTyped, UNCHANGED team,
           \/ Ssid \/ SsidPrint \/ MocaEnable \/ MocaDevices \/ MocaCount \/ MocaPackets \/ MocaInfo
    PROVE  ThreadsTyped'
<1>1. disturbed' \subseteq team
  BY DEF Ssid, SsidPrint, MocaEnable, MocaDevices, MocaCount, MocaPackets, MocaInfo,
         CopyWifi, CopyMoca, Reading, ThreadsTyped
<1>2. CASE Ssid \/ SsidPrint \/ MocaInfo
  <2>1. "sysinfo" \in team
    BY <1>2 DEF Ssid, SsidPrint, MocaInfo, Is
  <2>2. PICK answer : Take("sysinfo", answer) /\ Concludes("sysinfo", answer)
    BY <1>2 DEF Ssid, SsidPrint, MocaInfo, Go, Concludes, Asking, Verdicts, Tests
  <2> QED
    BY <1>1, <2>1, <2>2, TakeTyped
<1>3. CASE MocaEnable \/ MocaDevices \/ MocaCount \/ MocaPackets
  <2>1. "moca" \in team
    BY <1>3 DEF MocaEnable, MocaDevices, MocaCount, MocaPackets, Is
  <2>2. PICK answer : Take("moca", answer) /\ Concludes("moca", answer)
    BY <1>3 DEF MocaEnable, MocaDevices, MocaCount, MocaPackets, Go, End, Concludes, Asking,
                Verdicts, News
  <2> QED
    BY <1>1, <2>1, <2>2, TakeTyped
<1> QED
  BY <1>2, <1>3

LEMMA CapsTyped ==
    ASSUME BusInv, ThreadsTyped, UNCHANGED team,
           BeginPairing \/ EndPairing \/ ConnectAgain \/ DefaultRoute
    PROVE  ThreadsTyped'
<1>1. "caps" \in team /\ ret["caps"] \in Verdicts /\ UNCHANGED <<heard, disturbed>>
  BY DEF BeginPairing, EndPairing, ConnectAgain, DefaultRoute, Is, ThreadsTyped
<1>2. {"rf4cemgr", "disconnect", "route", "oper", "disconnectAgain"} \subseteq Asking
  BY DEF Asking
<1>3. \/ /\ UNCHANGED judged
         /\ \E s \in {"rf4cemgr", "disconnect", "route", "oper", "disconnectAgain"} : Moves("caps", s)
         /\ ret' = ret \/ \E v \in Verdicts : ret' = [ret EXCEPT !["caps"] = v]
      \/ Finish("caps", ret["caps"])
  <2>1. CASE BeginPairing \/ EndPairing
    BY <1>1, <2>1, Said DEF BeginPairing, EndPairing, Moves
  <2>2. CASE ConnectAgain \/ DefaultRoute
    BY <1>1, <2>2, Said DEF ConnectAgain, DefaultRoute, Moves
  <2> QED
    BY <2>1, <2>2
<1> QED
  BY <1>1, <1>2, <1>3, MoveTyped, FinishTyped, Said

\* What is shared changes only where it is said to.
LEMMA SharedStep ==
    ASSUME SharedTyped, [SNext]_svars
    PROVE  SharedTyped'
<1> USE DEF SharedTyped, shared
<1>1. CASE UNCHANGED svars
  BY <1>1 DEF svars
<1>2. ASSUME NEW t \in team,
             BeginTest(t) \/ Supported(t) \/ Cancelled(t) \/ ConnectFirst(t) \/ GiveBack(t)
             \/ Ask(t) \/ AskRf4ce(t) \/ WifiEnable(t) \/ WifiCompare(t)
      PROVE  SharedTyped'
  BY <1>2 DEF BeginTest, Supported, Cancelled, ConnectFirst, GiveBack, Ask, AskRf4ce, WifiEnable,
              WifiCompare
<1>3. ASSUME NEW t \in team, WifiOper(t) \/ HdcpLook(t) PROVE SharedTyped'
  BY <1>3 DEF WifiOper, HdcpLook, CopyWifi
<1>4. ASSUME NEW t \in team, NotAnswered(t) PROVE SharedTyped'
  BY <1>4 DEF NotAnswered, Crash
<1>5. CASE BeginPairing \/ EndPairing
  BY <1>5 DEF BeginPairing, EndPairing
<1>6. CASE ConnectAgain \/ DefaultRoute \/ SsidPrint \/ MocaEnable \/ MocaCount
  BY <1>6 DEF ConnectAgain, DefaultRoute, SsidPrint, MocaEnable, MocaCount
<1>7. CASE Ssid \/ MocaDevices \/ MocaPackets \/ MocaInfo
  BY <1>7 DEF Ssid, MocaDevices, MocaPackets, MocaInfo, CopyWifi, CopyMoca, MocaNumbers
<1> QED
  BY <1>1, <1>2, <1>3, <1>4, <1>5, <1>6, <1>7 DEF SNext

\* The looks for HDCP and the lost connections stay within their bounds.
LEMMA BoundsStep ==
    ASSUME BoundsTyped, [SNext]_svars
    PROVE  BoundsTyped'
<1> USE DEF shared, bus
<1>0. MaxLost \in Nat /\ HdmiTries \in Nat /\ lost \in 0..MaxLost /\ tries \in 0..HdmiTries
  BY IarmAssumption DEF BoundsTyped
<1>1. /\ lost' = lost \/ lost' = 0 \/ (lost < MaxLost /\ lost' = lost + 1)
      /\ tries' = tries \/ tries' = 0 \/ (tries < HdmiTries /\ tries' = tries + 1)
      => BoundsTyped'
  BY <1>0 DEF BoundsTyped
<1>2. CASE UNCHANGED svars
  BY <1>1, <1>2, Zenon DEF svars
<1>3. ASSUME NEW t \in team, GiveBack(t) PROVE BoundsTyped'
  <2>1. lost' = lost \/ (lost < MaxLost /\ lost' = lost + 1)
    <3>1. PICK failed \in (IF IarmMayFail /\ lost < MaxLost THEN BOOLEAN ELSE {FALSE}) :
              Disconnect(failed)
      BY <1>3 DEF GiveBack
    <3>2. failed => lost < MaxLost
      BY <3>1, Zenon
    <3>3. lost' = lost \/ (failed /\ lost' = lost + 1)
      BY <3>1, Zenon DEF Disconnect
    <3> QED
      BY <3>2, <3>3, Zenon
  <2>2. tries' = tries
    BY <1>3 DEF GiveBack
  <2> QED
    BY <1>1, <2>1, <2>2, Zenon
<1>4. ASSUME NEW t \in team, BeginTest(t) \/ Supported(t) \/ Cancelled(t) \/ ConnectFirst(t)
      PROVE  BoundsTyped'
  BY <1>1, <1>4, Zenon DEF BeginTest, Supported, Cancelled, ConnectFirst, Connect
<1>5. ASSUME NEW t \in team, Ask(t) \/ AskRf4ce(t) \/ WifiEnable(t) \/ WifiOper(t) \/ WifiCompare(t)
      PROVE  BoundsTyped'
  BY <1>1, <1>5, Zenon DEF Ask, AskRf4ce, WifiEnable, WifiOper, WifiCompare, CopyWifi, Take
<1>6. ASSUME NEW t \in team, HdcpLook(t) PROVE BoundsTyped'
  BY <1>1, <1>6, Zenon DEF HdcpLook, Take
<1>7. ASSUME NEW t \in team, NotAnswered(t) PROVE BoundsTyped'
  BY <1>1, <1>7, Zenon DEF NotAnswered, Crash
<1>8. CASE BeginPairing \/ EndPairing \/ ConnectAgain \/ DefaultRoute
  BY <1>1, <1>8, Zenon DEF BeginPairing, EndPairing, ConnectAgain, DefaultRoute, Connect
<1>9. CASE \/ Ssid \/ SsidPrint \/ MocaEnable \/ MocaDevices \/ MocaCount \/ MocaPackets
           \/ MocaInfo
  BY <1>1, <1>9, Zenon DEF Ssid, SsidPrint, MocaEnable, MocaDevices, MocaCount, MocaPackets,
                           MocaInfo, CopyWifi, CopyMoca, Take
<1> QED
  BY <1>2, <1>3, <1>4, <1>5, <1>6, <1>7, <1>8, <1>9 DEF SNext

IarmTyped == ThreadsTyped /\ SharedTyped /\ BoundsTyped

LEMMA IarmTypesStep == BusInv /\ IarmTyped /\ [SNext]_svars => IarmTyped'
<1> SUFFICES ASSUME BusInv, IarmTyped, [SNext]_svars PROVE IarmTyped'
  OBVIOUS
<1>1. SharedTyped' /\ BoundsTyped'
  BY SharedStep, BoundsStep DEF IarmTyped
<1>2. CASE UNCHANGED svars
  BY <1>2 DEF svars, IarmTyped, ThreadsTyped, SharedTyped, BoundsTyped, shared, bus
<1>3. ASSUME UNCHANGED team, NEW t \in team, NotAnswered(t) PROVE ThreadsTyped'
  BY <1>3, CrashTyped DEF NotAnswered
<1>4. CASE SNext
  <2>1. UNCHANGED team
    BY <1>4 DEF SNext
  <2>2. ASSUME NEW t \in team,
               \/ BeginTest(t) \/ Supported(t) \/ Cancelled(t) \/ ConnectFirst(t) \/ GiveBack(t)
               \/ NotAnswered(t) \/ Ask(t) \/ HdcpLook(t) \/ AskRf4ce(t)
               \/ WifiEnable(t) \/ WifiOper(t) \/ WifiCompare(t)
        PROVE  ThreadsTyped'
    BY <1>3, <2>1, <2>2, TestTyped, AskTyped DEF IarmTyped
  <2>3. ASSUME \/ BeginPairing \/ EndPairing \/ ConnectAgain \/ DefaultRoute \/ Ssid \/ SsidPrint
               \/ MocaEnable \/ MocaDevices \/ MocaCount \/ MocaPackets \/ MocaInfo
        PROVE  ThreadsTyped'
    BY <2>1, <2>3, OwnTyped, CapsTyped DEF IarmTyped
  <2> QED
    BY <1>1, <1>4, <2>2, <2>3, Zenon DEF SNext, IarmTyped
<1> QED
  BY <1>1, <1>2, <1>4 DEF IarmTyped

-----------------------------------------------------------------------------
(* A test judges by what it heard: at each of its steps it is known what   *)
(* that is, unless another thread came in between.                         *)

\* A verdict that what was heard bears out.
BornOut(t, v, h) ==
    /\ v = "SUCCESS" => h \cap Bad = {} /\ \E news \in Enough(t) : news \subseteq h
    /\ v \notin NoFault => h \cap (Bad \cup {"inProgress"}) # {}

\* What the test of the remote control has heard before it asks the control manager.
Rf4ceBefore == {"noRf4cemgr", "chip"}

\* What a test has heard when it comes to a step of its own undisturbed.
Told(t, s, h) ==
    CASE t = "wan" ->
             \/ s = "gateway" /\ h = {}
             \/ s = "xre" /\ h = {"gateway"}
             \/ s = "public" /\ \E c \in {"xreUp", "xreDown", "xreUnknown"} : h = {"gateway", c}
      [] t = "flash" ->
             \/ s = "eol1" /\ h = {}
             \/ s \in {"eol2", "eol3", "eol"} /\ h \subseteq {"normal", "worn", "stateUnknown"} /\ h # {}
             \/ s = "lifeA" /\ h = {"normal"}
             \/ s = "lifeB" /\ h = {"normal", "lifeA"}
      [] t = "sdcard" ->
             \/ s = "tsb" /\ h = {}
             \/ s = "minutes" /\ h = {"tsb"}
      [] t = "hdmiout" ->
             \/ s = "port" /\ h = {}
             \/ s = "display" /\ h = {"port"}
             \/ s = "nexus" /\ "noDisplay" \in h
             \/ s = "hdcp" /\ h \in {{"port", "display"}, {"port", "display", "inProgress"}}
             \/ s = "nexusHdcp" /\ h \cap {"inProgress", "notAuthenticated"} # {}
      [] t = "wifi" ->
             \/ s = "wifiEnable" /\ h = {}
             \/ s = "oper" /\ h = {"enabled"}
             \/ s = "wifiCompare" /\ h = {"enabled", wifiIARM} /\ wifiIARM \in {"UP", "DOWN"}
      [] t = "moca" ->
             \/ s = "mocaEnable" /\ h = {}
             \/ s = "mocaDevices" /\ h = {"mocaOn"}
             \/ s = "mocaCount" /\ h = {"mocaOn", mocaInt}
             \/ s = "packets" /\ h = {"mocaOn", "few"}
      [] t = "rf4ce" ->
             \/ s = "rf4cemgr" /\ h = {}
             \/ s = "chip" /\ h = {"noRf4cemgr"}
             \/ s = "ctrlm" /\ h = Rf4ceBefore
             \/ s = "network" /\ h = Rf4ceBefore \cup {"network"}
             \/ s \in {"keyWanted", "key"}
                /\ \E r \in {"paired", "channel"} : h = Rf4ceBefore \cup {"network", r}
      [] OTHER -> FALSE

\* What holds of a test that nobody disturbed.
Undisturbed(t) ==
    \/ at[t] = "idle" /\ BornOut(t, judged[t], heard[t])
    \/ at[t] \in {"supported", "quit", "connect"} /\ heard[t] = {} /\ judged[t] = "none"
    \/ at[t] = "disconnect" /\ BornOut(t, ret[t], heard[t]) /\ judged[t] = "none"
    \/ Told(t, at[t], heard[t]) /\ judged[t] = "none"

HearInv == \A t \in (team \cap Tests) \ disturbed : Undisturbed(t)

\* The capabilities look for pairing only, and nobody else does.
OnlyInv == only <=> Is("caps", Rf4ceSteps)


LEMMA OnlyInit == SInit => OnlyInv
BY DEF SInit, OnlyInv, Is, Rf4ceSteps

LEMMA OnlyStays ==
    ASSUME BusInv, OnlyInv, NEW t \in team, NEW s, Moves(t, s), UNCHANGED only,
           t = "caps" => (at[t] \in Rf4ceSteps <=> s \in Rf4ceSteps)
    PROVE  OnlyInv'
<1>1. at'["caps"] \in Rf4ceSteps <=> at["caps"] \in Rf4ceSteps
  BY DEF Moves, BusInv
<1> QED
  BY <1>1, Zenon DEF OnlyInv, Is, Moves

LEMMA OnlyStep ==
    ASSUME BusInv, OnlyInv, [SNext]_svars
    PROVE  OnlyInv'
<1> USE DEF shared
<1>1. CASE UNCHANGED svars
  BY <1>1 DEF svars, OnlyInv, Is
<1>2. ASSUME UNCHANGED team, NEW t \in team,
             BeginTest(t) \/ Supported(t) \/ Cancelled(t) \/ ConnectFirst(t) \/ GiveBack(t)
      PROVE  OnlyInv'
  <2>1. only' = only
    BY <1>2 DEF BeginTest, Supported, Cancelled, ConnectFirst, GiveBack
  <2>2. \E s : Moves(t, s) /\ (t = "caps" => s \notin Rf4ceSteps)
    BY <1>2 DEF BeginTest, Supported, Cancelled, ConnectFirst, GiveBack, Moves, Finish, FirstStep,
                AskFirst, Rf4ceSteps
  <2>3. at[t] \notin Rf4ceSteps
    BY <1>2 DEF BeginTest, Supported, Cancelled, ConnectFirst, GiveBack, Rf4ceSteps
  <2> QED
    BY <2>1, <2>2, <2>3, OnlyStays
<1>3. ASSUME UNCHANGED team, NEW t \in team, NotAnswered(t) PROVE OnlyInv'
  BY <1>3 DEF NotAnswered, Crash, OnlyInv, Is, Rf4ceSteps
<1>4. ASSUME UNCHANGED team, NEW t \in team, Ask(t) PROVE OnlyInv'
  <2>1. t # "caps" /\ only' = only
    BY <1>4 DEF Ask, AnswersOf
  <2>2. \E s : Moves(t, s)
    BY <1>4 DEF Ask, Take, Moves
  <2> QED
    BY <2>1, <2>2, OnlyStays
<1>5. ASSUME UNCHANGED team, NEW t \in team, HdcpLook(t) PROVE OnlyInv'
  BY <1>5, OnlyStays DEF HdcpLook, Take, Go, End, Moves, Rf4ceSteps
<1>6. ASSUME UNCHANGED team, NEW t \in team, WifiEnable(t) \/ WifiOper(t) \/ WifiCompare(t) PROVE OnlyInv'
  <2>1. only' = only /\ at[t] \notin Rf4ceSteps
    BY <1>6 DEF WifiEnable, WifiOper, WifiCompare, CopyWifi, Rf4ceSteps
  <2>2. \E s : Moves(t, s) /\ s \notin Rf4ceSteps
    BY <1>6 DEF WifiEnable, WifiOper, WifiCompare, EndWifi, Take, Go, End, Moves, Rf4ceSteps
  <2> QED
    BY <2>1, <2>2, OnlyStays
<1>7. ASSUME UNCHANGED team, NEW t \in team, AskRf4ce(t) PROVE OnlyInv'
  <2>1. PICK answer \in Rf4ceAnswers(t) : Take(t, answer)
    BY <1>7 DEF AskRf4ce
  <2>2. at[t] \in Rf4ceSteps
    BY <2>1 DEF Rf4ceAnswers, Rf4ceSteps
  <2>3. t = "caps" => answer[2] \in Rf4ceSteps
    BY <2>1 DEF Rf4ceAnswers, ViaRf4ceMgr, ChipStatus, ViaCtrlMgr, LastKeyInfo, EndWith, EndRf4ce,
                Go, Rf4ceSteps
  <2>4. only' = only
    BY <1>7 DEF AskRf4ce
  <2> QED
    BY <1>7, <2>1, <2>2, <2>3, <2>4, OnlyStays DEF Take, Moves
<1>8. ASSUME UNCHANGED team, BeginPairing PROVE OnlyInv'
  <2>1. only' = TRUE /\ "caps" \in team' /\ at'["caps"] = "rf4cemgr"
    BY <1>8 DEF BeginPairing, Is, BusInv
  <2> QED
    BY <2>1 DEF OnlyInv, Is, Rf4ceSteps
<1>9. ASSUME UNCHANGED team, EndPairing PROVE OnlyInv'
  <2>1. only' = FALSE /\ at'["caps"] = "disconnect"
    BY <1>9 DEF EndPairing, Is, BusInv
  <2> QED
    BY <2>1 DEF OnlyInv, Is, Rf4ceSteps
<1>10. ASSUME UNCHANGED team, ConnectAgain \/ DefaultRoute PROVE OnlyInv'
  <2>1. only' = only /\ "caps" \in team /\ at["caps"] \notin Rf4ceSteps
    BY <1>10 DEF ConnectAgain, DefaultRoute, Is, Rf4ceSteps
  <2>2. \E s : Moves("caps", s) /\ s \notin Rf4ceSteps
    BY <1>10 DEF ConnectAgain, DefaultRoute, Finish, Moves, Rf4ceSteps
  <2> QED
    BY <2>1, <2>2, OnlyStays
<1>11. ASSUME UNCHANGED team,
              \/ Ssid \/ SsidPrint \/ MocaEnable \/ MocaDevices \/ MocaCount \/ MocaPackets
              \/ MocaInfo
       PROVE  OnlyInv'
  <2>1. only' = only
    BY <1>11 DEF Ssid, SsidPrint, MocaEnable, MocaDevices, MocaCount, MocaPackets, MocaInfo,
                 CopyWifi, CopyMoca
  <2>2. \E t \in team : \E s : Moves(t, s) /\ t # "caps"
    BY <1>11 DEF Ssid, SsidPrint, MocaEnable, MocaDevices, MocaCount, MocaPackets, MocaInfo,
                 Is, Take, Moves
  <2> QED
    BY <2>1, <2>2, OnlyStays
<1> QED
  BY <1>1, <1>2, <1>3, <1>4, <1>5, <1>6, <1>7, <1>8, <1>9, <1>10, <1>11, Zenon DEF SNext

\* An answer that is on the way to a verdict which is borne out.
OnTheWay(t, s, v, h) == (s = "disconnect" /\ BornOut(t, v, h)) \/ Told(t, s, h)

LEMMA TakeHears ==
    ASSUME ThreadsTyped, UNCHANGED team, NEW t \in team \cap Tests, NEW answer, Take(t, answer),
           Told(t, at[t], heard[t]), judged[t] = "none",
           (OnTheWay(t, answer[2], answer[3], heard[t] \cup answer[1]) /\ UNCHANGED <<wifiIARM, mocaInt>>)
           \/ Told(t, at[t], heard[t])'
    PROVE  Undisturbed(t)'
<1>1. /\ at'[t] = answer[2] /\ ret'[t] = answer[3] /\ judged'[t] = "none"
      /\ heard'[t] = heard[t] \cup answer[1]
  BY DEF ThreadsTyped, Take
<1>2. CASE Told(t, at[t], heard[t])'
  BY <1>1, <1>2 DEF Undisturbed
<1>3. CASE OnTheWay(t, answer[2], answer[3], heard[t] \cup answer[1]) /\ UNCHANGED <<wifiIARM, mocaInt>>
  <2>1. Told(t, answer[2], heard[t] \cup answer[1]) => Told(t, at[t], heard[t])'
    BY <1>1, <1>3 DEF Told
  <2> QED
    BY <1>1, <1>3, <2>1 DEF OnTheWay, Undisturbed
<1> QED
  BY <1>2, <1>3

LEMMA WanHears ==
    ASSUME NEW s, NEW h, Told("wan", s, h), NEW a \in Wan(s, h)
    PROVE  OnTheWay("wan", a[2], a[3], h \cup a[1])
<1> USE DEF Go, End, OnTheWay, BornOut, Bad, NoFault, Enough
<1>1. CASE s = "gateway" /\ h = {}
  BY <1>1 DEF Wan, Gateway, Told
<1>2. CASE s = "xre" /\ h = {"gateway"}
  BY <1>2 DEF Wan, ComcastNetwork, Told
<1>3. ASSUME NEW c \in {"xreUp", "xreDown", "xreUnknown"}, s = "public", h = {"gateway", c}
      PROVE  OnTheWay("wan", a[2], a[3], h \cup a[1])
  <2>1. (CHOOSE k \in h : k \in {"xreUp", "xreDown", "xreUnknown"}) = c
    BY <1>3
  <2>2. a \in PublicNetwork(c)
    BY <1>3, <2>1 DEF Wan
  <2>3. PICK public \in {"wanUp", "wanDown", "wanUnknown"} :
            a = End(public, IF public = "wanDown"
                            THEN IF c = "xreDown" THEN "NO_WAN" ELSE "NO_PUBLIC_WAN"
                            ELSE IF c = "xreDown" THEN "NO_COMCAST_WAN"
                            ELSE IF "xreUp" = c \/ public = "wanUp" THEN "SUCCESS"
                            ELSE "INTERNAL")
    BY <2>2 DEF PublicNetwork
  <2> QED
    BY <1>3, <2>3
<1> QED
  BY <1>1, <1>2, <1>3 DEF Told

LEMMA FlashHears ==
    ASSUME NEW s, NEW h, Told("flash", s, h), NEW a \in Flash(s, h)
    PROVE  OnTheWay("flash", a[2], a[3], h \cup a[1])
<1> USE DEF Go, End, OnTheWay, BornOut, Bad, NoFault, Enough
<1>1. CASE s = "eol1" /\ h = {}
  BY <1>1 DEF Flash, PreEOLState, Told
<1>2. CASE s \in {"eol2", "eol3"}
  BY <1>2 DEF Flash, PreEOLState, Told
<1>3. CASE s = "eol"
  BY <1>3 DEF Flash, PreEOLStates, Told
<1>4. CASE s = "lifeA" /\ h = {"normal"}
  BY <1>4 DEF Flash, StorageLife, Told
<1>5. CASE s = "lifeB" /\ h = {"normal", "lifeA"}
  <2>1. a \in {End("lifeB", "SUCCESS"), End("lifeUnknown", "INTERNAL"),
               End("lifeOver", "EMMC_MAX_LIFE_EXCEED"), End("noLife", "EMMC_ZERO_LIFETIME")}
    BY <1>5 DEF Flash, StorageLife
  <2>2. CASE a = End("lifeB", "SUCCESS")
    <3>1. h \cup a[1] = {"normal", "lifeA", "lifeB"} /\ a[2] = "disconnect" /\ a[3] = "SUCCESS"
      BY <1>5, <2>2
    <3> QED
      BY <3>1
  <2>3. CASE a # End("lifeB", "SUCCESS")
    BY <1>5, <2>1, <2>3
  <2> QED
    BY <2>2, <2>3
<1> QED
  BY <1>1, <1>2, <1>3, <1>4, <1>5 DEF Told

LEMMA SdcardHears ==
    ASSUME NEW s, NEW h, Told("sdcard", s, h), NEW a \in Sdcard(s)
    PROVE  OnTheWay("sdcard", a[2], a[3], h \cup a[1])
<1> USE DEF Go, End, OnTheWay, BornOut, Bad, NoFault, Enough
<1>1. CASE s = "tsb" /\ h = {}
  BY <1>1 DEF Sdcard, Told
<1>2. CASE s = "minutes" /\ h = {"tsb"}
  <2>1. a \in {End("minutes", "SUCCESS"), End("noMinutes", "SD_CARD_ZERO_MAXMINUTES"),
               End("noManager", "INTERNAL")}
    BY <1>2 DEF Sdcard
  <2>2. CASE a = End("minutes", "SUCCESS")
    <3>1. h \cup a[1] = {"tsb", "minutes"} /\ a[2] = "disconnect" /\ a[3] = "SUCCESS"
      BY <1>2, <2>2
    <3> QED
      BY <3>1
  <2>3. CASE a # End("minutes", "SUCCESS")
    BY <1>2, <2>1, <2>3
  <2> QED
    BY <2>2, <2>3
<1> QED
  BY <1>1, <1>2 DEF Told

LEMMA HdmioutHears ==
    ASSUME NEW s, NEW h, Told("hdmiout", s, h), NEW a \in Hdmiout(s)
    PROVE  OnTheWay("hdmiout", a[2], a[3], h \cup a[1])
BY DEF Hdmiout, HdmiPort, HdmiDisplay, Told, Go, End, OnTheWay, BornOut, Bad, NoFault, Enough

LEMMA AskHears ==
    ASSUME BusInv, IarmTyped, UNCHANGED team, NEW t \in team \cap Tests, Undisturbed(t), Ask(t)
    PROVE  Undisturbed(t)'
<1>1. PICK a \in AnswersOf(t) : Take(t, a)
  BY DEF Ask
<1>2. Told(t, at[t], heard[t]) /\ judged[t] = "none"
  <2>1. at[t] \notin Outside
    BY <1>1, AskedWithin
  <2>2. at[t] # "disconnect"
    BY <1>1 DEF AnswersOf, Wan, Flash, Sdcard, Hdmiout, Tests
  <2> QED
    BY <2>1, <2>2 DEF Undisturbed, Outside
<1>3. OnTheWay(t, a[2], a[3], heard[t] \cup a[1])
  BY <1>1, <1>2, WanHears, FlashHears, SdcardHears, HdmioutHears DEF AnswersOf, Tests
<1> QED
  BY <1>1, <1>2, <1>3, TakeHears DEF Ask, IarmTyped, shared

LEMMA HdcpHears ==
    ASSUME BusInv, IarmTyped, UNCHANGED team, NEW t \in team \cap Tests, Undisturbed(t), HdcpLook(t)
    PROVE  Undisturbed(t)'
<1>1. Told(t, at[t], heard[t]) /\ judged[t] = "none" /\ at[t] = "hdcp"
  BY DEF HdcpLook, Undisturbed
<1>2. t = "hdmiout" /\ heard[t] \in {{"port", "display"}, {"port", "display", "inProgress"}}
  <2>1. t = "hdmiout"
    BY <1>1 DEF Told, Tests, Threads
  <2> QED
    BY <1>1, <2>1 DEF Told
<1>3. PICK a : /\ Take(t, a)
               /\ \/ a \in {End("authenticated", "SUCCESS"), Go("inProgress", "hdcp"),
                            Go("notAuthenticated", "nexusHdcp"), <<{}, "disconnect", "INTERNAL">>,
                            <<{}, "disconnect", "CANCELLED">>, End("authenticated", "CANCELLED"),
                            End("notAuthenticated", "CANCELLED")}
                  \/ a = <<{}, "nexusHdcp", "none">> /\ "inProgress" \in heard[t]
  BY DEF HdcpLook
<1>4. OnTheWay(t, a[2], a[3], heard[t] \cup a[1])
  <2> USE <1>2 DEF Told, Go, End, OnTheWay, BornOut, Bad, NoFault, Enough
  <2>1. CASE a = End("authenticated", "SUCCESS")
    <3>1. /\ a[2] = "disconnect" /\ a[3] = "SUCCESS"
          /\ heard[t] \cup a[1] \in {{"port", "display", "authenticated"},
                                    {"port", "display", "inProgress", "authenticated"}}
      BY <2>1
    <3>2. {"display", "authenticated"} \subseteq heard[t] \cup a[1] /\ (heard[t] \cup a[1]) \cap Bad = {}
      BY <3>1
    <3> QED
      BY <3>1, <3>2
  <2>2. CASE a = Go("inProgress", "hdcp")
    <3>1. a[2] = "hdcp" /\ heard[t] \cup a[1] = {"port", "display", "inProgress"}
      BY <2>2
    <3> QED
      BY <3>1
  <2>3. CASE a = Go("notAuthenticated", "nexusHdcp")
    BY <2>3
  <2>4. CASE a \in {<<{}, "disconnect", "INTERNAL">>, <<{}, "disconnect", "CANCELLED">>}
    BY <2>4
  <2>5. CASE a = <<{}, "nexusHdcp", "none">> /\ "inProgress" \in heard[t]
    BY <2>5
  <2>6. CASE a \in {End("authenticated", "CANCELLED"), End("notAuthenticated", "CANCELLED")}
    <3>1. a[2] = "disconnect" /\ a[3] = "CANCELLED"
      BY <2>6
    <3> QED
      BY <3>1
  <2> QED
    BY <1>3, <2>1, <2>2, <2>3, <2>4, <2>5, <2>6
<1>5. UNCHANGED <<wifiIARM, mocaInt>>
  BY DEF HdcpLook
<1> QED
  BY <1>1, <1>3, <1>4, <1>5, TakeHears DEF IarmTyped

LEMMA Rf4ceAnswersHear ==
    ASSUME ~only, Told("rf4ce", at["rf4ce"], heard["rf4ce"]), NEW a \in Rf4ceAnswers("rf4ce")
    PROVE  OnTheWay("rf4ce", a[2], a[3], heard["rf4ce"] \cup a[1])
<1> DEFINE h == heard["rf4ce"]
           s == at["rf4ce"]
<1> USE DEF Go, EndWith, EndRf4ce, OnTheWay, BornOut, Bad, NoFault, Enough
<1>1. VerifyRf4ceStatus = {<<"paired", 1>>, <<"tooMany", 0>>, <<"channel", 1>>, <<"badChannel", 0>>}
  BY DEF VerifyRf4ceStatus
<1>2. CASE s = "rf4cemgr" /\ h = {}
  <2>1. a \in ViaRf4ceMgr("rf4ce")
    BY <1>2 DEF Rf4ceAnswers
  <2>2. \/ a = <<{"noRf4cemgr"}, "chip", "none">>
        \/ \E c \in {"paired", "channel"} : a = <<{"rf4cemgr", c}, "disconnect", "SUCCESS">>
        \/ \E c \in {"tooMany", "badChannel"} : a = <<{c}, "disconnect", "FAILURE">>
    BY <1>1, <2>1 DEF ViaRf4ceMgr
  <2> QED
    BY <1>2, <2>2 DEF Told
<1>3. CASE s = "chip" /\ h = {"noRf4cemgr"}
  BY <1>3 DEF Rf4ceAnswers, ChipStatus, Told, Rf4ceBefore
<1>4. CASE s = "ctrlm" /\ h = Rf4ceBefore
  BY <1>4 DEF Rf4ceAnswers, ViaCtrlMgr, Told, Rf4ceBefore
<1>5. CASE s = "network" /\ h = Rf4ceBefore \cup {"network"}
  <2>1. \/ a \in {<<{"noNetwork"}, "disconnect", "INTERNAL">>,
                  <<{"noCtrlm"}, "disconnect", "RF4CE_CTRLM_NO_RESPONSE">>}
        \/ \E c \in {"paired", "channel"} : a = <<{c}, "keyWanted", "none">>
        \/ \E c \in {"tooMany", "badChannel"} : a = <<{c}, "disconnect", "FAILURE">>
    BY <1>1, <1>5 DEF Rf4ceAnswers, ViaCtrlMgr
  <2> QED
    BY <1>5, <2>1 DEF Told, Rf4ceBefore
<1>6. ASSUME NEW r \in {"paired", "channel"}, h = Rf4ceBefore \cup {"network", r}, s = "keyWanted"
      PROVE  OnTheWay("rf4ce", a[2], a[3], h \cup a[1])
  <2>1. a = <<{}, "key", "none">>
    BY <1>6 DEF Rf4ceAnswers, ViaCtrlMgr
  <2> QED
    BY <1>6, <2>1 DEF Told, Rf4ceBefore
<1>7. ASSUME NEW r \in {"paired", "channel"}, h = Rf4ceBefore \cup {"network", r}, s = "key"
      PROVE  OnTheWay("rf4ce", a[2], a[3], h \cup a[1])
  <2>1. a \in LastKeyInfo("rf4ce")
    BY <1>7 DEF Rf4ceAnswers
  <2>2. CASE a = <<{"key"}, "disconnect", "SUCCESS">>
    <3>1. h \cup a[1] = {"noRf4cemgr", "chip", "network", "key", r}
      BY <1>7, <2>2 DEF Rf4ceBefore
    <3> QED
      BY <2>2, <3>1
  <2>3. CASE a # <<{"key"}, "disconnect", "SUCCESS">>
    BY <2>1, <2>3 DEF LastKeyInfo
  <2> QED
    BY <2>2, <2>3
<1> QED
  BY <1>2, <1>3, <1>4, <1>5, <1>6, <1>7 DEF Told

LEMMA Rf4ceHears ==
    ASSUME BusInv, IarmTyped, OnlyInv, UNCHANGED team, NEW t \in team \cap Tests, Undisturbed(t),
           AskRf4ce(t), t \notin disturbed'
    PROVE  Undisturbed(t)'
<1>1. PICK a \in Rf4ceAnswers(t) : Take(t, a)
  BY DEF AskRf4ce
<1>2. at[t] \in {"rf4cemgr", "chip", "ctrlm", "network", "keyWanted", "key"}
  BY <1>1 DEF Rf4ceAnswers
<1>3. Told(t, at[t], heard[t]) /\ judged[t] = "none"
  BY <1>2 DEF Undisturbed
<1>4. t = "rf4ce"
  BY <1>2, <1>3 DEF Told
<1>5. ~only
  BY <1>4, Zenon DEF AskRf4ce, OnlyInv
<1>6. OnTheWay(t, a[2], a[3], heard[t] \cup a[1])
  BY <1>1, <1>3, <1>4, <1>5, Rf4ceAnswersHear
<1>7. UNCHANGED <<wifiIARM, mocaInt>>
  BY DEF AskRf4ce, shared
<1> QED
  BY <1>1, <1>3, <1>6, <1>7, TakeHears DEF IarmTyped

LEMMA WifiHears ==
    ASSUME BusInv, IarmTyped, UNCHANGED team, NEW t \in team \cap Tests, Undisturbed(t),
           WifiEnable(t) \/ WifiOper(t) \/ WifiCompare(t)
    PROVE  Undisturbed(t)'
<1> USE DEF Go, End, OnTheWay, BornOut, Bad, NoFault, Enough
<1>1. at[t] \in {"wifiEnable", "oper", "wifiCompare"} /\ Told(t, at[t], heard[t]) /\ judged[t] = "none"
  BY DEF WifiEnable, WifiOper, WifiCompare, Undisturbed
<1>2. t = "wifi"
  BY <1>1 DEF Told
<1>3. CASE WifiEnable(t)
  <2>1. PICK a \in {Go("enabled", "oper"), End("disabled", "WIFI_NO_CONNECTION"),
                    End("noAnswer", "INTERNAL")} : Take(t, a)
    BY <1>3 DEF WifiEnable
  <2>2. heard[t] = {} /\ UNCHANGED <<wifiIARM, mocaInt>>
    BY <1>1, <1>2, <1>3 DEF WifiEnable, Told, shared
  <2>3. OnTheWay(t, a[2], a[3], heard[t] \cup a[1])
    BY <1>2, <2>1, <2>2 DEF Told
  <2> QED
    BY <1>1, <2>1, <2>2, <2>3, TakeHears DEF IarmTyped
<1>4. CASE WifiOper(t)
  <2>1. heard[t] = {"enabled"}
    BY <1>1, <1>2, <1>4 DEF WifiOper, Told
  <2>2. CASE Take(t, <<{"noAnswer"}, "disconnect", "INTERNAL">>) /\ UNCHANGED shared
    <3>1. OnTheWay(t, "disconnect", "INTERNAL", heard[t] \cup {"noAnswer"})
      OBVIOUS
    <3> QED
      BY <1>1, <2>2, <3>1, TakeHears DEF IarmTyped, shared
  <2>3. ASSUME NEW u \in {"UP", "DOWN"}, Take(t, <<{u}, "wifiCompare", ret[t]>>), CopyWifi(t, u)
        PROVE  Undisturbed(t)'
    <3>1. /\ at'[t] = "wifiCompare" /\ heard'[t] = {"enabled", u} /\ judged'[t] = "none"
          /\ wifiIARM' = u
      BY <1>1, <2>1, <2>3 DEF Take, CopyWifi, IarmTyped, ThreadsTyped
    <3>2. Told(t, at[t], heard[t])'
      BY <1>2, <3>1 DEF Told
    <3> QED
      BY <3>1, <3>2 DEF Undisturbed
  <2> QED
    BY <1>2, <1>4, <2>2, <2>3 DEF WifiOper, EndWifi
<1>5. CASE WifiCompare(t)
  <2>1. heard[t] = {"enabled", wifiIARM} /\ wifiIARM \in {"UP", "DOWN"}
        /\ UNCHANGED <<wifiIARM, mocaInt>>
    BY <1>1, <1>2, <1>5 DEF WifiCompare, Told, shared
  <2>2. Take(t, <<{}, "disconnect", IF wifiIARM = "UP" THEN "SUCCESS" ELSE "WIFI_NO_CONNECTION">>)
    BY <1>2, <1>5 DEF WifiCompare, EndWifi
  <2>3. OnTheWay(t, "disconnect", IF wifiIARM = "UP" THEN "SUCCESS" ELSE "WIFI_NO_CONNECTION",
                 heard[t] \cup {})
    BY <1>2, <2>1
  <2> QED
    BY <1>1, <2>1, <2>2, <2>3, TakeHears DEF IarmTyped
<1> QED
  BY <1>3, <1>4, <1>5

LEMMA MocaHears ==
    ASSUME BusInv, IarmTyped, UNCHANGED team, Undisturbed("moca"),
           MocaEnable \/ MocaDevices \/ MocaCount \/ MocaPackets
    PROVE  Undisturbed("moca")'
<1> USE DEF Go, End, OnTheWay, BornOut, Bad, NoFault, Enough
<1>1. /\ at["moca"] \in {"mocaEnable", "mocaDevices", "mocaCount", "packets"}
      /\ Told("moca", at["moca"], heard["moca"]) /\ judged["moca"] = "none"
      /\ "moca" \in team \cap Tests
  BY DEF MocaEnable, MocaDevices, MocaCount, MocaPackets, Is, Undisturbed, Tests, Threads
<1> DEFINE Hears(a) == OnTheWay("moca", a[2], a[3], heard["moca"] \cup a[1])
<1>2. CASE MocaEnable
  <2>1. PICK a \in {Go("mocaOn", "mocaDevices"), End("mocaOff", "MOCA_DISABLED"),
                    End("noAnswer", "INTERNAL")} : Take("moca", a)
    BY <1>2 DEF MocaEnable
  <2>2. heard["moca"] = {} /\ UNCHANGED <<wifiIARM, mocaInt>>
    BY <1>1, <1>2 DEF MocaEnable, Is, Told, shared
  <2>3. Hears(a)
    BY <2>1, <2>2 DEF Told
  <2> QED
    BY <1>1, <2>1, <2>2, <2>3, TakeHears DEF IarmTyped
<1>3. CASE MocaDevices
  <2>1. heard["moca"] = {"mocaOn"}
    BY <1>1, <1>3 DEF MocaDevices, Is, Told
  <2>2. CASE Take("moca", End("noAnswer", "INTERNAL")) /\ UNCHANGED <<shared, disturbed>>
    <3>1. Hears(End("noAnswer", "INTERNAL"))
      OBVIOUS
    <3> QED
      BY <1>1, <2>2, <3>1, TakeHears DEF IarmTyped, shared
  <2>3. ASSUME NEW n \in {"none", "few", "many"}, Take("moca", Go(n, "mocaCount")), CopyMoca("moca", n)
        PROVE  Undisturbed("moca")'
    <3>1. /\ at'["moca"] = "mocaCount" /\ heard'["moca"] = {"mocaOn", n} /\ judged'["moca"] = "none"
          /\ mocaInt' = n
      BY <1>1, <2>1, <2>3 DEF Take, CopyMoca, IarmTyped, ThreadsTyped
    <3>2. Told("moca", at["moca"], heard["moca"])'
      BY <3>1 DEF Told
    <3> QED
      BY <3>1, <3>2 DEF Undisturbed
  <2> QED
    BY <1>3, <2>2, <2>3 DEF MocaDevices
<1>4. CASE MocaCount
  <2>1. heard["moca"] = {"mocaOn", mocaInt} /\ UNCHANGED <<wifiIARM, mocaInt>>
    BY <1>1, <1>4 DEF MocaCount, Is, Told, shared
  <2>2. mocaInt \in {"none", "few", "many"}
    BY DEF IarmTyped, SharedTyped
  <2>3. CASE mocaInt = "few"
    <3>1. Take("moca", <<{}, "packets", "none">>)
      BY <1>4, <2>3 DEF MocaCount
    <3>2. Hears(<<{}, "packets", "none">>)
      BY <2>1, <2>3 DEF Told
    <3> QED
      BY <1>1, <2>1, <3>1, <3>2, TakeHears DEF IarmTyped
  <2>4. CASE mocaInt # "few"
    <3>1. Take("moca", <<{}, "disconnect", "MOCA_NO_CLIENTS">>)
      BY <1>4, <2>4 DEF MocaCount
    <3>2. Hears(<<{}, "disconnect", "MOCA_NO_CLIENTS">>)
      BY <2>1, <2>2, <2>4
    <3> QED
      BY <1>1, <2>1, <3>1, <3>2, TakeHears DEF IarmTyped
  <2> QED
    BY <2>3, <2>4
<1>5. CASE MocaPackets
  <2>1. heard["moca"] = {"mocaOn", "few"}
    BY <1>1, <1>5 DEF MocaPackets, Is, Told
  <2>2. PICK v \in {"SUCCESS", "INTERNAL"}, h \in {"packets", "noAnswer"} :
            Take("moca", End(h, v)) /\ (v = "SUCCESS" => h = "packets")
    BY <1>5 DEF MocaPackets
  <2>3. /\ at'["moca"] = "disconnect" /\ heard'["moca"] = {"mocaOn", "few", h}
        /\ judged'["moca"] = "none" /\ ret'["moca"] = v
    BY <1>1, <2>1, <2>2 DEF Take, IarmTyped, ThreadsTyped
  <2>4. BornOut("moca", v, {"mocaOn", "few", h})
    BY <2>2
  <2> QED
    BY <2>3, <2>4 DEF Undisturbed
<1> QED
  BY <1>2, <1>3, <1>4, <1>5

\* How a test begins and ends: with a verdict that needs no news, or the one it has.
LEMMA EndsBornOut ==
    /\ \A t, h : \A v \in NoFault \ {"SUCCESS"} : BornOut(t, v, h)
    /\ \A t \in Tests : Unconnected(t) \in NoFault \ {"SUCCESS"}
BY DEF BornOut, NoFault, Unconnected, Tests

LEMMA FirstQuestion ==
    ASSUME NEW t \in Tests, at'[t] = AskFirst(t), heard'[t] = {}
    PROVE  Told(t, at[t], heard[t])'
BY DEF AskFirst, Told, Tests, Threads

LEMMA TestHears ==
    ASSUME BusInv, IarmTyped, UNCHANGED team, NEW t \in team \cap Tests,
           BeginTest(t) \/ (Undisturbed(t) /\ (Supported(t) \/ Cancelled(t) \/ ConnectFirst(t)
                                               \/ GiveBack(t)))
    PROVE  Undisturbed(t)'
<1>1. CASE BeginTest(t)
  <2>1. at'[t] = FirstStep(t) /\ heard'[t] = {} /\ judged'[t] = "none"
    BY <1>1 DEF BeginTest, IarmTyped, ThreadsTyped
  <2>2. FirstStep(t) \in {"supported", "quit", "connect"}
    BY DEF FirstStep
  <2> QED
    BY <2>1, <2>2 DEF Undisturbed
<1>2. ASSUME NEW v, Finish(t, v), heard' = heard, BornOut(t, v, heard[t]) PROVE Undisturbed(t)'
  <2>1. at'[t] = "idle" /\ judged'[t] = v /\ heard'[t] = heard[t]
    BY <1>2 DEF Finish, IarmTyped, ThreadsTyped
  <2> QED
    BY <1>2, <2>1 DEF Undisturbed
<1>3. CASE Undisturbed(t) /\ (Supported(t) \/ Cancelled(t))
  <2>1. heard[t] = {} /\ judged[t] = "none" /\ heard' = heard
    BY <1>3 DEF Supported, Cancelled, Undisturbed, Told
  <2>2. \/ at' = [at EXCEPT ![t] = "connect"] /\ UNCHANGED judged
        \/ \E v \in NoFault \ {"SUCCESS"} : Finish(t, v)
    BY <1>3 DEF Supported, Cancelled, NoFault
  <2>3. ASSUME at' = [at EXCEPT ![t] = "connect"], UNCHANGED judged PROVE Undisturbed(t)'
    BY <2>1, <2>3 DEF Undisturbed, IarmTyped, ThreadsTyped
  <2> QED
    BY <1>2, <2>1, <2>2, <2>3, EndsBornOut
<1>4. CASE Undisturbed(t) /\ ConnectFirst(t)
  <2>1. heard[t] = {} /\ judged[t] = "none" /\ heard' = heard /\ t # "caps"
    BY <1>4 DEF ConnectFirst, Undisturbed, Told, Tests
  <2>2. \/ at' = [at EXCEPT ![t] = AskFirst(t)] /\ UNCHANGED judged
        \/ Finish(t, Unconnected(t))
    BY <1>4, <2>1 DEF ConnectFirst
  <2>3. ASSUME at' = [at EXCEPT ![t] = AskFirst(t)], UNCHANGED judged PROVE Undisturbed(t)'
    <3>1. at'[t] = AskFirst(t) /\ heard'[t] = {} /\ judged'[t] = "none"
      BY <2>1, <2>3 DEF IarmTyped, ThreadsTyped
    <3> QED
      BY <3>1, FirstQuestion DEF Undisturbed
  <2> QED
    BY <1>2, <2>1, <2>2, <2>3, EndsBornOut
<1>5. CASE Undisturbed(t) /\ GiveBack(t)
  <2>1. heard' = heard /\ t # "caps" /\ at[t] = "disconnect"
    <3>1. at[t] \in {"disconnect", "disconnectAgain"} /\ heard' = heard /\ t # "caps"
      BY <1>5 DEF GiveBack, Tests
    <3> QED
      BY <1>5, <3>1 DEF Undisturbed, Told
  <2>2. BornOut(t, ret[t], heard[t])
    BY <1>5, <2>1 DEF Undisturbed, Told
  <2>3. PICK failed \in BOOLEAN : \E v \in VerdictOf(t, failed) : Finish(t, v)
    BY <1>5, <2>1 DEF GiveBack
  <2>4. PICK v : Finish(t, v) /\ (v = ret[t] \/ v \in {"INTERNAL", "CANCELLED"})
    BY <2>3 DEF VerdictOf
  <2>5. {"INTERNAL", "CANCELLED"} \subseteq NoFault \ {"SUCCESS"}
    BY DEF NoFault
  <2> QED
    BY <1>2, <2>1, <2>2, <2>4, <2>5, EndsBornOut
<1> QED
  BY <1>1, <1>3, <1>4, <1>5

\* What a step of one thread leaves to the others: all of theirs, and what they have
\* copied and not yet read, unless it disturbs them.
LeavesThreads(t) ==
    \A u \in team \ {t} :
        at'[u] = at[u] /\ ret'[u] = ret[u] /\ judged'[u] = judged[u] /\ heard'[u] = heard[u]
LeavesCopies(t) ==
    /\ disturbed \ {t} \subseteq disturbed'
    /\ \A u \in team \ ({t} \cup disturbed') :
           /\ at[u] = "wifiCompare" => wifiIARM' = wifiIARM
           /\ at[u] = "mocaCount" => mocaInt' = mocaInt

LEMMA OthersHear ==
    ASSUME HearInv, UNCHANGED team, NEW t \in team, LeavesThreads(t), LeavesCopies(t),
           t \in Tests /\ t \notin disturbed' => Undisturbed(t)'
    PROVE  HearInv'
<1>1. ASSUME NEW u \in (team \cap Tests) \ disturbed', u # t PROVE Undisturbed(u)'
  <2>1. u \in team \ {t} /\ u \notin disturbed /\ Undisturbed(u)
    BY <1>1 DEF HearInv, LeavesCopies
  <2>2. at'[u] = at[u] /\ ret'[u] = ret[u] /\ judged'[u] = judged[u] /\ heard'[u] = heard[u]
    BY <2>1 DEF LeavesThreads
  <2>3. /\ at[u] = "wifiCompare" => wifiIARM' = wifiIARM
        /\ at[u] = "mocaCount" => mocaInt' = mocaInt
    BY <1>1, <2>1 DEF LeavesCopies
  <2>4. Told(u, at[u], heard[u]) => Told(u, at[u], heard[u])'
    BY <2>2, <2>3 DEF Told
  <2> QED
    BY <2>1, <2>2, <2>4 DEF Undisturbed
<1> QED
  BY <1>1 DEF HearInv

LEMMA TakeLeaves ==
    ASSUME ThreadsTyped, UNCHANGED team, NEW t \in team, NEW answer, Take(t, answer)
    PROVE  LeavesThreads(t)
BY DEF ThreadsTyped, Take, LeavesThreads

LEMMA CopiesLeft ==
    ASSUME NEW t \in team
    PROVE  /\ (disturbed' = disturbed \/ disturbed' = disturbed \cup {t} \/ disturbed' = disturbed \ {t})
              /\ UNCHANGED <<wifiIARM, mocaInt>> => LeavesCopies(t)
           /\ \A text : CopyWifi(t, text) => LeavesCopies(t)
           /\ \A n : CopyMoca(t, n) => LeavesCopies(t)
BY DEF LeavesCopies, CopyWifi, CopyMoca, Reading

LEMMA TestLeaves ==
    ASSUME BusInv, IarmTyped, UNCHANGED team, NEW t \in team,
           BeginTest(t) \/ Supported(t) \/ Cancelled(t) \/ ConnectFirst(t) \/ GiveBack(t)
    PROVE  LeavesThreads(t) /\ LeavesCopies(t)
<1> USE DEF IarmTyped, ThreadsTyped, LeavesThreads, shared
<1>1. CASE BeginTest(t)
  BY <1>1, CopiesLeft DEF BeginTest
<1>2. CASE Supported(t) \/ Cancelled(t)
  BY <1>2, CopiesLeft DEF Supported, Cancelled, Finish
<1>3. CASE ConnectFirst(t)
  BY <1>3, CopiesLeft DEF ConnectFirst, Finish
<1>4. CASE GiveBack(t)
  BY <1>4, CopiesLeft DEF GiveBack, Finish
<1> QED
  BY <1>1, <1>2, <1>3, <1>4

LEMMA AskLeaves ==
    ASSUME BusInv, IarmTyped, UNCHANGED team, NEW t \in team,
           Ask(t) \/ HdcpLook(t) \/ AskRf4ce(t) \/ WifiEnable(t) \/ WifiOper(t) \/ WifiCompare(t)
    PROVE  LeavesThreads(t) /\ LeavesCopies(t)
<1>1. \E answer : Take(t, answer)
  BY DEF Ask, HdcpLook, AskRf4ce, WifiEnable, WifiOper, WifiCompare
<1>2. \/ disturbed' \in {disturbed, disturbed \cup {t}} /\ UNCHANGED <<wifiIARM, mocaInt>>
      \/ \E text : CopyWifi(t, text)
  BY DEF Ask, HdcpLook, AskRf4ce, WifiEnable, WifiOper, WifiCompare, shared
<1> QED
  BY <1>1, <1>2, TakeLeaves, CopiesLeft DEF IarmTyped

LEMMA OwnLeaves ==
    ASSUME BusInv, IarmTyped, UNCHANGED team
    PROVE  /\ Ssid \/ SsidPrint \/ MocaInfo =>
                  "sysinfo" \in team /\ LeavesThreads("sysinfo") /\ LeavesCopies("sysinfo")
           /\ MocaEnable \/ MocaDevices \/ MocaCount \/ MocaPackets =>
                  "moca" \in team /\ LeavesThreads("moca") /\ LeavesCopies("moca")
<1>1. ASSUME Ssid \/ SsidPrint \/ MocaInfo
      PROVE  "sysinfo" \in team /\ LeavesThreads("sysinfo") /\ LeavesCopies("sysinfo")
  <2>1. "sysinfo" \in team /\ \E answer : Take("sysinfo", answer)
    BY <1>1 DEF Ssid, SsidPrint, MocaInfo, Is
  <2>2. \/ UNCHANGED <<disturbed, wifiIARM, mocaInt>>
        \/ \E text : CopyWifi("sysinfo", text)
        \/ \E n : CopyMoca("sysinfo", n)
    BY <1>1 DEF Ssid, SsidPrint, MocaInfo, shared
  <2> QED
    BY <2>1, <2>2, TakeLeaves, CopiesLeft DEF IarmTyped
<1>2. ASSUME MocaEnable \/ MocaDevices \/ MocaCount \/ MocaPackets
      PROVE  "moca" \in team /\ LeavesThreads("moca") /\ LeavesCopies("moca")
  <2>1. "moca" \in team /\ \E answer : Take("moca", answer)
    BY <1>2 DEF MocaEnable, MocaDevices, MocaCount, MocaPackets, Is
  <2>2. UNCHANGED <<disturbed, wifiIARM, mocaInt>> \/ \E n : CopyMoca("moca", n)
    BY <1>2 DEF MocaEnable, MocaDevices, MocaCount, MocaPackets, shared
  <2> QED
    BY <2>1, <2>2, TakeLeaves, CopiesLeft DEF IarmTyped
<1> QED
  BY <1>1, <1>2

LEMMA CapsLeaves ==
    ASSUME BusInv, IarmTyped, UNCHANGED team,
           BeginPairing \/ EndPairing \/ ConnectAgain \/ DefaultRoute
    PROVE  "caps" \in team /\ LeavesThreads("caps") /\ LeavesCopies("caps")
<1> USE DEF IarmTyped, ThreadsTyped, LeavesThreads, shared
<1>1. "caps" \in team
  BY DEF BeginPairing, EndPairing, ConnectAgain, DefaultRoute, Is
<1>2. CASE BeginPairing \/ EndPairing
  BY <1>1, <1>2, CopiesLeft DEF BeginPairing, EndPairing
<1>3. CASE ConnectAgain \/ DefaultRoute
  BY <1>1, <1>3, CopiesLeft DEF ConnectAgain, DefaultRoute, Finish
<1> QED
  BY <1>1, <1>2, <1>3

LEMMA HearInit == SInit => HearInv
BY DEF SInit, HearInv, Undisturbed, BornOut, NoFault

LEMMA HearStep ==
    ASSUME BusInv, IarmTyped, OnlyInv, HearInv, [SNext]_svars
    PROVE  HearInv'
<1>1. CASE UNCHANGED svars
  BY <1>1 DEF svars, shared, bus, HearInv, Undisturbed, Told
<1>2. ASSUME NEW t \in Tests, t \in team, t \notin disturbed PROVE Undisturbed(t)
  BY <1>2 DEF HearInv
<1>3. ASSUME UNCHANGED team, NEW t \in team, BeginTest(t) PROVE HearInv'
  BY <1>3, OthersHear, TestLeaves, TestHears
<1>4. ASSUME UNCHANGED team, NEW t \in team,
             Supported(t) \/ Cancelled(t) \/ ConnectFirst(t) \/ GiveBack(t)
      PROVE  HearInv'
  <2>1. disturbed' = disturbed
    BY <1>4 DEF Supported, Cancelled, ConnectFirst, GiveBack
  <2> QED
    BY <1>2, <1>4, <2>1, OthersHear, TestLeaves, TestHears
<1>5. ASSUME UNCHANGED team, NEW t \in team, NotAnswered(t) PROVE HearInv'
  BY <1>5 DEF NotAnswered, Crash, HearInv, Undisturbed, BornOut, NoFault
<1>6. ASSUME UNCHANGED team, NEW t \in team,
             Ask(t) \/ HdcpLook(t) \/ AskRf4ce(t) \/ WifiEnable(t) \/ WifiOper(t) \/ WifiCompare(t)
      PROVE  HearInv'
  <2>1. LeavesThreads(t) /\ LeavesCopies(t)
    BY <1>6, AskLeaves
  <2>2. disturbed \subseteq disturbed'
    BY <1>6 DEF Ask, HdcpLook, AskRf4ce, WifiEnable, WifiOper, WifiCompare, CopyWifi
  <2>3. ASSUME t \in Tests, t \notin disturbed' PROVE Undisturbed(t)'
    BY <1>2, <1>6, <2>2, <2>3, AskHears, HdcpHears, Rf4ceHears, WifiHears
  <2> QED
    BY <1>6, <2>1, <2>3, OthersHear
<1>7. ASSUME UNCHANGED team, BeginPairing \/ EndPairing \/ ConnectAgain \/ DefaultRoute
      PROVE  HearInv'
  BY <1>7, CapsLeaves, OthersHear DEF Tests
<1>8. ASSUME UNCHANGED team, Ssid \/ SsidPrint \/ MocaInfo PROVE HearInv'
  BY <1>8, OwnLeaves, OthersHear DEF Tests
<1>9. ASSUME UNCHANGED team, MocaEnable \/ MocaDevices \/ MocaCount \/ MocaPackets PROVE HearInv'
  <2>1. "moca" \in Tests
    BY DEF Tests, Threads
  <2>2. disturbed \subseteq disturbed'
    BY <1>9 DEF MocaEnable, MocaDevices, MocaCount, MocaPackets, CopyMoca
  <2>3. "moca" \in team /\ LeavesThreads("moca") /\ LeavesCopies("moca")
    BY <1>9, OwnLeaves
  <2>4. "moca" \notin disturbed' => Undisturbed("moca")'
    BY <1>2, <1>9, <2>1, <2>2, <2>3, MocaHears
  <2> QED
    BY <1>9, <2>3, <2>4, OthersHear
<1> QED
  BY <1>1, <1>3, <1>4, <1>5, <1>6, <1>7, <1>8, <1>9, Zenon DEF SNext

IarmInv == BusInv /\ IarmTyped /\ OnlyInv /\ HearInv

LEMMA IarmStart == SInit => IarmInv
BY BusInit, TypedInit, OnlyInit, HearInit DEF IarmInv, IarmTyped

LEMMA IarmStep == IarmInv /\ [SNext]_svars => IarmInv'
BY BusStep, IarmTypesStep, OnlyStep, HearStep DEF IarmInv

LEMMA IarmTypes == IarmInv => STypeOK
BY Zenon DEF IarmInv, BusInv, IarmTyped, ThreadsTyped, SharedTyped, BoundsTyped, STypeOK

\* What every thread knows, has heard and will conclude, at each of its steps.
THEOREM IarmSafe == SSpec => []IarmInv
BY IarmStart, IarmStep, PTL DEF SSpec

\* The variables of the users of IARM keep to their types, and the looks for HDCP and
\* the connections that are lost to their bounds.
THEOREM Iarm_Types == SSpec => []STypeOK
BY IarmSafe, IarmTypes, PTL

\* JudgedAsHeard: a test that no other thread disturbed succeeds only on good news that
\* are enough and no bad, and finds a fault only when told of one (wa_diag_rf4ce.c,
\* wa_diag_wifi.c, wa_diag_moca.c, wa_diag_wan.c, wa_diag_flash.c, wa_diag_sdcard.c,
\* wa_diag_hdmiout.c).
THEOREM Judged_As_Heard == SSpec => []JudgedAsHeard
<1>1. ASSUME HearInv, NEW t \in (team \cap Tests) \ disturbed PROVE BornOut(t, judged[t], heard[t])
  BY <1>1 DEF HearInv, Undisturbed, BornOut, NoFault
<1>2. IarmInv => JudgedAsHeard
  BY <1>1 DEF IarmInv, BornOut, JudgedAsHeard
<1> QED
  BY <1>2, IarmSafe, PTL
-----------------------------------------------------------------------------
(* All parts.                                                              *)

PartsInv == FilterInv /\ TrInv /\ TunerInv /\ IarmInv /\ IdInv

\* A step is one of a single part: the others keep what they have.
LEMMA PartsStep == PartsInv /\ [PartsNext]_pvars => PartsInv'
<1> SUFFICES ASSUME PartsInv, [PartsNext]_pvars PROVE PartsInv'
  OBVIOUS
<1>1. [FNext]_fvars /\ [TrNext]_tvars /\ [UNext]_uvars /\ [SNext]_svars /\ [Next]_vars
  BY DEF PartsNext, pvars
<1> QED
  BY <1>1, FilterStep, TrTypeStep, TunerStep, IarmStep, StepKeeps DEF PartsInv

\* PartsTypeOK: the variables of the filter of results, of the web client, of the tuner
\* diagnostic, of the users of IARM and of the id box keep to their types, whichever of
\* them is at work, and the list of the ids to the pool of its elements.
THEOREM Parts_Types == PartsSpec => []PartsTypeOK
<1>1. PartsInit => PartsInv
  BY FilterStart, TrInit_TrInv, TunerInit, IarmStart, IdInit DEF PartsInit, PartsInv
<1>2. TunerInv => UTypeOK
  BY DEF TunerInv
<1>3. TrInv => TrTypeOK
  BY DEF TrInv
<1>4. IdInv => TypeOK
  BY DEF IdInv
<1>5. PartsInv => PartsTypeOK
  BY <1>2, <1>3, <1>4, FilterTypes, IarmTypes DEF PartsInv, PartsTypeOK
<1> QED
  BY <1>1, <1>5, PartsStep, PTL DEF PartsSpec
==============================================================================
