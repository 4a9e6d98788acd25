-------------------------------- MODULE WaIarm -------------------------------
(***************************************************************************)
(* Diagnostics that ask services over IARM, each in a thread of its own:   *)
(* the connection they share and count (agent/core/utils/rdk/wa_iarm.cpp), *)
(* what they ask, one call after the other, and what they conclude.  They  *)
(* share some variables without a mutex: checkOnlyPairing, which the       *)
(* capabilities set while the remote control is tested, and the buffers in *)
(* which the answers about WiFi and MoCA are kept.  Services answer        *)
(* anything.  This is the build for clients (MEDIA_CLIENT), with eMMC and  *)
(* both managers of remote controls.                                       *)
(***************************************************************************)
EXTENDS Integers, FiniteSets

CONSTANTS
    Teams,      \* sets of diagnostics that run at the same time
    HdmiTries,  \* HDMIAUTH_TRIES, 5 in the source
    MaxLost,    \* bound: connections never given back
    IarmMayFail \* the bus may fail to connect or to disconnect

Threads == {"rf4ce", "caps", "wifi", "sysinfo", "moca", "wan", "flash", "sdcard", "hdmiout"}

ASSUME IarmAssumption ==
    /\ \A team \in Teams : team \subseteq Threads
    /\ HdmiTries \in Nat /\ MaxLost \in Nat
    /\ IarmMayFail \in BOOLEAN

VARIABLES
    team,
    connected, count,   \* conn.state, conn.count
    lost,       \* history: connections never given back
    only,       \* checkOnlyPairing
    wifiIARM,   \* the last text about WiFi that was copied
    mocaInt,    \* mocaParamInt: "none", "few" or "many"
    tries,      \* disabled_check of wa_vport.cpp
    at,         \* the step of each thread
    ret,        \* what it has concluded, "none" so far
    judged,     \* what its last test returned
    heard,      \* history: what the services said in its last test
    disturbed   \* history: who saw a shared variable as another left it

shared == <<only, wifiIARM, mocaInt, tries>>
bus == <<connected, count, lost>>
svars == <<team, bus, shared, at, ret, judged, heard, disturbed>>

\* The tests: the others list or inform.
Tests == Threads \ {"caps", "sysinfo"}

Outside == {"idle", "supported", "quit", "connect", "connectAgain", "givenBack"}

SInit ==
    /\ team \in Teams
    /\ connected = FALSE /\ count = 0 /\ lost = 0
    /\ only = FALSE /\ wifiIARM = "unset" /\ mocaInt = "none" /\ tries = 0
    /\ at = [t \in team |-> "idle"] /\ ret = [t \in team |-> "none"]
    /\ judged = [t \in team |-> "none"] /\ heard = [t \in team |-> {}]
    /\ disturbed = {}

Is(t, steps) == t \in team /\ at[t] \in steps

-----------------------------------------------------------------------------
(* The shared connection.                                                  *)

\* WA_UTILS_IARM_Connect, when it succeeds.
Connect ==
    /\ connected' = TRUE
    /\ count' = IF connected THEN count + 1 ELSE 1
    /\ UNCHANGED lost

\* Mutant: the first to disconnect takes the connection from the others.
DisconnectAtOnce(failed) ==
    /\ connected' = FALSE /\ count' = 0 /\ failed = FALSE
    /\ UNCHANGED lost

\* WA_UTILS_IARM_Disconnect: when the bus fails the count stays at one.
Disconnect(failed) ==
    IF count > 1 THEN count' = count - 1 /\ ~failed /\ UNCHANGED <<connected, lost>>
    ELSE IF failed THEN count' = 1 /\ lost' = lost + 1 /\ UNCHANGED connected
    ELSE count' = 0 /\ connected' = FALSE /\ UNCHANGED lost

-----------------------------------------------------------------------------
(* A test: what it starts with, and how it ends.                           *)

FirstStep(t) ==
    CASE t \in {"rf4ce", "wifi", "moca"} -> "supported"
      [] t \in {"wan", "sdcard"} -> "quit"
      [] OTHER -> "connect"

AskFirst(t) ==
    CASE t = "rf4ce" -> "rf4cemgr"
      [] t = "caps" -> "pairing"
      [] t = "wifi" -> "wifiEnable"
      [] t = "sysinfo" -> "upnp"
      [] t = "moca" -> "mocaEnable"
      [] t = "wan" -> "gateway"
      [] t = "flash" -> "eol1"
      [] t = "sdcard" -> "tsb"
      [] t = "hdmiout" -> "port"

\* What a test that cannot connect returns; -1 is "notApplicable".
Unconnected(t) ==
    CASE t \in {"wifi", "moca"} -> "NOT_APPLICABLE"
      [] t = "sysinfo" -> "noData"
      [] OTHER -> "INTERNAL"

BeginTest(t) ==
    /\ at[t] = "idle"
    /\ at' = [at EXCEPT ![t] = FirstStep(t)]
    /\ ret' = [ret EXCEPT ![t] = "none"] /\ judged' = [judged EXCEPT ![t] = "none"]
    /\ heard' = [heard EXCEPT ![t] = {}]
    /\ disturbed' = disturbed \ {t}
    /\ UNCHANGED <<bus, shared>>

Finish(t, v) ==
    /\ at' = [at EXCEPT ![t] = "idle"]
    /\ judged' = [judged EXCEPT ![t] = v] /\ ret' = [ret EXCEPT ![t] = "none"]

\* WA_UTILS_FILEOPS_OptionSupported: whether the device has what is tested.
Supported(t) ==
    /\ at[t] = "supported"
    /\ \/ at' = [at EXCEPT ![t] = "connect"] /\ UNCHANGED <<ret, judged>>
       \/ \E v \in {"NOT_APPLICABLE", "CANCELLED", "INTERNAL"} : Finish(t, v)
    /\ UNCHANGED <<bus, shared, heard, disturbed>>

\* WA_OSA_TaskCheckQuit at the start.
Cancelled(t) ==
    /\ at[t] = "quit"
    /\ \/ at' = [at EXCEPT ![t] = "connect"] /\ UNCHANGED <<ret, judged>>
       \/ Finish(t, "CANCELLED")
    /\ UNCHANGED <<bus, shared, heard, disturbed>>

ConnectFirst(t) ==
    /\ at[t] = "connect"
    /\ \/ Connect /\ at' = [at EXCEPT ![t] = AskFirst(t)] /\ UNCHANGED <<ret, judged>>
       \/ /\ IarmMayFail /\ ~connected /\ UNCHANGED bus
          /\ IF t = "caps"
             THEN /\ at' = [at EXCEPT ![t] = "connectAgain"]
                  /\ ret' = [ret EXCEPT ![t] = "ir"] /\ UNCHANGED judged
             ELSE Finish(t, Unconnected(t))
    /\ UNCHANGED <<shared, heard, disturbed>>

\* Only the HDMI test minds a bus that fails, and two tests look again whether
\* they were cancelled.
VerdictOf(t, failed) ==
    {IF t = "hdmiout" /\ failed THEN "INTERNAL" ELSE ret[t]}
    \cup (IF t = "sdcard" \/ (t = "moca" /\ ret[t] # "SUCCESS") THEN {"CANCELLED"} ELSE {})

\* The capabilities connect twice.
GiveBack(t) ==
    /\ at[t] \in {"disconnect", "disconnectAgain"}
    /\ \E failed \in (IF IarmMayFail /\ lost < MaxLost THEN BOOLEAN ELSE {FALSE}) :
          /\ Disconnect(failed)
          /\ IF t = "caps" /\ at[t] = "disconnect"
             THEN at' = [at EXCEPT ![t] = "connectAgain"] /\ UNCHANGED <<ret, judged>>
             ELSE \E v \in VerdictOf(t, failed) : Finish(t, v)
    /\ UNCHANGED <<shared, heard, disturbed>>

\* Undefined behaviour: the answer of a service that did not answer is read from
\* where an uninitialised pointer shows; the agent may die and start again.
Crash ==
    /\ connected' = FALSE /\ count' = 0 /\ lost' = 0
    /\ only' = FALSE /\ wifiIARM' = "unset" /\ mocaInt' = "none" /\ tries' = 0
    /\ at' = [t \in team |-> "idle"] /\ ret' = [t \in team |-> "none"]
    /\ judged' = [t \in team |-> "none"] /\ heard' = [t \in team |-> {}]
    /\ disturbed' = {}

NotAnswered(t) ==
    /\ at[t] \in {"wifiEnable", "mocaEnable", "mocaInfo", "signal"}
    /\ Crash

-----------------------------------------------------------------------------
(* What is asked without regard to others: each question with its answers, *)
(* <<what is heard, the next step, what is concluded>>.                    *)

Go(h, step) == <<{h}, step, "none">>
End(h, v) == <<{h}, "disconnect", v>>

\* gatewayConnection
Gateway == {Go("gateway", "xre"), End("noRoute", "INTERNAL")}
           \cup {End("noGateway", v) : v \in {"NO_GATEWAY", "NO_ETH_GATEWAY_FOUND",
                     "NO_MW_GATEWAY_FOUND", "NO_ETH_GATEWAY", "NO_MW_GATEWAY"}}

\* comcastNetwork: 1, 0 or -1
ComcastNetwork == {Go("xreUp", "public"), Go("xreDown", "public"), Go("xreUnknown", "public")}

\* publicNetwork, and what WA_DIAG_WAN_status makes of both.
PublicNetwork(comcast) ==
    {End(public,
         IF public = "wanDown"
         THEN IF comcast = "xreDown" THEN "NO_WAN" ELSE "NO_PUBLIC_WAN"
         ELSE IF comcast = "xreDown" THEN "NO_COMCAST_WAN"
         ELSE IF "xreUp" = comcast \/ public = "wanUp" THEN "SUCCESS"
         ELSE "INTERNAL") : public \in {"wanUp", "wanDown", "wanUnknown"}}

Wan(step, h) ==
    CASE step = "gateway" -> Gateway
      [] step = "xre" -> ComcastNetwork
      [] step = "public" -> PublicNetwork(CHOOSE c \in h : c \in {"xreUp", "xreDown", "xreUnknown"})
      [] OTHER -> {}

\* checkEMMCPreEOLState for one state after the other.
PreEOLState(next) == {Go(h, next) : h \in {"normal", "worn", "stateUnknown"}}

\* WA_DIAG_FLASH_status goes on only when all states are normal.
PreEOLStates(h) ==
    {<<{}, "disconnect", "CANCELLED">>,
     IF "worn" \in h THEN <<{}, "disconnect", "EMMC_PREEOL_STATE">>
     ELSE IF "stateUnknown" \in h THEN <<{}, "disconnect", "INTERNAL">>
     ELSE <<{}, "lifeA", "none">>}

\* checkEMMCStorageLife
StorageLife(good, next) ==
    {good, End("lifeUnknown", "INTERNAL"), End("lifeOver", "EMMC_MAX_LIFE_EXCEED"),
     End("noLife", "EMMC_ZERO_LIFETIME")}

Flash(step, h) ==
    CASE step = "eol1" -> PreEOLState("eol2")
      [] step = "eol2" -> PreEOLState("eol3")
      [] step = "eol3" -> PreEOLState("eol")
      [] step = "eol" -> PreEOLStates(h)
      [] step = "lifeA" -> StorageLife(Go("lifeA", "lifeB"), "lifeB")
      [] step = "lifeB" -> StorageLife(End("lifeB", "SUCCESS"), "disconnect")
      [] OTHER -> {}

\* checkTSBStatus and checkTSBMaxMinutes
Sdcard(step) ==
    CASE step = "tsb" -> {Go("tsb", "minutes"), End("tsbUnknown", "SD_CARD_TSB_STATUS"),
                          End("noManager", "INTERNAL")}
      [] step = "minutes" -> {End("minutes", "SUCCESS"), End("noMinutes", "SD_CARD_ZERO_MAXMINUTES"),
                              End("noManager", "INTERNAL")}
      [] OTHER -> {}

\* WA_UTILS_VPORT_GetHdmiPortId and IsDisplayConnected
HdmiPort ==
    {Go("port", "display"), End("noPort", "INTERNAL"), End("noPort", "CANCELLED")}
HdmiDisplay == {Go("display", "hdcp"), Go("noDisplay", "nexus")}

\* WA_DIAG_HDMIOUT_status around WA_UTILS_VPORT_IsHdcpEnabled.  What nexus says
\* of a port that is off or not authenticated is overwritten in every case.
Hdmiout(step) ==
    CASE step = "port" -> HdmiPort
      [] step = "display" -> HdmiDisplay
      [] step = "nexus" -> {End("nexus", "HDMI_NO_DISPLAY")}
      [] step = "nexusHdcp" -> {End("nexus", "HDMI_NO_HDCP")}
      [] OTHER -> {}

\* getUpnpResults: what does not answer is printed as not available.
UpnpResults == {Go("upnp", "host"), Go("noUpnp", "host")}

\* getReceiverId and xconfVerGet through getSysInfoParam_IARM.
HostParams == {Go("host", "memory"), Go("noHost", "memory")}

\* temperatureGet: thresholds that nobody knows are 0.
Temperature(data, high, critical) ==
    IF high = 0 \/ critical = 0 THEN "error"
    ELSE IF data >= critical THEN "critical"
    ELSE IF data >= high THEN "high" ELSE "normal"

\* sysinfo_Get, in the order it asks: the host, and memory, without which it has
\* no data ...
SysinfoHost(step) ==
    CASE step = "upnp" -> UpnpResults
      [] step = "host" -> HostParams
      [] step = "memory" -> {<<{}, "mocaInfo", "none">>, <<{}, "disconnect", "noData">>}
      [] OTHER -> {}

\* ... then MoCA and WiFi, see below, and the temperature.
Sysinfo(step) ==
    CASE step = "freq" -> {Go("freq", "signal")}
      [] step = "signal" -> {Go("signal", "temperature")}
      [] step = "temperature" ->
             {End("noHost", "error")}
             \cup {End("host", Temperature(data, t[1], t[2])) :
                     data \in {90, 100, 110}, t \in {<<0, 0>>, <<100, 110>>}}
      [] OTHER -> {}

AnswersOf(t) ==
    CASE t = "wan" -> Wan(at[t], heard[t])
      [] t = "flash" -> Flash(at[t], heard[t])
      [] t = "sdcard" -> Sdcard(at[t])
      [] t = "hdmiout" -> Hdmiout(at[t])
      [] t = "sysinfo" -> SysinfoHost(at[t]) \cup Sysinfo(at[t])
      [] OTHER -> {}

Take(t, answer) ==
    /\ heard' = IF t \in Tests THEN [heard EXCEPT ![t] = @ \cup answer[1]] ELSE heard
    /\ at' = [at EXCEPT ![t] = answer[2]]
    /\ ret' = [ret EXCEPT ![t] = answer[3]]
    /\ UNCHANGED <<judged, bus>>

Ask(t) ==
    /\ \E answer \in AnswersOf(t) : Take(t, answer)
    /\ UNCHANGED <<shared, disturbed>>

\* One look of WA_UTILS_VPORT_IsHdcpEnabled: looks that fail are counted over all
\* tests, and the port is asked no more once they are used up.
HdcpLook(t) ==
    /\ at[t] = "hdcp"
    /\ \/ /\ tries < HdmiTries
          /\ \/ Take(t, End("authenticated", "SUCCESS")) /\ UNCHANGED tries
             \/ tries' = tries + 1 /\ Take(t, Go("inProgress", "hdcp"))
             \/ tries' = tries + 1 /\ Take(t, Go("notAuthenticated", "nexusHdcp"))
       \/ /\ tries = HdmiTries /\ UNCHANGED tries
          /\ Take(t, IF "inProgress" \in heard[t] THEN <<{}, "nexusHdcp", "none">>
                     ELSE <<{}, "disconnect", "INTERNAL">>)
       \/ \* ... cancelled before a look, or behind one whatever it said.
          /\ \/ Take(t, <<{}, "disconnect", "CANCELLED">>) /\ UNCHANGED tries
             \/ /\ tries < HdmiTries /\ UNCHANGED tries
                /\ Take(t, End("authenticated", "CANCELLED"))
             \/ /\ tries < HdmiTries /\ tries' = tries + 1
                /\ Take(t, End("notAuthenticated", "CANCELLED"))
    /\ UNCHANGED <<only, wifiIARM, mocaInt, disturbed>>

-----------------------------------------------------------------------------
(* The remote control, for its test and for the capabilities: the verdict  *)
(* depends on checkOnlyPairing where it is read.                           *)

\* verifyRf4ceStatus: 1 good, 0 bad, and -1 for no remote control, which is not
\* looked into further for the capabilities.
VerifyRf4ceStatus ==
    {<<"paired", 1>>, <<"tooMany", 0>>}
    \cup (IF only THEN {<<"unpaired", -1>>} ELSE {<<"channel", 1>>, <<"badChannel", 0>>})

EndRf4ce(t) == IF t = "caps" THEN "unpairing" ELSE "disconnect"
EndWith(t, h, v) == <<{h}, EndRf4ce(t), v>>

\* checkRf4ceStatusViaRf4ceMgr; the other manager is tried after -1.
ViaRf4ceMgr(t) ==
    {Go("noRf4cemgr", "chip")}
    \cup {CASE r[2] = 1 -> <<{"rf4cemgr", r[1]}, EndRf4ce(t), "SUCCESS">>
            [] r[2] = 0 -> EndWith(t, r[1], "FAILURE")
            [] OTHER -> Go(r[1], "chip") : r \in VerifyRf4ceStatus}

\* checkRf4ceChipStatus
ChipStatus(t) ==
    {Go("chip", "ctrlm"), EndWith(t, "chipOff", "RF4CE_CHIP_DISCONNECTED"),
     EndWith(t, "noCtrlm", "RF4CE_CTRLM_NO_RESPONSE")}

\* checkRf4ceStatusViaCtrlMgr: it needs the network, then its status, then the
\* last key, if that is wanted when the status has come.
ViaCtrlMgr(t) ==
    CASE at[t] = "ctrlm" ->
             {Go("network", "network"), EndWith(t, "noNetwork", "INTERNAL"),
              EndWith(t, "noCtrlm", "RF4CE_CTRLM_NO_RESPONSE")}
      [] at[t] = "network" ->
             {EndWith(t, "noNetwork", "INTERNAL"), EndWith(t, "noCtrlm", "RF4CE_CTRLM_NO_RESPONSE")}
             \cup {CASE r[2] = 1 -> Go(r[1], "keyWanted")
                     [] r[2] = 0 -> EndWith(t, r[1], "FAILURE")
                     [] OTHER -> EndWith(t, r[1], "INTERNAL") : r \in VerifyRf4ceStatus}
      [] at[t] = "keyWanted" ->
             {IF only THEN <<{}, EndRf4ce(t), "SUCCESS">> ELSE <<{}, "key", "none">>}

\* checkRCULastKeyInfo
LastKeyInfo(t) ==
    {EndWith(t, "key", "SUCCESS"), EndWith(t, "oldKey", "RF4CE_NO_RESPONSE"),
     EndWith(t, "otherKey", "NON_RF4CE_INPUT"), EndWith(t, "noCtrlm", "RF4CE_CTRLM_NO_RESPONSE"),
     EndWith(t, "noKey", "INTERNAL")}

Rf4ceAnswers(t) ==
    CASE at[t] = "rf4cemgr" -> ViaRf4ceMgr(t)
      [] at[t] = "chip" -> ChipStatus(t)
      [] at[t] \in {"ctrlm", "network", "keyWanted"} -> ViaCtrlMgr(t)
      [] at[t] = "key" -> LastKeyInfo(t)
      [] OTHER -> {}

\* A test is disturbed when the capabilities are between the two assignments of
\* isRF4CEPaired while it may read what they assign.
Rf4ceSteps == {"rf4cemgr", "chip", "ctrlm", "network", "keyWanted", "key", "unpairing"}

AskRf4ce(t) ==
    /\ \E answer \in Rf4ceAnswers(t) : Take(t, answer)
    /\ disturbed' = IF t = "rf4ce" /\ Is("caps", Rf4ceSteps) THEN disturbed \cup {t}
                    ELSE disturbed
    /\ UNCHANGED shared

\* isRF4CEPaired
BeginPairing ==
    /\ Is("caps", {"pairing"}) /\ only' = TRUE
    /\ at' = [at EXCEPT !["caps"] = "rf4cemgr"]
    /\ UNCHANGED <<bus, wifiIARM, mocaInt, tries, ret, judged, heard, disturbed>>

\* Mutant: the flag is reset only behind a remote control that is good.
EndPairingIfGood ==
    /\ Is("caps", {"unpairing"}) /\ only' = (ret["caps"] # "SUCCESS")
    /\ at' = [at EXCEPT !["caps"] = "disconnect"]
    /\ ret' = [ret EXCEPT !["caps"] = IF @ = "INTERNAL" THEN "ir" ELSE "rf4ce"]
    /\ UNCHANGED <<bus, wifiIARM, mocaInt, tries, judged, heard, disturbed>>

\* Only -1 takes the test of remote controls off the list.
EndPairing ==
    /\ Is("caps", {"unpairing"}) /\ only' = FALSE
    /\ at' = [at EXCEPT !["caps"] = "disconnect"]
    /\ ret' = [ret EXCEPT !["caps"] = IF @ = "INTERNAL" THEN "ir" ELSE "rf4ce"]
    /\ UNCHANGED <<bus, wifiIARM, mocaInt, tries, judged, heard, disturbed>>

-----------------------------------------------------------------------------
(* WiFi, for its test, the capabilities and the system information: what   *)
(* is asked is copied to one buffer, and read from there afterwards.       *)

\* Who has copied and not yet read what he asked for.
Reading == {t \in team : at[t] \in {"wifiCompare", "ssidPrint", "mocaCount"}}

\* getWifiParam_IARM of a text
CopyWifi(t, text) ==
    /\ wifiIARM' = text
    /\ disturbed' = disturbed \cup {u \in Reading \ {t} : at[u] # "mocaCount"}
    /\ UNCHANGED <<only, mocaInt, tries>>

\* getWifiHwStatus_IARM
WifiEnable(t) ==
    /\ at[t] = "wifiEnable"
    /\ \E answer \in {Go("enabled", "oper"), End("disabled", "WIFI_NO_CONNECTION"),
                       End("noAnswer", "INTERNAL")} : Take(t, answer)
    /\ UNCHANGED <<shared, disturbed>>

WithWifi(list) == IF list = "rf4ce" THEN "rf4ceWifi" ELSE "irWifi"

EndWifi(t) == IF t = "caps" THEN "disconnectAgain" ELSE "disconnect"

\* getWifiOperStatus_IARM
WifiOper(t) ==
    /\ at[t] = "oper"
    /\ \/ /\ Take(t, <<{"noAnswer"}, EndWifi(t), IF t = "caps" THEN ret[t] ELSE "INTERNAL">>)
          /\ UNCHANGED <<shared, disturbed>>
       \/ \E s \in {"UP", "DOWN"} :
             /\ Take(t, <<{s}, "wifiCompare", ret[t]>>)
             /\ CopyWifi(t, s)

WifiCompare(t) ==
    /\ at[t] = "wifiCompare"
    /\ Take(t, <<{}, EndWifi(t),
                 IF t = "caps" THEN (IF wifiIARM = "UP" THEN WithWifi(ret[t]) ELSE ret[t])
                 ELSE IF wifiIARM = "UP" THEN "SUCCESS" ELSE "WIFI_NO_CONNECTION">>)
    /\ UNCHANGED <<shared, disturbed>>

\* isWiFiConfigured
ConnectAgain ==
    /\ Is("caps", {"connectAgain"})
    /\ \/ Connect /\ at' = [at EXCEPT !["caps"] = "route"] /\ UNCHANGED <<ret, judged>>
       \/ IarmMayFail /\ ~connected /\ UNCHANGED bus /\ Finish("caps", ret["caps"])
    /\ UNCHANGED <<shared, heard, disturbed>>

\* Without the default route it returns connected.
DefaultRoute ==
    /\ Is("caps", {"route"})
    /\ \/ at' = [at EXCEPT !["caps"] = "oper"] /\ UNCHANGED <<bus, ret, judged>>
       \/ /\ at' = [at EXCEPT !["caps"] = "disconnectAgain"]
          /\ ret' = [ret EXCEPT !["caps"] = WithWifi(@)] /\ UNCHANGED <<bus, judged>>
       \/ /\ lost < MaxLost /\ lost' = lost + 1
          /\ Finish("caps", ret["caps"]) /\ UNCHANGED <<connected, count>>
    /\ UNCHANGED <<shared, heard, disturbed>>

\* getWifiNetworkInfo: the name of the network is printed from the buffer.
Ssid ==
    /\ Is("sysinfo", {"ssid", "mac"})
    /\ \/ /\ Take("sysinfo", Go("noAnswer", IF at["sysinfo"] = "ssid" THEN "mac" ELSE "freq"))
          /\ UNCHANGED <<shared, disturbed>>
       \/ /\ Take("sysinfo", Go("text", IF at["sysinfo"] = "ssid" THEN "ssidPrint" ELSE "freq"))
          /\ CopyWifi("sysinfo", "text")

SsidPrint ==
    /\ Is("sysinfo", {"ssidPrint"})
    /\ Take("sysinfo", Go("ssid", "mac"))
    /\ UNCHANGED <<shared, disturbed>>

-----------------------------------------------------------------------------
(* MoCA, for its test and the system information, which share a number.    *)

CopyMoca(t, n) ==
    /\ mocaInt' = n
    /\ disturbed' = disturbed \cup {u \in Reading \ {t} : at[u] = "mocaCount"}
    /\ UNCHANGED <<only, wifiIARM, tries>>

\* getMocaIfEnableStatus_IARM
MocaEnable ==
    /\ Is("moca", {"mocaEnable"})
    /\ \E answer \in {Go("mocaOn", "mocaDevices"), End("mocaOff", "MOCA_DISABLED"),
                       End("noAnswer", "INTERNAL")} : Take("moca", answer)
    /\ UNCHANGED <<shared, disturbed>>

\* getMocaIfAssociatedDevice_IARM: too many devices are junk, and count as none.
MocaDevices ==
    /\ Is("moca", {"mocaDevices"})
    /\ \/ Take("moca", End("noAnswer", "INTERNAL")) /\ UNCHANGED <<shared, disturbed>>
       \/ \E n \in {"none", "few", "many"} :
             Take("moca", Go(n, "mocaCount")) /\ CopyMoca("moca", n)

MocaCount ==
    /\ Is("moca", {"mocaCount"})
    /\ Take("moca", IF mocaInt = "few" THEN <<{}, "packets", "none">>
                    ELSE <<{}, "disconnect", "MOCA_NO_CLIENTS">>)
    /\ UNCHANGED <<shared, disturbed>>

\* getMocaIfRxPacketsCount_IARM: one device that answers is enough.
MocaPackets ==
    /\ Is("moca", {"packets"})
    /\ \/ Take("moca", End("packets", "SUCCESS")) /\ CopyMoca("moca", "many")
       \/ Take("moca", End("noAnswer", "INTERNAL")) /\ UNCHANGED <<shared, disturbed>>

\* getMocaNetworkInfo: frequency, controller, rates and quality of the network
\* come through the same number, or do not come.
MocaNumbers == {"none", "few", "many"}

MocaInfo ==
    /\ Is("sysinfo", {"mocaInfo"})
    /\ \E next \in {"mocaInfo", "ssid"} : Take("sysinfo", <<{}, next, "none">>)
    /\ \/ \E n \in MocaNumbers : CopyMoca("sysinfo", n)
       \/ UNCHANGED <<shared, disturbed>>

-----------------------------------------------------------------------------

SNext ==
    /\ UNCHANGED team
    /\ \/ \E t \in team :
             \/ BeginTest(t) \/ Supported(t) \/ Cancelled(t) \/ ConnectFirst(t) \/ GiveBack(t)
             \/ NotAnswered(t) \/ Ask(t) \/ HdcpLook(t) \/ AskRf4ce(t)
             \/ WifiEnable(t) \/ WifiOper(t) \/ WifiCompare(t)
       \/ BeginPairing \/ EndPairing \/ ConnectAgain \/ DefaultRoute
       \/ Ssid \/ SsidPrint
       \/ MocaEnable \/ MocaDevices \/ MocaCount \/ MocaPackets \/ MocaInfo

SSpec == SInit /\ [][SNext]_svars

-----------------------------------------------------------------------------

\* The steps of a thread that asks, what it may conclude, and what it may hear.
Asking ==
    {"pairing", "rf4cemgr", "chip", "ctrlm", "network", "keyWanted", "key", "unpairing",
     "wifiEnable", "route", "oper", "wifiCompare", "upnp", "host", "memory", "mocaInfo", "ssid",
     "ssidPrint", "mac", "freq", "signal", "temperature", "mocaEnable", "mocaDevices",
     "mocaCount", "packets", "gateway", "xre", "public", "eol1", "eol2", "eol3", "eol",
     "lifeA", "lifeB", "tsb", "minutes", "port", "display", "hdcp", "nexus", "nexusHdcp",
     "disconnect", "disconnectAgain"}

Verdicts ==
    {"none", "SUCCESS", "FAILURE", "INTERNAL", "CANCELLED", "NOT_APPLICABLE", "noData", "ir",
     "rf4ce", "irWifi", "rf4ceWifi", "NO_GATEWAY", "NO_ETH_GATEWAY_FOUND",
     "NO_MW_GATEWAY_FOUND", "NO_ETH_GATEWAY", "NO_MW_GATEWAY", "NO_WAN", "NO_PUBLIC_WAN",
     "NO_COMCAST_WAN", "EMMC_PREEOL_STATE", "EMMC_MAX_LIFE_EXCEED", "EMMC_ZERO_LIFETIME",
     "SD_CARD_TSB_STATUS", "SD_CARD_ZERO_MAXMINUTES", "HDMI_NO_DISPLAY", "HDMI_NO_HDCP",
     "RF4CE_CHIP_DISCONNECTED", "RF4CE_CTRLM_NO_RESPONSE", "RF4CE_NO_RESPONSE",
     "NON_RF4CE_INPUT", "WIFI_NO_CONNECTION", "MOCA_DISABLED", "MOCA_NO_CLIENTS", "error",
     "critical", "high", "normal"}

News ==
    {"gateway", "noRoute", "noGateway", "xreUp", "xreDown", "xreUnknown", "wanUp", "wanDown",
     "wanUnknown", "normal", "worn", "stateUnknown", "lifeA", "lifeB", "lifeUnknown",
     "lifeOver", "noLife", "tsb", "tsbUnknown", "noManager", "minutes", "noMinutes", "port",
     "noPort", "display", "noDisplay", "nexus", "authenticated", "inProgress",
     "notAuthenticated", "paired", "tooMany", "channel", "badChannel", "noRf4cemgr",
     "rf4cemgr", "chip", "chipOff", "noCtrlm", "network", "noNetwork", "key", "oldKey",
     "otherKey", "noKey", "unpaired", "enabled", "disabled", "noAnswer", "UP", "DOWN",
     "mocaOn", "mocaOff", "none", "few", "many", "packets"}

\* The variables keep to their types: only the tests note what they hear.
STypeOK ==
    /\ team \in Teams
    /\ connected \in BOOLEAN /\ count \in Nat /\ lost \in 0..MaxLost
    /\ only \in BOOLEAN /\ wifiIARM \in {"unset", "UP", "DOWN", "text"}
    /\ mocaInt \in {"none", "few", "many"} /\ tries \in 0..HdmiTries
    /\ at \in [team -> Outside \cup Asking] /\ ret \in [team -> Verdicts]
    /\ judged \in [team -> Verdicts]
    /\ heard \in [team -> SUBSET News] /\ \A t \in team \ Tests : heard[t] = {}
    /\ disturbed \subseteq team

Users == {t \in team : at[t] \notin Outside}

\* Nobody asks a service without a connection to the bus, whatever the others do,
\* and the bus is left when the last one has left it: the count is that of the
\* threads between their Connect and Disconnect, and of those that never came back.
ConnectedWhileUsed ==
    /\ count = Cardinality(Users) + lost
    /\ connected <=> count > 0

Bad == {"tooMany", "badChannel", "chipOff", "noCtrlm", "oldKey", "otherKey",
        "disabled", "DOWN", "mocaOff", "none", "many", "noGateway", "xreDown", "wanDown",
        "worn", "lifeOver", "noLife", "tsbUnknown", "noMinutes", "noDisplay",
        "notAuthenticated"}

\* Good news that are enough for a test to succeed.
Enough(t) ==
    CASE t = "rf4ce" -> {{"rf4cemgr", "paired"}, {"rf4cemgr", "channel"},
                         {"chip", "network", "paired", "key"}, {"chip", "network", "channel", "key"}}
      [] t = "wifi" -> {{"enabled", "UP"}}
      [] t = "moca" -> {{"mocaOn", "few", "packets"}}
      [] t = "wan" -> {{"gateway", "xreUp"}, {"gateway", "wanUp"}}
      [] t = "flash" -> {{"normal", "lifeA", "lifeB"}}
      [] t = "sdcard" -> {{"tsb", "minutes"}}
      [] t = "hdmiout" -> {{"display", "authenticated"}}
      [] OTHER -> {}

NoFault == {"none", "SUCCESS", "INTERNAL", "CANCELLED", "NOT_APPLICABLE"}

\* A test judges by what the services told it in this very test: it succeeds only
\* with enough good news and no bad, and finds a fault only when told of one, unless
\* the capabilities or the system information came in between with the variables
\* they share with it.
JudgedAsHeard ==
    \A t \in (team \cap Tests) \ disturbed :
        /\ judged[t] = "SUCCESS" =>
              heard[t] \cap Bad = {} /\ \E news \in Enough(t) : news \subseteq heard[t]
        /\ judged[t] \notin NoFault => heard[t] \cap (Bad \cup {"inProgress"}) # {}
=============================================================================
