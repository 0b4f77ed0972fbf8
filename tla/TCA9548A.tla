------------------------------ MODULE TCA9548A ------------------------------
(***************************************************************************)
(* The driver core: class TCA9548A of src/TCA9548A.cpp, the mux it drives   *)
(* and the application callbacks it reaches the mux through.                *)
(*                                                                         *)
(* A control byte is the set of the channels it enables.  An API call that  *)
(* needs the bus is split where the code leaves the driver: the call enters *)
(* a callback, the callback returns a code, the rest of the handler runs.   *)
(* Between those steps the world may change the route (POR, an external     *)
(* RESET, another master); the driver itself is not reentrant, so no second *)
(* API call starts before the first has returned.                           *)
(***************************************************************************)
EXTENDS Integers

CONSTANTS
    Channels,       \* the valid Channel values, CH0..CH7
    BadChannels,    \* casts to Channel that name no channel
    Configs,        \* the configurations the application passes to begin()
    TransportErrs,  \* the failing TransportErr codes a backend reports
    MaxU8, MaxU32   \* where the uint8_t and uint32_t counters saturate

-----------------------------------------------------------------------------
(* Configuration                                                           *)

MAX_CALLBACK_TIMEOUT_MS == 60000

\* Config{}: what an unbound driver holds.  The record keeps the fields that
\* begin() validates and the two optional hooks that change control flow.
DefaultConfig ==
    [hasI2c |-> FALSE, hasHardReset |-> FALSE, i2cAddress |-> 112,
     i2cTimeoutMs |-> 20, resetTimeoutMs |-> 10, offlineThreshold |-> 5]

IsValidAddress(address) == address \in 112 .. 119

ValidConfig(c) ==
    /\ c.hasI2c
    /\ c.i2cTimeoutMs \in 1 .. MAX_CALLBACK_TIMEOUT_MS
    /\ c.resetTimeoutMs \in 1 .. MAX_CALLBACK_TIMEOUT_MS
    /\ IsValidAddress(c.i2cAddress)
    /\ c.offlineThreshold # 0

ConfigType ==
    [hasI2c : BOOLEAN, hasHardReset : BOOLEAN, i2cAddress : Nat,
     i2cTimeoutMs : Nat, resetTimeoutMs : Nat, offlineThreshold : 0 .. MaxU8]

ASSUME ConstantsAssumption ==
    /\ MaxU8 \in Nat \ {0}
    /\ MaxU32 \in Nat \ {0}
    /\ Configs \subseteq ConfigType
    /\ TransportErrs \subseteq {"NACK_ADDR", "NACK_DATA", "TIMEOUT", "BUS", "OTHER"}

-----------------------------------------------------------------------------
(* Status codes                                                            *)

TransportStatuses ==
    {"I2C_NACK_ADDR", "I2C_NACK_DATA", "I2C_TIMEOUT", "I2C_BUS", "I2C_ERROR"}

MapTransportStatus(code) ==
    CASE code = "OK"        -> "OK"
      [] code = "NACK_ADDR" -> "I2C_NACK_ADDR"
      [] code = "NACK_DATA" -> "I2C_NACK_DATA"
      [] code = "TIMEOUT"   -> "I2C_TIMEOUT"
      [] code = "BUS"       -> "I2C_BUS"
      [] OTHER              -> "I2C_ERROR"

\* What an application's RESET callback may return; "OTHER" stands for every
\* Err the callback contract forbids.
ResetCodes == {"OK", "TIMEOUT", "RESET_ERROR", "OTHER"}

Refusals == {"NOT_INITIALIZED", "INVALID_CONFIG", "INVALID_PARAM", "UNSUPPORTED", "BUSY"}

Statuses ==
    {"OK", "TIMEOUT", "RESET_ERROR", "RESET_STATE_MISMATCH"}
        \cup TransportStatuses \cup Refusals

-----------------------------------------------------------------------------
VARIABLES
    config, bound,              \* the binding: _config, _bound
    initialized, driverState,   \* tracked health: _initialized, _driverState,
    consecutiveFailures,        \*   _consecutiveFailures,
    lastError,                  \*   _lastError,
    totalFailures, totalSuccess,\*   object-lifetime totals
    maskObservation,            \* _maskObservation: a byte and its provenance
    call,                       \* the API call in progress, or the last result
    control,                    \* the mux's control byte
    disturbed                   \* history: the route changed behind the driver
                                \*   since its last completed transfer, and the
                                \*   application has not reported it

binding == <<config, bound>>
health == <<initialized, driverState, consecutiveFailures, lastError,
            totalFailures, totalSuccess>>
driver == <<binding, health, maskObservation>>
device == <<control, disturbed>>
vars == <<driver, call, device>>

Masks == SUBSET Channels
Provenances == {"UNKNOWN", "WRITE_COMPLETED", "READBACK_OBSERVED"}
DriverStates == {"UNINIT", "READY", "DEGRADED", "OFFLINE"}

\* The calls that reach the bus.  selectChannel, disableAll and recover are
\* writeChannelMask with a computed mask once their checks have passed.
ReadOps == {"begin", "probe", "readChannelMask", "hardReset"}
BusOps == ReadOps \cup {"writeChannelMask"}

\* Where a call stands: returned, or inside/just out of a callback.
Stages == {"returned", "in_reset", "out_of_reset", "in_transfer", "out_of_transfer"}

NoMask == {}
\* Fault: a failure clears the byte and leaves the old evidence standing.
InvalidatedByteOnly(observation) == [observation EXCEPT !.mask = NoMask]
Invalidated(observation) == [observation EXCEPT !.provenance = "UNKNOWN"]

Known(observation) == observation.provenance # "UNKNOWN"

Saturated(n, limit) == IF n < limit THEN n + 1 ELSE n

Init ==
    /\ config = DefaultConfig
    /\ bound = FALSE
    /\ initialized = FALSE
    /\ driverState = "UNINIT"
    /\ consecutiveFailures = 0
    /\ lastError = "OK"
    /\ totalFailures = 0
    /\ totalSuccess = 0
    /\ maskObservation = [mask |-> NoMask, provenance |-> "UNKNOWN"]
    /\ call = [op |-> "end", stage |-> "returned", status |-> "OK", mask |-> NoMask]
    /\ control \in Masks        \* an MCU restart does not reset the mux
    /\ disturbed = FALSE

-----------------------------------------------------------------------------
(* The pieces every handler is built from                                  *)

Idle == call.stage = "returned"

Return(op, status, mask) ==
    call' = [op |-> op, stage |-> "returned", status |-> status, mask |-> mask]

\* An early return: no callback is invoked and no driver state changes.
Refuse(op, status) ==
    /\ Return(op, status, NoMask)
    /\ UNCHANGED <<driver, device>>

\* A call past its checks enters the transport callback (or the RESET one).
Enter(op, stage, mask) ==
    call' = [op |-> op, stage |-> stage, status |-> "OK", mask |-> mask]

\* Fault: the object-lifetime totals are cleared with the binding's counters.
NoTotals == totalFailures' = 0 /\ totalSuccess' = 0
KeepTotals == UNCHANGED <<totalFailures, totalSuccess>>

\* _resetBindingState(): everything but the object-lifetime totals.
ResetBindingState ==
    /\ initialized' = FALSE
    /\ driverState' = "UNINIT"
    /\ consecutiveFailures' = 0
    /\ lastError' = "OK"
    /\ maskObservation' = [mask |-> NoMask, provenance |-> "UNKNOWN"]
    /\ KeepTotals

\* Fault: OFFLINE one failure late.
FailureStateLate(streak) ==
    IF ~initialized THEN driverState
    ELSE IF streak > config.offlineThreshold THEN "OFFLINE" ELSE "DEGRADED"

\* Fault: a failure before the first success is classified like any other.
FailureStateEager(streak) ==
    IF streak >= config.offlineThreshold THEN "OFFLINE" ELSE "DEGRADED"

FailureState(streak) ==
    IF ~initialized THEN driverState
    ELSE IF streak >= config.offlineThreshold THEN "OFFLINE" ELSE "DEGRADED"

\* _updateHealth(status)
UpdateHealth(status) ==
    \/ /\ status = "OK"
       /\ initialized' = TRUE
       /\ driverState' = "READY"
       /\ consecutiveFailures' = 0
       /\ totalSuccess' = Saturated(totalSuccess, MaxU32)
       /\ UNCHANGED <<lastError, totalFailures>>
    \/ /\ status # "OK"
       /\ lastError' = status
       /\ totalFailures' = Saturated(totalFailures, MaxU32)
       /\ consecutiveFailures' = Saturated(consecutiveFailures, MaxU8)
       /\ driverState' = FailureState(consecutiveFailures')
       /\ UNCHANGED <<initialized, totalSuccess>>

-----------------------------------------------------------------------------
(* API calls                                                               *)

\* Fault: the old binding is dropped before the new Config is validated.
BeginUnchecked(c) ==
    /\ Idle
    /\ ResetBindingState
    /\ config' = c
    /\ bound' = ValidConfig(c)
    /\ IF ValidConfig(c) THEN Enter("begin", "in_transfer", NoMask)
       ELSE Return("begin", "INVALID_CONFIG", NoMask)
    /\ UNCHANGED device

Begin(c) ==
    /\ Idle
    /\ \/ bound /\ Refuse("begin", "BUSY")
       \/ ~bound /\ ~ValidConfig(c) /\ Refuse("begin", "INVALID_CONFIG")
       \/ /\ ~bound /\ ValidConfig(c)
          /\ ResetBindingState
          /\ config' = c
          /\ bound' = TRUE
          /\ Enter("begin", "in_transfer", NoMask)
          /\ UNCHANGED device

End ==
    /\ Idle
    /\ ResetBindingState
    /\ config' = DefaultConfig
    /\ bound' = FALSE
    /\ Return("end", "OK", NoMask)
    /\ UNCHANGED device

\* _requireBound(), then the one transfer of a steady-state primitive.
Transfer(op, mask) ==
    /\ Idle
    /\ \/ ~bound /\ Refuse(op, "NOT_INITIALIZED")
       \/ /\ bound
          /\ Enter(op, "in_transfer", mask)
          /\ UNCHANGED <<driver, device>>

Probe == Transfer("probe", NoMask)
ReadChannelMask == Transfer("readChannelMask", NoMask)
WriteChannelMask(mask) == Transfer("writeChannelMask", mask)
DisableAll == WriteChannelMask(NoMask)      \* recover() is the same call

\* ChannelMask::one(): a cast that names no channel gives the empty mask.
One(channel) == {channel} \cap Channels

IsOneHot(mask) == \E channel \in Channels : mask = {channel}

SelectChannel(channel) ==
    \/ Idle /\ bound /\ ~IsOneHot(One(channel)) /\ Refuse("writeChannelMask", "INVALID_PARAM")
    \/ (bound => IsOneHot(One(channel))) /\ Transfer("writeChannelMask", One(channel))

\* Fault: the evidence is left standing while RESET may already have acted.
HardResetLateInvalidation ==
    /\ Idle
    /\ \/ ~bound /\ Refuse("hardReset", "NOT_INITIALIZED")
       \/ bound /\ ~config.hasHardReset /\ Refuse("hardReset", "UNSUPPORTED")
       \/ /\ bound /\ config.hasHardReset
          /\ Enter("hardReset", "in_reset", NoMask)
          /\ UNCHANGED <<driver, device>>

HardReset ==
    /\ Idle
    /\ \/ ~bound /\ Refuse("hardReset", "NOT_INITIALIZED")
       \/ bound /\ ~config.hasHardReset /\ Refuse("hardReset", "UNSUPPORTED")
       \/ /\ bound /\ config.hasHardReset
          /\ maskObservation' = Invalidated(maskObservation)
          /\ Enter("hardReset", "in_reset", NoMask)
          /\ UNCHANGED <<binding, health, device>>

\* The application reports an out-of-band route change.
InvalidateChannelMask ==
    /\ Idle
    /\ maskObservation' = Invalidated(maskObservation)
    /\ disturbed' = FALSE
    /\ UNCHANGED <<binding, health, call, control>>

-----------------------------------------------------------------------------
(* The callbacks, as their contract in Config.h leaves them                *)

\* One physical attempt.  OK means the transaction completed through STOP; an
\* address NACK transferred no byte; any other failure leaves it open whether
\* the mux took the byte (a late completion is reported as TIMEOUT).
TransferCallback ==
    /\ call.stage = "in_transfer"
    /\ \E code \in TransportErrs \cup {"OK"} :
         LET write == call.op = "writeChannelMask" IN
         /\ control' \in IF ~write \/ code = "NACK_ADDR" THEN {control}
                         ELSE IF code = "OK" THEN {call.mask}
                         ELSE {control, call.mask}
         /\ disturbed' = (disturbed /\ code # "OK")
         /\ call' = [call EXCEPT
                !.stage = "out_of_transfer",
                !.status = MapTransportStatus(code),
                !.mask = IF write \/ code # "OK" THEN @ ELSE control]
    /\ UNCHANGED driver

\* The RESET pulse.  OK promises only that the pulse is over: the pin may not
\* reach the mux; a failed pulse may have reset it.
ResetCallback ==
    /\ call.stage = "in_reset"
    /\ \E code \in ResetCodes :
         call' = [call EXCEPT
            !.stage = "out_of_reset",
            !.status = IF code = "OTHER" THEN "INVALID_CONFIG" ELSE code]
    /\ control' \in {control, NoMask}
    /\ UNCHANGED <<driver, disturbed>>

-----------------------------------------------------------------------------
(* The rest of each handler, after its callback                            *)

\* Fault: the callback's OK is returned without the readback.
ResetReturnUnverified ==
    /\ call.stage = "out_of_reset"
    /\ call' = [call EXCEPT !.stage = "returned"]
    /\ UNCHANGED <<driver, device>>

\* hardReset() after its RESET callback: stop, or go on to the one readback.
ResetReturn ==
    /\ call.stage = "out_of_reset"
    /\ call' = [call EXCEPT !.stage = IF call.status = "OK" THEN "in_transfer"
                                                            ELSE "returned"]
    /\ UNCHANGED <<driver, device>>

\* _writeControlByte() after the transport returned.
WriteReturn ==
    /\ call.stage = "out_of_transfer"
    /\ call.op = "writeChannelMask"
    /\ UpdateHealth(call.status)
    /\ maskObservation' =
         IF call.status # "OK" THEN Invalidated(maskObservation)
         ELSE [mask |-> call.mask, provenance |-> "WRITE_COMPLETED"]
    /\ call' = [call EXCEPT !.stage = "returned"]
    /\ UNCHANGED <<binding, device>>

\* Fault: the tracked flag is ignored, so probe() counts.
TracksEverything(op) == TRUE
Tracked(op) == op # "probe"

\* _readControlByte() after the transport returned, and the exact-zero test
\* of hardReset().  Only probe() is untracked.
ReadReturn ==
    /\ call.stage = "out_of_transfer"
    /\ call.op \in ReadOps
    /\ IF Tracked(call.op) THEN UpdateHealth(call.status) ELSE UNCHANGED health
    /\ maskObservation' =
         IF call.status # "OK" THEN Invalidated(maskObservation)
         ELSE [mask |-> call.mask, provenance |-> "READBACK_OBSERVED"]
    /\ call' = [call EXCEPT
         !.stage = "returned",
         !.status = IF call.op = "hardReset" /\ call.status = "OK" /\ call.mask # NoMask
                    THEN "RESET_STATE_MISMATCH" ELSE @]
    /\ UNCHANGED <<binding, device>>

-----------------------------------------------------------------------------
\* POR, an external RESET, controller recovery or another master: the control
\* byte changes at any moment, inside a callback too.
OutOfBand ==
    /\ \E mask \in Masks : mask # control /\ control' = mask
    /\ disturbed' = TRUE
    /\ UNCHANGED <<driver, call>>

ApiCall ==
    \/ \E c \in Configs : Begin(c)
    \/ End
    \/ Probe
    \/ ReadChannelMask
    \/ \E mask \in Masks : WriteChannelMask(mask)
    \/ DisableAll
    \/ \E channel \in Channels \cup BadChannels : SelectChannel(channel)
    \/ HardReset
    \/ InvalidateChannelMask

HandlerStep ==
    \/ TransferCallback
    \/ ResetCallback
    \/ ResetReturn
    \/ WriteReturn
    \/ ReadReturn

Next == ApiCall \/ HandlerStep \/ OutOfBand

Spec == Init /\ [][Next]_vars
-----------------------------------------------------------------------------
(* Properties                                                              *)

\* Every variable keeps its type; the counters stay within their width.
TypeOK ==
    /\ config \in Configs \cup {DefaultConfig}
    /\ bound \in BOOLEAN
    /\ initialized \in BOOLEAN
    /\ driverState \in DriverStates
    /\ consecutiveFailures \in 0 .. MaxU8
    /\ lastError \in {"OK"} \cup TransportStatuses
    /\ totalFailures \in 0 .. MaxU32
    /\ totalSuccess \in 0 .. MaxU32
    /\ maskObservation \in [mask : Masks, provenance : Provenances]
    /\ call \in [op : BusOps \cup {"end"}, stage : Stages, status : Statuses, mask : Masks]
    /\ control \in Masks
    /\ disturbed \in BOOLEAN

\* MaskProvenance: evidence is never false.  Whatever failed, was retried or
\* was reset before, a byte published with evidence is the byte in the mux,
\* unless the route changed out of band and nobody has called
\* invalidateChannelMask() since.  (Only between the end of a transfer and the
\* handler's return, where no caller can look, may the two differ.)
ObservationTruth ==
    Known(maskObservation) /\ ~disturbed /\ call.stage # "out_of_transfer"
        => maskObservation.mask = control

\* The failures of a transfer or of RESET, as the callers see them.
EffectUnknown ==
    \/ call.status \in TransportStatuses \cup {"TIMEOUT", "RESET_ERROR"}
    \/ call.op = "hardReset" /\ call.status = "INVALID_CONFIG"

\* "Any failed write or read, including a failed probe(), invalidates the
\* observation", and so does a RESET that did not report success: from a failed
\* call's return to the next call the driver claims nothing about the route.
FailureLeavesNoEvidence == Idle /\ EffectUnknown => ~Known(maskObservation)

\* DriverState as Config.offlineThreshold and the counters define it, in every
\* binding and at the uint8_t limit of both.
HealthIsClassified ==
    driverState =
        IF ~initialized THEN "UNINIT"
        ELSE IF consecutiveFailures = 0 THEN "READY"
        ELSE IF consecutiveFailures < config.offlineThreshold THEN "DEGRADED"
        ELSE "OFFLINE"

\* A call that reports OK is right about the mux: the requested byte was
\* applied, the byte read was in the register, and hardReset() ended with all
\* channels off, as long as nothing disturbed the route during the call.
SuccessIsTrue ==
    [][ ~Idle /\ Idle' /\ call'.status = "OK" /\ ~disturbed' =>
          control' = IF call.op = "hardReset" THEN NoMask ELSE call'.mask ]_vars

\* A call refused before it reaches a callback (wrong lifecycle, argument or
\* Config) leaves the binding, the health and the evidence as they were.
RefusalIsTransactional ==
    [][ Idle /\ Idle' /\ call'.status \in Refusals /\ call' # call
          => UNCHANGED <<driver, device>> ]_vars

\* probe() is diagnostic: no health field moves while it runs.
ProbeIsPassive == [][ ~Idle /\ call.op = "probe" => UNCHANGED health ]_vars

\* totalSuccess() and totalFailures() belong to the object: they survive
\* end() and begin(), never fall, and count at most one transfer a step.
TotalsOutliveBindings ==
    [][ /\ totalSuccess' - totalSuccess \in {0, 1}
        /\ totalFailures' - totalFailures \in {0, 1}
        /\ binding' # binding => UNCHANGED <<totalSuccess, totalFailures>> ]_vars

\* The driver's counters, read as DriverHealth's: past the threshold a longer
\* streak says nothing new.
Health == INSTANCE DriverHealth WITH
    Thresholds <- {c.offlineThreshold : c \in {d \in Configs : ValidConfig(d)}},
    threshold <- IF bound THEN config.offlineThreshold ELSE 0,
    seen <- initialized,
    streak <- IF bound /\ consecutiveFailures > config.offlineThreshold
              THEN config.offlineThreshold ELSE consecutiveFailures,
    health <- driverState

\* The driver's tracked health implements DriverHealth: whatever its counters
\* and flags do, what they publish is a behaviour of that machine.
ImplementsDriverHealth == Health!Spec
=============================================================================
