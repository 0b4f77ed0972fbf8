--------------------------- MODULE TCA9548A_proofs ---------------------------
(***************************************************************************)
(* Theorems about the driver core, for every set of channels, of            *)
(* configurations and of transport errors and for every counter width.      *)
(***************************************************************************)
EXTENDS TCA9548A, TLAPS

\* A call in progress belongs to a bus operation of a bound driver; RESET runs
\* blind; what came out of a transfer is a transport status.
CallShape ==
    /\ ~Idle => bound /\ call.op \in BusOps
    /\ call.stage \in {"in_reset", "out_of_reset"} =>
         call.op = "hardReset" /\ ~Known(maskObservation)
    /\ call.stage = "out_of_transfer" => call.status \in {"OK"} \cup TransportStatuses

\* Between a completed transfer and the handler's return the byte the handler
\* is about to publish is the byte in the mux.
TransferTruth ==
    call.stage = "out_of_transfer" /\ call.status = "OK" /\ ~disturbed
        => call.mask = control

\* The bound Config passed begin()'s checks.
BindingIsValid == bound => config \in Configs /\ ValidConfig(config)

TypeInv == TypeOK /\ CallShape /\ BindingIsValid

RouteInv == ObservationTruth /\ TransferTruth /\ FailureLeavesNoEvidence

-----------------------------------------------------------------------------
(* Facts about the pieces                                                  *)

\* The default Config, that of a driver before begin(), has the type of one.
LEMMA DefaultConfigIsConfig ==
    DefaultConfig \in [hasI2c : BOOLEAN, hasHardReset : BOOLEAN, i2cAddress : Nat,
                       i2cTimeoutMs : Nat, resetTimeoutMs : Nat, offlineThreshold : Nat]
BY DEF DefaultConfig

\* A saturating counter stays in its width and never falls.
LEMMA SaturatedBounds ==
    ASSUME NEW limit \in Nat, NEW n \in 0 .. limit
    PROVE  /\ Saturated(n, limit) \in 0 .. limit
           /\ Saturated(n, limit) - n \in {0, 1}
           /\ limit # 0 => Saturated(n, limit) # 0
BY DEF Saturated

\* mapTransportStatus() yields OK exactly for OK.
LEMMA MapTransportStatusRange ==
    ASSUME NEW code \in TransportErrs \cup {"OK"}
    PROVE  /\ MapTransportStatus(code) \in {"OK"} \cup TransportStatuses
           /\ MapTransportStatus(code) = "OK" <=> code = "OK"
BY ConstantsAssumption DEF MapTransportStatus, TransportStatuses

\* The mask of a single channel is a mask, for any number.
LEMMA OneIsMask == ASSUME NEW channel PROVE One(channel) \in Masks
BY DEF One, Masks

\* The tracked outcome of a transfer keeps the health well typed and classified.
LEMMA UpdateHealthClassifies ==
    ASSUME TypeOK, NEW status \in {"OK"} \cup TransportStatuses, UpdateHealth(status),
           UNCHANGED config
    PROVE  /\ initialized' \in BOOLEAN
           /\ driverState' \in DriverStates
           /\ consecutiveFailures' \in 0 .. MaxU8
           /\ lastError' \in {"OK"} \cup TransportStatuses
           /\ totalFailures' \in 0 .. MaxU32
           /\ totalSuccess' \in 0 .. MaxU32
           /\ HealthIsClassified => HealthIsClassified'
<1>1. CASE status = "OK"
  BY <1>1, SaturatedBounds, ConstantsAssumption
  DEF UpdateHealth, TypeOK, DriverStates, HealthIsClassified
<1>2. CASE status # "OK"
  <2>1. /\ totalFailures' \in 0 .. MaxU32
        /\ consecutiveFailures' \in 0 .. MaxU8
        /\ consecutiveFailures' # 0
    BY <1>2, SaturatedBounds, ConstantsAssumption DEF UpdateHealth, TypeOK
  <2>2. /\ driverState' = FailureState(consecutiveFailures')
        /\ UNCHANGED <<initialized, totalSuccess>>
        /\ lastError' = status
    BY <1>2 DEF UpdateHealth
  <2>3. driverState' \in DriverStates
    BY <2>2 DEF FailureState, DriverStates, TypeOK
  <2>4. ASSUME HealthIsClassified PROVE HealthIsClassified'
    <3>1. config.offlineThreshold \in Nat
      BY ConstantsAssumption, DefaultConfigIsConfig DEF TypeOK, ConfigType
    <3> QED BY <1>2, <2>1, <2>2, <2>4, <3>1 DEF FailureState, HealthIsClassified, TypeOK
  <2> QED BY <2>1, <2>2, <2>3, <2>4 DEF TypeOK
<1> QED BY <1>1, <1>2

-----------------------------------------------------------------------------
(* Type correctness                                                        *)

\* No sequence of calls, callback outcomes and out-of-band events takes a
\* variable out of its type or a counter out of its width.
THEOREM TypeCorrect == Spec => []TypeInv
<1>1. Init => TypeInv
  <2> SUFFICES ASSUME Init PROVE TypeInv
    OBVIOUS
  <2>1. bound \in BOOLEAN /\ initialized \in BOOLEAN /\ disturbed \in BOOLEAN
    BY DEF Init
  <2>2. CallShape /\ BindingIsValid
    BY DEF Init, CallShape, BindingIsValid, Idle
  <2> QED
    BY <2>1, <2>2, ConstantsAssumption
    DEF ConstantsAssumption, Init, TypeInv, TypeOK, DriverStates, Provenances, Stages,
        Statuses, Masks, NoMask
<1>2. TypeInv /\ [Next]_vars => TypeInv'
  <2> SUFFICES ASSUME TypeInv, [Next]_vars PROVE TypeInv'
    OBVIOUS
  <2> USE DEF TypeInv
  <2>1. ASSUME NEW c \in Configs, Begin(c) PROVE TypeInv'
    <3>1. CASE Refuse("begin", "BUSY") \/ Refuse("begin", "INVALID_CONFIG")
      BY <2>1, <3>1
      DEF Begin, Refuse, Return, TypeOK, CallShape, BindingIsValid, driver, device,
          binding, health, Stages, Statuses, Refusals, Masks, NoMask, Idle, BusOps,
          ReadOps, Known
    <3>2. CASE /\ ~bound /\ ValidConfig(c)
               /\ ResetBindingState
               /\ config' = c
               /\ bound' = TRUE
               /\ Enter("begin", "in_transfer", NoMask)
               /\ UNCHANGED device
      <4>1. bound' \in BOOLEAN /\ initialized' \in BOOLEAN /\ disturbed' \in BOOLEAN
        BY <3>2 DEF ResetBindingState, device, TypeOK
      <4>2. BindingIsValid'
        BY <3>2 DEF BindingIsValid, ValidConfig
      <4>3. CallShape'
        BY <3>2 DEF Enter, CallShape, Idle, BusOps, ReadOps
      <4> QED
        BY <3>2, <4>1, <4>2, <4>3, ConstantsAssumption
        DEF ConstantsAssumption, ResetBindingState, KeepTotals, Enter, device, TypeOK,
            DriverStates, Provenances, Stages, Statuses, Masks, NoMask, BusOps, ReadOps
    <3> QED BY <2>1, <3>1, <3>2 DEF Begin
  <2>2. ASSUME End PROVE TypeInv'
    <3>1. bound' \in BOOLEAN /\ initialized' \in BOOLEAN /\ disturbed' \in BOOLEAN
      BY <2>2 DEF End, ResetBindingState, device, TypeOK
    <3>2. CallShape' /\ BindingIsValid'
      BY <2>2 DEF End, Return, CallShape, BindingIsValid, Idle
    <3> QED
      BY <2>2, <3>1, <3>2, ConstantsAssumption
      DEF ConstantsAssumption, End, Return, ResetBindingState, KeepTotals, device, TypeOK,
          DriverStates, Provenances, Stages, Statuses, Masks, NoMask
  <2>3. ASSUME NEW op \in BusOps, NEW mask \in Masks, Transfer(op, mask) PROVE TypeInv'
    BY <2>3
    DEF Transfer, Refuse, Return, Enter, TypeOK, CallShape, BindingIsValid, driver,
        device, binding, health, Stages, Statuses, Refusals, Masks, NoMask, Idle, Known
  <2>4. ASSUME NEW channel, SelectChannel(channel) PROVE TypeInv'
    <3>1. CASE Idle /\ Refuse("writeChannelMask", "INVALID_PARAM")
      BY <3>1
      DEF Refuse, Return, TypeOK, CallShape, BindingIsValid, driver, device, binding,
          health, Stages, Statuses, Refusals, Masks, NoMask, Idle, BusOps, Known
    <3>2. CASE Transfer("writeChannelMask", One(channel))
      BY <2>3, <3>2, OneIsMask DEF BusOps
    <3> QED BY <2>4, <3>1, <3>2 DEF SelectChannel
  <2>5. ASSUME HardReset PROVE TypeInv'
    BY <2>5
    DEF HardReset, Refuse, Return, Enter, Invalidated, TypeOK, CallShape, BindingIsValid,
        driver, device, binding, health, Stages, Statuses, Refusals, Provenances, Masks,
        NoMask, Idle, BusOps, ReadOps, Known
  <2>6. ASSUME InvalidateChannelMask PROVE TypeInv'
    BY <2>6
    DEF InvalidateChannelMask, Invalidated, TypeOK, CallShape, BindingIsValid, binding,
        health, Provenances, Idle
  <2>7. ASSUME TransferCallback PROVE TypeInv'
    <3>0. control \in Masks /\ call.mask \in Masks
      BY DEF TypeOK
    <3>1. PICK code \in TransportErrs \cup {"OK"} :
            /\ control' \in Masks
            /\ disturbed' = (disturbed /\ code # "OK")
            /\ \E mask \in Masks :
                 call' = [call EXCEPT !.stage = "out_of_transfer",
                            !.status = MapTransportStatus(code), !.mask = mask]
      BY <2>7, <3>0, Zenon DEF TransferCallback
    <3>2. MapTransportStatus(code) \in {"OK"} \cup TransportStatuses
      BY MapTransportStatusRange
    <3> QED
      BY <2>7, <3>1, <3>2
      DEF TransferCallback, TypeOK, CallShape, BindingIsValid, driver, binding, health,
          Stages, Statuses, Idle, Known
  <2>8. ASSUME ResetCallback PROVE TypeInv'
    BY <2>8
    DEF ResetCallback, ResetCodes, TypeOK, CallShape, BindingIsValid, driver, binding,
        health, Stages, Statuses, Refusals, Masks, NoMask, Idle, Known
  <2>9. ASSUME ResetReturn PROVE TypeInv'
    BY <2>9
    DEF ResetReturn, TypeOK, CallShape, BindingIsValid, driver, device, binding, health,
        Stages, Idle, Known
  <2>10. ASSUME WriteReturn PROVE TypeInv'
    BY <2>10, UpdateHealthClassifies
    DEF WriteReturn, Invalidated, TypeOK, CallShape, BindingIsValid, device, binding,
        Stages, Provenances, Idle
  <2>11. ASSUME ReadReturn PROVE TypeInv'
    BY <2>11, UpdateHealthClassifies
    DEF ReadReturn, Invalidated, TypeOK, CallShape, BindingIsValid, device, binding,
        health, Stages, Statuses, Provenances, Idle
  <2>12. ASSUME OutOfBand PROVE TypeInv'
    BY <2>12
    DEF OutOfBand, TypeOK, CallShape, BindingIsValid, driver, binding, health, Idle, Known
  <2>13. CASE UNCHANGED vars
    BY <2>13
    DEF vars, driver, device, binding, health, TypeOK, CallShape, BindingIsValid, Idle, Known
  <2>14. NoMask \in Masks /\ {"probe", "readChannelMask", "writeChannelMask"} \subseteq BusOps
    BY DEF NoMask, Masks, BusOps, ReadOps
  <2> QED
    BY <2>1, <2>2, <2>3, <2>4, <2>5, <2>6, <2>7, <2>8, <2>9, <2>10, <2>11, <2>12, <2>13,
       <2>14
    DEF Next, ApiCall, HandlerStep, Probe, ReadChannelMask, WriteChannelMask, DisableAll
<1> QED BY <1>1, <1>2, PTL DEF Spec

\* The type invariant that the runs check: counters never leave their width.
THEOREM TypesHold == Spec => []TypeOK
<1>1. TypeInv => TypeOK
  BY DEF TypeInv
<1> QED BY <1>1, TypeCorrect, PTL

-----------------------------------------------------------------------------
(* The route                                                               *)

\* The inductive step, action by action.  TypeInv supplies that RESET runs with
\* the evidence withdrawn, which is why its effect cannot falsify it.
LEMMA RouteStep == TypeInv /\ TypeInv' /\ RouteInv /\ [Next]_vars => RouteInv'
<1> SUFFICES ASSUME TypeInv, TypeInv', RouteInv, [Next]_vars PROVE RouteInv'
  OBVIOUS
<1> USE DEF TypeInv, TypeOK, CallShape, RouteInv, ObservationTruth, TransferTruth,
        FailureLeavesNoEvidence, EffectUnknown, TransportStatuses, Idle, Known
<1>1. ASSUME NEW c \in Configs, Begin(c) PROVE RouteInv'
  BY <1>1
  DEF Begin, Refuse, Return, Enter, ResetBindingState, driver, device
<1>2. ASSUME End PROVE RouteInv'
  BY <1>2 DEF End, Return, ResetBindingState, device
<1>3. ASSUME NEW op, NEW mask, Transfer(op, mask) PROVE RouteInv'
  BY <1>3 DEF Transfer, Refuse, Return, Enter, driver, device
<1>4. ASSUME NEW channel, SelectChannel(channel) PROVE RouteInv'
  BY <1>3, <1>4 DEF SelectChannel, Refuse, Return, driver, device
<1>5. ASSUME HardReset PROVE RouteInv'
  BY <1>5
  DEF HardReset, Refuse, Return, Enter, Invalidated, driver, device, Provenances
<1>6. ASSUME InvalidateChannelMask PROVE RouteInv'
  BY <1>6 DEF InvalidateChannelMask, Invalidated, Provenances
<1>7. ASSUME TransferCallback PROVE RouteInv'
  <2>1. PICK code \in TransportErrs \cup {"OK"} :
          /\ code = "OK" /\ call.op = "writeChannelMask" => control' = call.mask
          /\ call.op # "writeChannelMask" => control' = control
          /\ disturbed' = (disturbed /\ code # "OK")
          /\ call'.stage = "out_of_transfer"
          /\ call'.status = MapTransportStatus(code)
          /\ code = "OK" => call'.mask = IF call.op = "writeChannelMask" THEN call.mask
                                                                       ELSE control
    BY <1>7 DEF TransferCallback
  <2>2. MapTransportStatus(code) = "OK" => code = "OK"
    BY MapTransportStatusRange
  <2>3. TransferTruth'
    BY <2>1, <2>2
  <2> QED BY <2>1, <2>3
<1>8. ASSUME ResetCallback PROVE RouteInv'
  BY <1>8 DEF ResetCallback, driver
<1>9. ASSUME ResetReturn PROVE RouteInv'
  BY <1>9 DEF ResetReturn, driver, device
<1>10. ASSUME WriteReturn PROVE RouteInv'
  BY <1>10 DEF WriteReturn, Invalidated, device, Provenances
<1>11. ASSUME ReadReturn PROVE RouteInv'
  BY <1>11 DEF ReadReturn, Invalidated, device, Provenances
<1>12. ASSUME OutOfBand PROVE RouteInv'
  BY <1>12 DEF OutOfBand, driver
<1>13. CASE UNCHANGED vars
  BY <1>13 DEF vars, driver, device
<1> QED
  BY <1>1, <1>2, <1>3, <1>4, <1>5, <1>6, <1>7, <1>8, <1>9, <1>10, <1>11, <1>12, <1>13
  DEF Next, ApiCall, HandlerStep, Probe, ReadChannelMask, WriteChannelMask, DisableAll

\* In every state evidence and results are true and failures left no evidence.
LEMMA RouteInvariant == Spec => []RouteInv
<1>1. Init => RouteInv
  BY DEF Init, RouteInv, ObservationTruth, TransferTruth, FailureLeavesNoEvidence,
         EffectUnknown, Idle, Known
<1> QED BY <1>1, RouteStep, TypeCorrect, PTL DEF Spec

\* Evidence is never false: a byte with provenance is the byte in the mux
\* unless an out-of-band change has gone unreported.
THEOREM ObservationIsTrue == Spec => []ObservationTruth
<1>1. RouteInv => ObservationTruth
  BY DEF RouteInv
<1> QED BY <1>1, RouteInvariant, PTL

\* No failed transfer or RESET leaves evidence behind.
THEOREM FailureIsUnknown == Spec => []FailureLeavesNoEvidence
<1>1. RouteInv => FailureLeavesNoEvidence
  BY DEF RouteInv
<1> QED BY <1>1, RouteInvariant, PTL

\* OK is only returned for an effect the mux really has, RESET's all-off included.
THEOREM SuccessCorrect == Spec => SuccessIsTrue
<1>1. TypeInv /\ RouteInv /\ [Next]_vars
        => [~Idle /\ Idle' /\ call'.status = "OK" /\ ~disturbed' =>
              control' = IF call.op = "hardReset" THEN NoMask ELSE call'.mask]_vars
  <2> SUFFICES ASSUME TypeInv, RouteInv, Next, ~Idle, Idle', call'.status = "OK", ~disturbed'
               PROVE  control' = IF call.op = "hardReset" THEN NoMask ELSE call'.mask
    OBVIOUS
  <2> USE DEF TypeInv, TypeOK, CallShape, RouteInv, TransferTruth, Idle
  <2>1. CASE ResetReturn
    BY <2>1 DEF ResetReturn
  <2>2. CASE WriteReturn
    BY <2>2 DEF WriteReturn, device
  <2>3. CASE ReadReturn
    BY <2>3 DEF ReadReturn, device
  <2>4. CASE TransferCallback
    BY <2>4 DEF TransferCallback
  <2>5. CASE ResetCallback
    BY <2>5 DEF ResetCallback
  <2>6. CASE OutOfBand
    BY <2>6 DEF OutOfBand
  <2>7. ~ApiCall
    BY DEF ApiCall, Begin, End, Probe, ReadChannelMask, WriteChannelMask, DisableAll,
           SelectChannel, Transfer, HardReset, InvalidateChannelMask
  <2> QED BY <2>1, <2>2, <2>3, <2>4, <2>5, <2>6, <2>7 DEF Next, HandlerStep
<1> QED BY <1>1, TypeCorrect, RouteInvariant, PTL DEF Spec, SuccessIsTrue

-----------------------------------------------------------------------------
(* Health                                                                  *)

Binds == /\ ~bound
         /\ \E c \in Configs : ValidConfig(c) /\ config' = c
         /\ bound' = TRUE
         /\ ResetBindingState

Unbinds == /\ config' = DefaultConfig
           /\ bound' = FALSE
           /\ ResetBindingState

Tracks(status) ==
    /\ bound
    /\ ~Idle /\ call.op # "probe"
    /\ UNCHANGED binding
    /\ UpdateHealth(status)

\* The only four things a step can do to the binding and the health.
LEMMA HealthMoves ==
    ASSUME TypeInv, [Next]_vars
    PROVE  \/ UNCHANGED <<binding, health>>
           \/ Binds
           \/ Unbinds
           \/ \E status \in {"OK"} \cup TransportStatuses : Tracks(status)
<1>1. ASSUME NEW c \in Configs, Begin(c) PROVE UNCHANGED <<binding, health>> \/ Binds
  BY <1>1 DEF Begin, Refuse, driver, Binds
<1>2. CASE End
  BY <1>2 DEF End, Unbinds
<1>3. CASE \/ Probe \/ ReadChannelMask \/ DisableAll \/ HardReset \/ InvalidateChannelMask
           \/ \E mask \in Masks : WriteChannelMask(mask)
           \/ \E channel \in Channels \cup BadChannels : SelectChannel(channel)
  BY <1>3
  DEF Probe, ReadChannelMask, DisableAll, WriteChannelMask, SelectChannel, Transfer,
      HardReset, InvalidateChannelMask, Refuse, driver
<1>4. CASE TransferCallback \/ ResetCallback \/ ResetReturn \/ OutOfBand
  BY <1>4 DEF TransferCallback, ResetCallback, ResetReturn, OutOfBand, driver
<1>5. CASE WriteReturn
  BY <1>5 DEF WriteReturn, Tracks, TypeInv, CallShape, Idle
<1>6. CASE ReadReturn
  BY <1>6 DEF ReadReturn, Tracks, Tracked, TypeInv, CallShape, Idle
<1>7. CASE UNCHANGED vars
  BY <1>7 DEF vars, driver
<1> QED
  BY <1>1, <1>2, <1>3, <1>4, <1>5, <1>6, <1>7 DEF Next, ApiCall, HandlerStep

\* The published state is the documented function of the counters, whatever the
\* threshold and wherever the uint8_t counter saturates.
THEOREM HealthClassified == Spec => []HealthIsClassified
<1>1. Init => HealthIsClassified
  BY DEF Init, HealthIsClassified
<1>2. TypeInv /\ HealthIsClassified /\ [Next]_vars => HealthIsClassified'
  <2> SUFFICES ASSUME TypeInv, HealthIsClassified, [Next]_vars PROVE HealthIsClassified'
    OBVIOUS
  <2>1. CASE UNCHANGED <<binding, health>>
    BY <2>1 DEF binding, health, HealthIsClassified
  <2>2. CASE Binds \/ Unbinds
    BY <2>2 DEF Binds, Unbinds, ResetBindingState, HealthIsClassified
  <2>3. ASSUME NEW status \in {"OK"} \cup TransportStatuses, Tracks(status)
        PROVE  HealthIsClassified'
    BY <2>3, UpdateHealthClassifies DEF Tracks, binding, TypeInv
  <2> QED BY <2>1, <2>2, <2>3, HealthMoves
<1> QED BY <1>1, <1>2, TypeCorrect, PTL DEF Spec

\* probe() touches no health field, in any interleaving with the world.
THEOREM ProbePassive == Spec => ProbeIsPassive
<1>1. TypeInv /\ [Next]_vars => [~Idle /\ call.op = "probe" => UNCHANGED health]_vars
  <2> SUFFICES ASSUME TypeInv, Next, ~Idle, call.op = "probe" PROVE UNCHANGED health
    OBVIOUS
  <2>1. CASE HandlerStep \/ OutOfBand
    BY <2>1
    DEF HandlerStep, TransferCallback, ResetCallback, ResetReturn, WriteReturn, ReadReturn,
        OutOfBand, Tracked, driver
  <2>2. ~ApiCall
    BY DEF ApiCall, Begin, End, Probe, ReadChannelMask, WriteChannelMask, DisableAll,
           SelectChannel, Transfer, HardReset, InvalidateChannelMask
  <2> QED BY <2>1, <2>2 DEF Next
<1> QED BY <1>1, TypeCorrect, PTL DEF Spec, ProbeIsPassive

\* A call refused before it reaches a callback leaves the binding, the health and
\* the evidence as they were, whichever check refuses it.
THEOREM RefusalTransactional == Spec => RefusalIsTransactional
<1>1. [Next]_vars => [Idle /\ Idle' /\ call'.status \in Refusals /\ call' # call
                        => UNCHANGED <<driver, device>>]_vars
  <2> SUFFICES ASSUME Next, Idle, Idle', call'.status \in Refusals, call' # call
               PROVE  UNCHANGED <<driver, device>>
    OBVIOUS
  <2>1. ~HandlerStep
    BY DEF Idle, HandlerStep, TransferCallback, ResetCallback, ResetReturn, WriteReturn, ReadReturn
  <2>2. CASE \E c \in Configs : Begin(c)
    BY <2>2 DEF Begin, Refuse, Enter, Idle
  <2>3. ~End
    BY DEF End, Return, Refusals
  <2>4. ASSUME NEW op, NEW mask, Transfer(op, mask) PROVE UNCHANGED <<driver, device>>
    BY <2>4 DEF Transfer, Refuse, Enter, Idle
  <2>5. ASSUME NEW channel, SelectChannel(channel) PROVE UNCHANGED <<driver, device>>
    BY <2>5, <2>4 DEF SelectChannel, Refuse, Enter, Idle, Transfer
  <2>6. CASE HardReset
    BY <2>6 DEF HardReset, Refuse, Enter, Idle
  <2>7. CASE ApiCall
    BY <2>7, <2>2, <2>3, <2>4, <2>5, <2>6
    DEF ApiCall, Probe, ReadChannelMask, WriteChannelMask, DisableAll, InvalidateChannelMask
  <2> QED BY <2>1, <2>7 DEF Next, OutOfBand
<1> QED BY <1>1, PTL DEF Spec, RefusalIsTransactional

\* The object-lifetime totals count each tracked transfer once, and rebinding
\* neither clears nor counts.
THEOREM TotalsSurvive == Spec => TotalsOutliveBindings
<1>1. TypeInv /\ [Next]_vars
        => [/\ totalSuccess' - totalSuccess \in {0, 1}
            /\ totalFailures' - totalFailures \in {0, 1}
            /\ binding' # binding => UNCHANGED <<totalSuccess, totalFailures>>]_vars
  <2> SUFFICES ASSUME TypeInv, Next
               PROVE  /\ totalSuccess' - totalSuccess \in {0, 1}
                      /\ totalFailures' - totalFailures \in {0, 1}
                      /\ binding' # binding => UNCHANGED <<totalSuccess, totalFailures>>
    OBVIOUS
  <2>1. totalSuccess \in 0 .. MaxU32 /\ totalFailures \in 0 .. MaxU32 /\ MaxU32 \in Nat
    BY ConstantsAssumption DEF ConstantsAssumption, TypeInv, TypeOK
  <2>2. CASE UNCHANGED <<totalSuccess, totalFailures>>
    BY <2>1, <2>2
  <2>3. ASSUME NEW status, Tracks(status)
        PROVE  /\ totalSuccess' - totalSuccess \in {0, 1}
               /\ totalFailures' - totalFailures \in {0, 1}
               /\ binding' = binding
    BY <2>1, <2>3, SaturatedBounds DEF Tracks, UpdateHealth
  <2>4. Binds \/ Unbinds => UNCHANGED <<totalSuccess, totalFailures>>
    BY DEF Binds, Unbinds, ResetBindingState, KeepTotals
  <2> QED BY <2>2, <2>3, <2>4, HealthMoves DEF health
<1> QED BY <1>1, TypeCorrect, PTL DEF Spec, TotalsOutliveBindings

-----------------------------------------------------------------------------
(* The driver implements DriverHealth                                      *)

\* What the refinement needs besides TypeInv: an unbound driver is fresh.
UnboundIsFresh == ~bound => ~initialized /\ consecutiveFailures = 0 /\ driverState = "UNINIT"

\* A driver before begin() or after end() is uninitialized, with no failure counted.
LEMMA UnboundFresh == Spec => []UnboundIsFresh
<1>1. Init => UnboundIsFresh
  BY DEF Init, UnboundIsFresh
<1>2. TypeInv /\ UnboundIsFresh /\ [Next]_vars => UnboundIsFresh'
  <2> SUFFICES ASSUME TypeInv, UnboundIsFresh, [Next]_vars PROVE UnboundIsFresh'
    OBVIOUS
  <2>1. CASE UNCHANGED <<binding, health>>
    BY <2>1 DEF binding, health, UnboundIsFresh
  <2>2. CASE Binds \/ Unbinds
    BY <2>2 DEF Binds, Unbinds, ResetBindingState, UnboundIsFresh
  <2>3. ASSUME NEW status, Tracks(status) PROVE UnboundIsFresh'
    BY <2>3 DEF Tracks, binding, UnboundIsFresh
  <2> QED BY <2>1, <2>2, <2>3, HealthMoves
<1> QED BY <1>1, <1>2, TypeCorrect, PTL DEF Spec

\* Every step of the driver is a step of DriverHealth or leaves it unchanged.
LEMMA HealthStepSimulated ==
    ASSUME TypeInv, UnboundIsFresh, HealthIsClassified, [Next]_vars
    PROVE  [Health!Next]_Health!vars
<1> USE DEF Health!vars, Health!Next, Health!Unbound
<1>0. /\ bound => config.offlineThreshold \in Nat \ {0}
      /\ consecutiveFailures \in Nat
      /\ MaxU8 \in Nat /\ consecutiveFailures \in 0 .. MaxU8
      /\ bound => config.offlineThreshold <= MaxU8
  BY ConstantsAssumption
  DEF ConstantsAssumption, ConfigType, TypeInv, TypeOK, BindingIsValid, ValidConfig
<1>1. CASE UNCHANGED <<binding, health>>
  BY <1>1 DEF binding, health
<1>2. CASE Binds
  <2>1. PICK c \in Configs : ValidConfig(c) /\ config' = c
    BY <1>2 DEF Binds
  <2>2. c.offlineThreshold \in Nat
    BY ConstantsAssumption DEF ConstantsAssumption, ConfigType
  <2> QED
    BY <1>2, <2>1, <2>2 DEF Binds, ResetBindingState, Health!Bind, Health!Fresh
<1>3. CASE Unbinds
  BY <1>3 DEF Unbinds, ResetBindingState, Health!Unbind, Health!Fresh
<1>4. ASSUME NEW status \in {"OK"} \cup TransportStatuses, Tracks(status)
      PROVE  [Health!Next]_Health!vars
  <2>1. CASE status = "OK"
    <3>1. /\ initialized' = TRUE /\ driverState' = "READY" /\ consecutiveFailures' = 0
          /\ bound' = bound /\ bound /\ config' = config
      BY <1>4, <2>1 DEF Tracks, UpdateHealth, binding
    <3>2. /\ config.offlineThreshold # 0
          /\ ~(0 > config.offlineThreshold)
      BY <1>0, <3>1
    <3>3. Health!Success
      BY <3>1, <3>2, Zenon DEF Health!Success
    <3> QED BY <3>3
  <2>2. CASE status # "OK"
    <3>1. /\ driverState' = FailureState(consecutiveFailures')
          /\ consecutiveFailures' = Saturated(consecutiveFailures, MaxU8)
          /\ initialized' = initialized
          /\ bound' = bound /\ bound /\ config' = config
      BY <1>4, <2>2 DEF Tracks, UpdateHealth, binding
    <3> DEFINE t == config.offlineThreshold
               n == consecutiveFailures
               n1 == consecutiveFailures'
    <3>2. (IF n1 > t THEN t ELSE n1) =
             IF (IF n > t THEN t ELSE n) < t THEN (IF n > t THEN t ELSE n) + 1 ELSE t
      BY <1>0, <3>1 DEF Saturated
    <3>3. n1 >= t <=> (IF n1 > t THEN t ELSE n1) = t
      BY <1>0, <3>1 DEF Saturated
    <3>4. ~initialized => driverState = "UNINIT"
      BY DEF HealthIsClassified
    <3>5. Health!Failure
      BY <1>0, <3>1, <3>2, <3>3, <3>4 DEF Health!Failure, FailureState
    <3> QED BY <3>5
  <2> QED BY <2>1, <2>2
<1> QED BY <1>1, <1>2, <1>3, <1>4, HealthMoves

\* Saturating uint8_t counters, lifecycle flags and the early return before the
\* first success together implement the documented four-state machine.
THEOREM DriverImplementsHealth == Spec => ImplementsDriverHealth
<1>1. Init => Health!Init
  BY DEF Init, Health!Init
<1> QED
  BY <1>1, HealthStepSimulated, TypeCorrect, UnboundFresh, HealthClassified, PTL
  DEF Spec, ImplementsDriverHealth, Health!Spec
=============================================================================
