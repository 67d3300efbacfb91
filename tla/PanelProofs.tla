---------------------------- MODULE PanelProofs ----------------------------
(***************************************************************************)
(* Theorems about the button and the LED in the main loop, for every       *)
(* number of edges, every timeout, and periods of the LED of which that of *)
(* IDLE is the longest.                                                    *)
(***************************************************************************)
EXTENDS Panel, DeviceStateProofs, Integers, TLAPS

(* The time left on the timer of the LED is part of the time for which its *)
(* colour may still be wrong.                                              *)
LedTimer == stale + nextTick <= LagOf(shown)

Waited == WaitButtonTimeout - deadline

(* A request that was not shown yet waits for the timer that was running   *)
(* when it came, or has been drawn once, dark, and will be yellow next.    *)
Prompting ==
  (state = "WAITING_BUTTON" /\ ~prompted)
    => \/ Waited + nextTick <= IdlePeriod
       \/ ~blinkOn /\ Waited + nextTick <= IdlePeriod + WaitPeriod

PanelInv == PanelTypeOK /\ EdgePerConfirm /\ LedTimer /\ Prompting

-----------------------------------------------------------------------------
(* The state machine and the button *)

(* Whatever the loop does to the state machine is a call of its functions. *)
LEMMA PanelCalls ==
  ASSUME DevTypeOK, [PanelNext]_panelVars
  PROVE  [DevNext]_devVars
<1>1. CASE Calls
  BY <1>1 DEF Calls, AskUser, BeginOperation, Unmount, Suspend, DevNext
<1>2. CASE TudTask
  BY <1>2 DEF TudTask, Operate, DevNext
<1>3. CASE ButtonTask
  BY <1>3 DEF ButtonTask, PollIdle, PollClear, PollSample, DevNext
<1>4. CASE TickTask \/ NeoTask
  BY <1>4 DEF TickTask, NeoTask, DevNext
<1>5. CASE User
  BY <1>5 DEF User, Fall, Rise
<1>6. CASE Time
  <2>1. deadline' = Countdown(deadline) /\ UNCHANGED <<state, authConsumed>>
    BY <1>6 DEF Time
  <2>2. CASE deadline > 0
    BY <2>1, <2>2 DEF DevElapse, DevNext
  <2>3. CASE ~(deadline > 0)
    BY <2>1, <2>3 DEF Countdown, DevTypeOK, devVars
  <2>4. QED
    BY <2>2, <2>3
<1>7. CASE UNCHANGED panelVars
  BY <1>7 DEF panelVars, histVars, devVars
<1>8. QED
  BY <1>1, <1>2, <1>3, <1>4, <1>5, <1>6, <1>7 DEF PanelNext, PanelLoop

(* What a step does to the button: one of its own, time, or nothing.       *)
LEMMA ButtonSteps ==
  ASSUME [PanelNext]_panelVars
  PROVE  \/ Fall \/ Rise \/ PollClear \/ PollSample
         \/ edgeAge' = Aged /\ UNCHANGED <<pinLow, edgeSeen, sampling, edges>>
         \/ UNCHANGED btnVars
BY DEF PanelNext, PanelLoop, User, Time, Calls, TudTask, ButtonTask, TickTask, NeoTask, PollIdle,
       panelVars, histVars, btnVars

LEMMA Remembering ==
  ASSUME [PanelNext]_panelVars
  PROVE  \/ Remember
         \/ UNCHANGED <<press, confirms, sampling, pinLow>>
BY DEF PanelNext, PanelLoop, User, Time, panelVars, histVars, btnVars

LEMMA HistTypeStep ==
  ASSUME HistTypeOK, EdgePerConfirm, [PanelNext]_panelVars
  PROVE  HistTypeOK' /\ EdgePerConfirm'
<1>1. DevTypeOK'
  BY PanelCalls, DevTypeStep DEF HistTypeOK
<1>2. BtnTypeOK'
  <2>1. CASE Fall
    <3>1. /\ pinLow' = TRUE /\ edgeSeen' = TRUE /\ UNCHANGED sampling
          /\ edgeAge' \in 0..Debounce /\ edges' \in 0..MaxEdges
      BY <2>1, ButtonAssumption DEF Fall, HistTypeOK, BtnTypeOK
    <3>2. QED
      BY <3>1, Zenon DEF HistTypeOK, BtnTypeOK
  <2>2. CASE Rise
    <3>1. pinLow' = FALSE /\ UNCHANGED <<edgeSeen, edgeAge, sampling, edges>>
      BY <2>2 DEF Rise
    <3>2. QED
      BY <3>1, Zenon DEF HistTypeOK, BtnTypeOK
  <2>3. CASE PollClear
    <3>1. /\ edgeSeen' = FALSE /\ edgeAge' = 0 /\ sampling' = TRUE
          /\ UNCHANGED <<pinLow, edges>> /\ 0 \in 0..Debounce
      BY <2>3, ButtonAssumption DEF PollClear
    <3>2. QED
      BY <3>1, Zenon DEF HistTypeOK, BtnTypeOK
  <2>4. CASE PollSample
    <3>1. sampling' = FALSE /\ UNCHANGED <<pinLow, edgeSeen, edgeAge, edges>>
      BY <2>4 DEF PollSample
    <3>2. QED
      BY <3>1, Zenon DEF HistTypeOK, BtnTypeOK
  <2>5. CASE edgeAge' = Aged /\ UNCHANGED <<pinLow, edgeSeen, sampling, edges>>
    <3>1. Aged \in 0..Debounce
      BY ButtonAssumption DEF HistTypeOK, BtnTypeOK, Aged
    <3>2. QED
      BY <2>5, <3>1, Zenon DEF HistTypeOK, BtnTypeOK
  <2>6. CASE UNCHANGED btnVars
    BY <2>6 DEF HistTypeOK, BtnTypeOK, btnVars
  <2>7. QED
    BY <2>1, <2>2, <2>3, <2>4, <2>5, <2>6, ButtonSteps
<1>3. confirms' \in Nat /\ EdgePerConfirm'
  <2> USE ButtonAssumption DEF HistTypeOK, BtnTypeOK, EdgePerConfirm, One
  <2>1. \/ confirms' = confirms
        \/ confirms' = confirms + 1 /\ sampling /\ ~sampling'
    BY Remembering DEF Remember, Confirming
  <2>2. CASE Fall \/ Rise
    BY <2>1, <2>2 DEF Fall, Rise
  <2>3. CASE PollClear
    BY <2>1, <2>3 DEF PollClear, PollReady
  <2>4. CASE PollSample
    <3>1. sampling /\ sampling' = FALSE /\ UNCHANGED <<edgeSeen, edges>>
      BY <2>4 DEF PollSample
    <3>2. QED
      BY <2>1, <3>1
  <2>5. CASE edgeAge' = Aged /\ UNCHANGED <<pinLow, edgeSeen, sampling, edges>>
    BY <2>1, <2>5
  <2>6. CASE UNCHANGED btnVars
    BY <2>1, <2>6 DEF btnVars
  <2>7. QED
    BY <2>2, <2>3, <2>4, <2>5, <2>6, ButtonSteps
<1>4. press' \in {"none", "new", "confirmed", "twice"}
  BY Remembering, Zenon DEF Remember, HistTypeOK
<1>5. QED
  BY <1>1, <1>2, <1>3, <1>4 DEF HistTypeOK

-----------------------------------------------------------------------------
(* The LED *)

LEMMA PeriodBounds ==
  /\ {IdlePeriod, WaitPeriod, AuthPeriod, ProcessingPeriod} \subseteq Nat \ {0}
  /\ WaitPeriod <= IdlePeriod /\ AuthPeriod <= IdlePeriod /\ ProcessingPeriod <= IdlePeriod
BY PeriodAssumption

(* A colour outlives its state by no more than the period of IDLE.         *)
LEMMA Lags ==
  ASSUME NEW colour \in Colours
  PROVE  LagOf(colour) \in Nat /\ LagOf(colour) <= IdlePeriod
<1> USE PeriodBounds DEF Colours, LagOf
<1>1. CASE colour = "red"
  BY <1>1
<1>2. CASE colour \in {"blue", "off"}
  BY <1>2
<1>3. CASE colour = "yellow"
  BY <1>3
<1>4. CASE colour = "green"
  BY <1>4
<1>5. CASE colour = "brightGreen"
  BY <1>5
<1>6. QED
  BY <1>1, <1>2, <1>3, <1>4, <1>5

(* What neopixel_tick() draws fits the state, and its timer the colour.    *)
LEMMA Drawing ==
  ASSUME NEW s \in DevStates, NEW on \in BOOLEAN
  PROVE  /\ Colour(s, on) \in Colours \cap ColoursOf(s)
         /\ Period(s) \in 0..IdlePeriod
         /\ Period(s) <= LagOf(Colour(s, on))
<1> USE PeriodBounds DEF DevStates, Colours, ColoursOf, Colour, Period, LagOf
<1>1. CASE s = "IDLE"
  BY <1>1
<1>2. CASE s = "WAITING_BUTTON"
  BY <1>2
<1>3. CASE s = "AUTHORIZED"
  BY <1>3
<1>4. CASE s = "PROCESSING"
  BY <1>4
<1>5. QED
  BY <1>1, <1>2, <1>3, <1>4

(* What a step does to the LED.                                            *)
LEMMA LedSteps ==
  ASSUME [PanelNext]_panelVars
  PROVE  \/ UNCHANGED panelVars
         \/ NeopixelTick /\ UNCHANGED devVars /\ Watch(0)
         \/ NeopixelOff /\ (DevStateInit \/ UNCHANGED devVars) /\ Watch(0)
         \/ UNCHANGED neoVars /\ Watch(0)
         \/ Time /\ Watch(1)
<1>1. CASE Time
  BY <1>1 DEF Time
<1>2. CASE Calls /\ Watch(0)
  BY <1>2 DEF Calls, AskUser, BeginOperation, Unmount, Suspend
<1>3. CASE PanelLoop
  BY <1>3 DEF PanelLoop, TudTask, Operate, ButtonTask, TickTask, NeoTask
<1>4. CASE User
  BY <1>4 DEF User
<1>5. QED
  BY <1>1, <1>2, <1>3, <1>4 DEF PanelNext

LEMMA Bounds ==
  ASSUME PanelInv
  PROVE  /\ shown \in Colours /\ nextTick \in 0..IdlePeriod /\ stale \in 0..IdlePeriod
         /\ nextTick <= LagOf(shown) /\ stale + nextTick <= LagOf(shown)
         /\ LagOf(shown) \in Nat /\ LagOf(shown) <= IdlePeriod
         /\ IdlePeriod \in Nat \ {0} /\ WaitPeriod \in 1..IdlePeriod
         /\ WaitButtonTimeout \in Nat /\ deadline \in Nat /\ state \in DevStates
         /\ blinkOn \in BOOLEAN /\ prompted \in BOOLEAN
<1>1. shown \in Colours /\ nextTick \in 0..IdlePeriod /\ stale \in 0..IdlePeriod + 1
  BY DEF PanelInv, PanelTypeOK, NeoTypeOK
<1>2. stale + nextTick <= LagOf(shown)
  BY DEF PanelInv, LedTimer
<1>3. LagOf(shown) \in Nat /\ LagOf(shown) <= IdlePeriod
  BY <1>1, Lags
<1>4. IdlePeriod \in Nat \ {0} /\ WaitPeriod \in 1..IdlePeriod
  BY PeriodBounds
<1>5. WaitButtonTimeout \in Nat /\ deadline \in Nat /\ state \in DevStates
  BY TimingAssumption DEF PanelInv, PanelTypeOK, HistTypeOK, DevTypeOK
<1>6. blinkOn \in BOOLEAN /\ prompted \in BOOLEAN
  BY DEF PanelInv, PanelTypeOK, NeoTypeOK
<1>7. QED
  BY <1>1, <1>2, <1>3, <1>4, <1>5, <1>6

(* stale starts again at 0, or counts on.                                  *)
LEMMA Watching ==
  ASSUME PanelInv, NEW elapsed \in {0, 1}, Watch(elapsed)
  PROVE  /\ stale' = 0 \/ (stale' = stale + elapsed /\ ~Fits')
         /\ Fits' => stale' = 0
         /\ prompted' \in BOOLEAN
         /\ state' = "WAITING_BUTTON" /\ ~prompted' => ~prompted /\ shown' # "yellow"
<1>1. ~(stale > IdlePeriod)
  BY Bounds
<1>2. CASE Fits'
  BY <1>1, <1>2 DEF Watch
<1>3. CASE ~Fits'
  BY <1>1, <1>3 DEF Watch
<1>4. QED
  BY <1>2, <1>3 DEF Watch

LEMMA LedTimerStep ==
  ASSUME PanelInv, [PanelNext]_panelVars
  PROVE  LedTimer' /\ NeoTypeOK' /\ stale' \in 0..IdlePeriod
<1> USE Bounds
<1>1. CASE UNCHANGED panelVars
  BY <1>1 DEF panelVars, neoVars, LedTimer, NeoTypeOK, LagOf
<1>2. CASE UNCHANGED neoVars /\ Watch(0)
  <2>1. UNCHANGED <<shown, nextTick, blinkOn>> /\ (stale' = 0 \/ stale' = stale)
    BY <1>2, Watching DEF neoVars
  <2>2. LagOf(shown)' = LagOf(shown)
    BY <2>1 DEF LagOf
  <2>3. QED
    BY <2>1, <2>2 DEF LedTimer, NeoTypeOK
<1>3. CASE NeopixelTick /\ UNCHANGED devVars /\ Watch(0) /\ nextTick = 0
  <2>1. /\ shown' = Colour(state, blinkOn') /\ nextTick' = Period(state) /\ state' = state
        /\ blinkOn' = ~blinkOn \/ blinkOn' = blinkOn
    BY <1>3 DEF NeopixelTick, devVars
  <2>2. blinkOn' \in BOOLEAN
    BY <2>1, Zenon
  <2>3. /\ shown' \in Colours \cap ColoursOf(state)
        /\ nextTick' \in 0..IdlePeriod /\ nextTick' <= LagOf(shown')
    BY <2>1, <2>2, Drawing
  <2>4. Fits'
    BY <2>1, <2>3 DEF Fits
  <2>5. stale' = 0
    BY <1>3, <2>4, Watching
  <2>6. LagOf(shown)' = LagOf(shown') /\ LagOf(shown') \in Nat
    BY <2>3, Lags DEF LagOf
  <2>7. QED
    BY <2>2, <2>3, <2>5, <2>6 DEF LedTimer, NeoTypeOK
<1>4. CASE NeopixelTick /\ nextTick # 0 /\ Watch(0)
  BY <1>2, <1>4 DEF NeopixelTick
<1>5. CASE NeopixelOff /\ Watch(0)
  <2>1. shown' = "off" /\ UNCHANGED <<nextTick, blinkOn>> /\ (stale' = 0 \/ stale' = stale)
    BY <1>5, Watching DEF NeopixelOff
  <2>2. LagOf(shown)' = IdlePeriod /\ shown' \in Colours
    BY <2>1 DEF LagOf, Colours
  <2>3. QED
    BY <2>1, <2>2 DEF LedTimer, NeoTypeOK
<1>6. CASE Time /\ Watch(1)
  <2>1. /\ UNCHANGED <<state, shown, blinkOn>> /\ nextTick' = Countdown(nextTick)
        /\ nextTick > 0 \/ state = "PROCESSING"
    BY <1>6 DEF Time, LoopIdle
  <2>2. LagOf(shown)' = LagOf(shown)
    BY <2>1 DEF LagOf
  <2>3. nextTick' \in 0..IdlePeriod /\ nextTick' <= nextTick
    BY <2>1, CountdownBounds
  <2>4. CASE nextTick > 0
    <3>1. nextTick' = nextTick - 1
      BY <2>1, <2>4 DEF Countdown
    <3>2. stale' = 0 \/ stale' = stale + 1
      BY <1>6, Watching
    <3>3. QED
      BY <2>1, <2>2, <2>3, <3>1, <3>2 DEF LedTimer, NeoTypeOK
  <2>5. CASE state = "PROCESSING"
    <3>1. Fits'
      BY <2>1, <2>5 DEF Fits, ColoursOf
    <3>2. stale' = 0
      BY <1>6, <3>1, Watching
    <3>3. QED
      BY <2>1, <2>2, <2>3, <3>2 DEF LedTimer, NeoTypeOK
  <2>6. QED
    BY <2>1, <2>4, <2>5
<1>7. QED
  BY <1>1, <1>2, <1>3, <1>4, <1>5, <1>6, LedSteps

-----------------------------------------------------------------------------
(* The prompt *)

(* A device that waits was asked just now, or waited before; only time     *)
(* takes anything from its deadline.                                       *)
LEMMA WaitSteps ==
  ASSUME [PanelNext]_panelVars, state' = "WAITING_BUTTON"
  PROVE  \/ Time /\ Watch(1)
         \/ deadline' = WaitButtonTimeout
         \/ state = "WAITING_BUTTON" /\ deadline' = deadline
<1>1. CASE Calls
  BY <1>1 DEF Calls, AskUser, BeginOperation, Unmount, Suspend, RequestAuth, ConsumeAuth,
              DevStateInit, devVars
<1>2. CASE TudTask
  BY <1>2 DEF TudTask, Operate, BeginProcessing, OpComplete, devVars
<1>3. CASE ButtonTask
  BY <1>3 DEF ButtonTask, PollIdle, PollClear, PollSample, ButtonPressed, devVars
<1>4. CASE TickTask \/ NeoTask
  BY <1>4 DEF TickTask, NeoTask, DevStateTick, devVars
<1>5. CASE User \/ Time
  BY <1>5 DEF User, Fall, Rise, Time, devVars
<1>6. CASE UNCHANGED panelVars
  BY <1>6 DEF panelVars, histVars, devVars
<1>7. QED
  BY <1>1, <1>2, <1>3, <1>4, <1>5, <1>6 DEF PanelNext, PanelLoop

LEMMA PromptingStep ==
  ASSUME PanelInv, [PanelNext]_panelVars
  PROVE  Prompting'
<1> SUFFICES ASSUME state' = "WAITING_BUTTON", ~prompted'
             PROVE  \/ Waited' + nextTick' <= IdlePeriod
                    \/ ~blinkOn' /\ Waited' + nextTick' <= IdlePeriod + WaitPeriod
  BY DEF Prompting
<1> USE Bounds
<1>1. nextTick' \in 0..IdlePeriod
  BY LedTimerStep DEF NeoTypeOK
<1>2. CASE deadline' = WaitButtonTimeout
  BY <1>1, <1>2 DEF Waited
<1>3. CASE Time /\ Watch(1)
  <2>1. state = "WAITING_BUTTON" /\ ~prompted /\ UNCHANGED blinkOn
    BY <1>3, Watching DEF Time
  <2>2. deadline > 0 /\ nextTick > 0
    BY <1>3, <2>1 DEF Time, LoopIdle
  <2>3. deadline' = deadline - 1 /\ nextTick' = nextTick - 1
    BY <1>3, <2>2 DEF Time, Countdown
  <2>4. Waited' + nextTick' = Waited + nextTick
    BY <2>3 DEF Waited
  <2>5. QED
    BY <2>1, <2>4 DEF PanelInv, Prompting
<1>4. CASE state = "WAITING_BUTTON" /\ deadline' = deadline /\ ~(Time /\ Watch(1))
  <2>1. Waited' = Waited /\ Waited \in Int
    BY <1>4 DEF Waited
  <2>2. CASE UNCHANGED panelVars
    BY <1>4, <2>1, <2>2 DEF PanelInv, Prompting, panelVars, neoVars
  <2>3. CASE (UNCHANGED neoVars \/ NeopixelOff) /\ Watch(0)
    <3>1. ~prompted /\ UNCHANGED <<nextTick, blinkOn>>
      BY <2>3, Watching DEF neoVars, NeopixelOff
    <3>2. QED
      BY <1>4, <2>1, <3>1 DEF PanelInv, Prompting
  <2>4. CASE NeopixelTick /\ Watch(0) /\ nextTick = 0
    <3>1. ~prompted /\ shown' # "yellow"
      BY <2>4, Watching
    <3>2. blinkOn' = ~blinkOn /\ shown' = Colour(state, blinkOn') /\ nextTick' = Period(state)
      BY <1>4, <2>4 DEF NeopixelTick, Blinks
    <3>3. ~blinkOn' /\ nextTick' = WaitPeriod
      BY <1>4, <3>1, <3>2 DEF Colour, Period
    <3>4. Waited + nextTick <= IdlePeriod
      BY <1>4, <3>1, <3>2, <3>3 DEF PanelInv, Prompting
    <3>5. QED
      BY <2>1, <2>4, <3>3, <3>4
  <2>5. QED
    BY <1>4, <2>2, <2>3, <2>4, LedSteps DEF NeopixelTick
<1>5. QED
  BY <1>2, <1>3, <1>4, WaitSteps

-----------------------------------------------------------------------------
(* The theorems *)

LEMMA PanelInit_Inv == PanelInit => PanelInv
<1> SUFFICES ASSUME PanelInit PROVE PanelInv
  OBVIOUS
<1>1. /\ deadline = 0 /\ state = "IDLE" /\ authConsumed = FALSE
      /\ pinLow \in BOOLEAN /\ edgeSeen = FALSE /\ edgeAge = 0 /\ sampling = FALSE /\ edges = 0
      /\ press = "none" /\ confirms = 0
      /\ shown = "red" /\ nextTick = 0 /\ blinkOn = FALSE
      /\ pc = "tud" /\ stale = 0 /\ prompted = FALSE
  BY DEF PanelInit, HistInit, NeoInit, DevInit, BtnInit
<1>2. /\ 0 \in Nat /\ 0 \in 0..Debounce /\ 0 \in 0..MaxEdges
      /\ 0 \in 0..IdlePeriod /\ 0 \in 0..IdlePeriod + 1
  BY ButtonAssumption, PeriodBounds
<1>3. DevTypeOK /\ BtnTypeOK /\ NeoTypeOK
  BY <1>1, <1>2, Zenon DEF DevTypeOK, DevStates, BtnTypeOK, NeoTypeOK, Colours
<1>4. PanelTypeOK
  BY <1>1, <1>2, <1>3, Zenon DEF PanelTypeOK, HistTypeOK
<1>5. EdgePerConfirm /\ LedTimer /\ Prompting
  BY <1>1 DEF EdgePerConfirm, One, LedTimer, LagOf, Prompting
<1>6. QED
  BY <1>4, <1>5 DEF PanelInv

LEMMA PanelStep ==
  ASSUME PanelInv, [PanelNext]_panelVars
  PROVE  PanelInv'
<1>1. HistTypeOK' /\ EdgePerConfirm'
  BY HistTypeStep DEF PanelInv, PanelTypeOK
<1>2. LedTimer' /\ NeoTypeOK' /\ stale' \in 0..IdlePeriod + 1
  BY LedTimerStep, PeriodBounds
<1>3. prompted' \in BOOLEAN
  <2>1. CASE Watch(0) \/ Watch(1)
    BY <2>1, Watching
  <2>2. CASE UNCHANGED panelVars
    BY <2>2 DEF PanelInv, PanelTypeOK, panelVars
  <2>3. QED
    BY <2>1, <2>2, LedSteps
<1>4. pc' \in {"tud", "button", "tick", "neo"}
  BY DEF PanelInv, PanelTypeOK, PanelNext, PanelLoop, Calls, TudTask, ButtonTask, TickTask,
         NeoTask, User, Time, panelVars
<1>5. QED
  BY <1>1, <1>2, <1>3, <1>4, PromptingStep DEF PanelInv, PanelTypeOK

(* All parts of the invariant hold of the panel.                           *)
THEOREM PanelInvHolds == PanelSpec => []PanelInv
<1>1. PanelInv /\ [PanelNext]_panelVars => PanelInv'
  BY PanelStep
<1>2. QED
  BY PanelInit_Inv, <1>1, PTL DEF PanelSpec

(* The variables of button, state machine and LED keep their types, and    *)
(* deadlines their bounds.                                                 *)
THEOREM PanelTypeCorrect == PanelSpec => []PanelTypeOK
<1>1. PanelInv => PanelTypeOK
  BY DEF PanelInv
<1>2. QED
  BY <1>1, PanelInvHolds, PTL

(* button_was_pressed() returns true no more often than the pin fell.      *)
THEOREM EdgePaysConfirm == PanelSpec => []EdgePerConfirm
<1>1. PanelInv => EdgePerConfirm
  BY DEF PanelInv
<1>2. QED
  BY <1>1, PanelInvHolds, PTL

(* The LED shows an old state for no longer than the period of its colour. *)
THEOREM LedHonest == PanelSpec => []LedFollows
<1>1. PanelInv => LedFollows
  BY Bounds DEF LedFollows
<1>2. QED
  BY <1>1, PanelInvHolds, PTL

(* The prompt is seen within one period of IDLE and one of the blinking.   *)
THEOREM PromptInTime == PanelSpec => []PromptSeen
<1>1. PanelInv => PromptSeen
  <2> SUFFICES ASSUME PanelInv, state = "WAITING_BUTTON", ~prompted,
                      deadline + IdlePeriod + WaitPeriod < WaitButtonTimeout
               PROVE  FALSE
    BY DEF PromptSeen
  <2>1. Waited + nextTick <= IdlePeriod + WaitPeriod
    BY Bounds DEF PanelInv, Prompting, Waited
  <2>2. QED
    BY <2>1, Bounds DEF Waited
<1>2. QED
  BY <1>1, PanelInvHolds, PTL

(* A bounce never makes a pending edge younger.                            *)
THEOREM DebounceHolds == PanelSpec => DebounceNotRestarted
<1>1. PanelInv /\ [PanelNext]_panelVars
        => [(edgeSeen /\ edgeSeen') => edgeAge' >= edgeAge]_histVars
  <2> SUFFICES ASSUME PanelInv, [PanelNext]_panelVars, edgeSeen, edgeSeen'
               PROVE  edgeAge' >= edgeAge
    OBVIOUS
  <2>1. edgeAge \in 0..Debounce /\ Debounce \in Nat
    BY ButtonAssumption DEF PanelInv, PanelTypeOK, HistTypeOK, BtnTypeOK
  <2>2. CASE Fall \/ Rise \/ PollSample \/ UNCHANGED btnVars
    BY <2>1, <2>2 DEF Fall, Rise, PollSample, btnVars
  <2>3. CASE edgeAge' = Aged
    BY <2>1, <2>3 DEF Aged
  <2>4. QED
    BY <2>2, <2>3, ButtonSteps DEF PollClear
<1>2. QED
  BY <1>1, PanelInvHolds, PTL DEF PanelSpec, DebounceNotRestarted

LEMMA PanelCallsOnly == PanelSpec => DevSpec
<1>1. PanelInit => DevInit
  BY DEF PanelInit, HistInit
<1>2. PanelInv /\ [PanelNext]_panelVars => [DevNext]_devVars
  BY PanelCalls DEF PanelInv, PanelTypeOK, HistTypeOK
<1>3. QED
  BY <1>1, <1>2, PanelInvHolds, PTL DEF PanelSpec, DevSpec

(* In the main loop, with its tick, its button and its bus, the state      *)
(* machine implements UserPresence.                                        *)
THEOREM PanelPresence == PanelSpec => ImplementsPresence
BY PanelCallsOnly, PresenceImplemented

(* Nor does anything in the loop push a running deadline out.              *)
THEOREM PanelDeadlines == PanelSpec => DeadlineNeverExtended
BY PanelCallsOnly, DeadlinesHold
=============================================================================
