--------------------------- MODULE PromptUiProofs ---------------------------
(***************************************************************************)
(* For any set of requests, any number of screens and any PROMPT_CYCLES:   *)
(* the buttons answer what is shown, value callbacks do not outlive their  *)
(* prompts, screens are shown in turn, and a prompt times out only after   *)
(* its last round.                                                         *)
(***************************************************************************)
EXTENDS PromptUi, TLAPS

\* At idle the ticker turns the pages of the idle display, and of those only.
IdleDisplay ==
    running /\ asked = NoRequest => ux_step_count = IdleScreens

\* What ui_prompt registered stays registered while the prompt is up.
Registered ==
    running /\ asked # NoRequest =>
        \A i \in 0 .. Screens[asked] - 1 : callbacks[i] = <<asked, i>>

\* A device that has stopped leaves no request open.
StoppedAsksNothing == ~running => asked = NoRequest

Inv ==
    /\ TypeOK
    /\ ButtonsAnswerWhatIsShown
    /\ NoCallbackOutlivesItsPrompt
    /\ ShownInTurn
    /\ IdleDisplay
    /\ Registered
    /\ StoppedAsksNothing

\* Advancing ux_step is a wrap-around at the number of screens.
LEMMA Wraps ==
    ASSUME NEW n \in Nat \ {0}, NEW s \in 0 .. n - 1
    PROVE  /\ (s + 1) % n \in 0 .. n - 1
           /\ (s + 1) % n = IF s + 1 = n THEN 0 ELSE s + 1
<1>1. CASE s + 1 = n
  BY <1>1, SMT
<1>2. CASE s + 1 # n
  BY <1>2, SMT
<1> QED BY <1>1, <1>2

\* So next_step is a page of the display, and a round ends at page 0.
LEMMA NextStep ==
    ASSUME TypeOK
    PROVE  /\ next_step \in 0 .. ux_step_count - 1
           /\ next_step = 0 => ux_step = ux_step_count - 1
           /\ next_step # 0 => next_step = ux_step + 1
           /\ cycle_count \in 0 .. PROMPT_CYCLES
<1>1. next_step = IF ux_step + 1 = ux_step_count THEN 0 ELSE ux_step + 1
  BY Wraps DEF TypeOK, next_step
<1>2. PROMPT_CYCLES \in Nat \ {0}
  BY ScreensAssumption
<1> QED BY <1>1, <1>2 DEF TypeOK, cycle_count

\* The initial screen satisfies the invariant however it is reached.
LEMMA InitialScreen ==
    ASSUME TypeOK, asked' = NoRequest, running' \in BOOLEAN,
           callbacks' = NoCallbacks,
           ui_display("idle", NoRequest, NoRequest, IdleScreens),
           displays' = NeverShown,
           active_value' \in Value \cup {NoValue}
    PROVE  Inv'
<1> USE DEF ui_display
<1>1. TypeOK'
  BY ScreensAssumption DEF TypeOK, NoCallbacks, NeverShown
<1>2. ButtonsAnswerWhatIsShown'
  BY DEF ButtonsAnswerWhatIsShown
<1>3. NoCallbackOutlivesItsPrompt'
  BY DEF NoCallbackOutlivesItsPrompt, NoCallbacks
<1>4. ShownInTurn' /\ IdleDisplay' /\ Registered'
  BY DEF ShownInTurn, IdleDisplay, Registered
<1> QED BY <1>1, <1>2, <1>3, <1>4 DEF Inv, StoppedAsksNothing

\* Nothing is claimed of a device that has stopped, but the types.
LEMMA Stopped ==
    ASSUME TypeOK, uncaught
    PROVE  Inv'
<1>1. TypeOK'
  BY DEF TypeOK, uncaught, shown
<1> QED BY <1>1 DEF uncaught, Inv, ButtonsAnswerWhatIsShown,
           NoCallbackOutlivesItsPrompt, ShownInTurn, IdleDisplay, Registered,
           StoppedAsksNothing

\* Asking: the new prompt's values replace whatever was registered.
LEMMA Asking ==
    ASSUME Inv, NEW r \in Request, ui_prompt(r)
    PROVE  Inv'
<1> USE DEF Inv, ui_prompt, ui_display
<1>a. Screens[r] \in 1 .. MaxScreens /\ MaxScreens \in Nat /\ r # NoRequest
  BY ScreensAssumption, RequestAssumption
<1>b. \A i \in Screen : callbacks[i] = NoValue
  BY DEF NoCallbackOutlivesItsPrompt
<1>c. \A i \in Screen :
         callbacks'[i] = IF i < Screens[r] THEN <<r, i>> ELSE NoValue
  BY <1>b
<1>d. 0 .. Screens[r] - 1 \subseteq Screen /\ 0 \in Screen
  BY <1>a DEF Screen
<1>e. active_value' = <<r, 0>>
  BY <1>a, <1>c, <1>d
<1>f. \A i \in Screen : displays'[i] = IF i = 0 THEN 1 ELSE 0
  BY <1>d DEF NeverShown
<1>1. TypeOK'
  <2>1. callbacks' \in [Screen -> Value \cup {NoValue}]
    BY DEF TypeOK, Value
  <2>2. displays' \in [Screen -> 0 .. PROMPT_CYCLES]
    BY <1>d, ScreensAssumption DEF NeverShown
  <2>3. active_value' \in Value
    BY <1>d, <1>e DEF Value
  <2> QED BY <2>1, <2>2, <2>3, <1>a, ScreensAssumption DEF TypeOK
<1>2. ButtonsAnswerWhatIsShown'
  BY <1>a, <1>e DEF ButtonsAnswerWhatIsShown
<1>3. NoCallbackOutlivesItsPrompt'
  BY <1>a, <1>c DEF NoCallbackOutlivesItsPrompt
<1>4. ShownInTurn'
  BY <1>a, <1>d, <1>f DEF ShownInTurn
<1>5. IdleDisplay' /\ Registered'
  BY <1>a, <1>c, <1>d DEF IdleDisplay, Registered, Screen
<1> QED BY <1>1, <1>2, <1>3, <1>4, <1>5 DEF StoppedAsksNothing

\* An idle tick turns a page.
LEMMA IdleTick ==
    ASSUME Inv, running, idle_tick
    PROVE  Inv'
<1> USE DEF Inv, idle_tick
<1>1. TypeOK'
  <2>1. ux_step' \in 0 .. ux_step_count - 1 /\ cycle_count \in 0 .. PROMPT_CYCLES
    BY NextStep
  <2>2. timeout_cycle_count' \in 0 .. PROMPT_CYCLES - 1
    BY <2>1, ScreensAssumption DEF timed_out
  <2> QED BY <2>1, <2>2 DEF TypeOK
<1>2. asked = NoRequest
  BY DEF ButtonsAnswerWhatIsShown, is_idling
<1> QED BY <1>1, <1>2 DEF ButtonsAnswerWhatIsShown, IdleDisplay, Registered,
           NoCallbackOutlivesItsPrompt, ShownInTurn, StoppedAsksNothing

\* A prompt's tick shows the next of its values, one round further on when it
\* is the first.
LEMMA PromptTick ==
    ASSUME Inv, running, prompt_tick
    PROVE  Inv'
<1> USE DEF Inv, prompt_tick
<1>a. asked \in Request /\ ux_step_count = Screens[asked]
  BY DEF ButtonsAnswerWhatIsShown, is_idling, ShownInTurn, TypeOK
<1>b. Screens[asked] \in 1 .. MaxScreens /\ MaxScreens \in Nat
      /\ PROMPT_CYCLES \in Nat \ {0}
  BY <1>a, ScreensAssumption
<1>c. 0 .. Screens[asked] - 1 \subseteq Screen
  BY <1>b DEF Screen
<1>d. /\ next_step \in 0 .. Screens[asked] - 1
      /\ next_step = 0 => ux_step = Screens[asked] - 1
      /\ next_step # 0 => next_step = ux_step + 1
  BY NextStep, <1>a
<1>e. active_value' = <<asked, next_step>>
  BY <1>a, <1>d, RequestAssumption DEF Registered
<1>f. cycle_count \in 0 .. PROMPT_CYCLES - 1
  BY NextStep, <1>b DEF timed_out
<1>g. \A i \in Screen :
         displays'[i] = IF i = next_step THEN displays[i] + 1 ELSE displays[i]
  BY DEF TypeOK
<1>h. \A i \in 0 .. Screens[asked] - 1 :
         displays[i] = timeout_cycle_count + (IF i <= ux_step THEN 1 ELSE 0)
  BY <1>a, RequestAssumption DEF ShownInTurn
<1>i. \A i \in 0 .. Screens[asked] - 1 :
         displays'[i] = cycle_count + (IF i <= next_step THEN 1 ELSE 0)
  BY <1>b, <1>c, <1>d, <1>g, <1>h DEF cycle_count, TypeOK
<1>1. TypeOK'
  <2>1. displays'[next_step] \in 0 .. PROMPT_CYCLES
    BY <1>b, <1>d, <1>f, <1>i
  <2>2. displays' \in [Screen -> 0 .. PROMPT_CYCLES]
    BY <2>1, <1>c, <1>d, <1>g DEF TypeOK
  <2>3. active_value' \in Value
    BY <1>a, <1>c, <1>d, <1>e DEF Value
  <2> QED BY <2>2, <2>3, <1>a, <1>d, <1>f DEF TypeOK
<1>2. ButtonsAnswerWhatIsShown'
  BY <1>a, <1>e DEF ButtonsAnswerWhatIsShown
<1>3. ShownInTurn'
  BY <1>a, <1>i DEF ShownInTurn
<1>4. NoCallbackOutlivesItsPrompt' /\ IdleDisplay' /\ Registered'
  BY DEF NoCallbackOutlivesItsPrompt, IdleDisplay, Registered
<1> QED BY <1>1, <1>2, <1>3, <1>4 DEF StoppedAsksNothing

\* Inv holds of every reachable state.
THEOREM Inductive == Spec => []Inv
<1>1. Init => Inv
  BY ScreensAssumption
  DEF Init, Inv, TypeOK, NoCallbacks, NeverShown, ButtonsAnswerWhatIsShown,
      NoCallbackOutlivesItsPrompt, ShownInTurn, IdleDisplay, Registered,
      StoppedAsksNothing
<1>2. Inv /\ [Next]_vars => Inv'
  <2> SUFFICES ASSUME Inv, [Next]_vars PROVE Inv'
    OBVIOUS
  <2>a. TypeOK
    BY DEF Inv
  <2>b. ASSUME answered, running PROVE Inv'
    <3>1. running' \in BOOLEAN /\ active_value' \in Value \cup {NoValue}
      BY <2>a, <2>b DEF answered, ui_initial_screen, TypeOK
    <3> QED BY <2>a, <2>b, <3>1, InitialScreen DEF answered, ui_initial_screen
  <2>1. ASSUME NEW r \in Request, ui_prompt(r) PROVE Inv'
    BY <2>1, Asking
  <2>2. CASE press_left
    BY <2>a, <2>b, <2>2, Stopped DEF press_left
  <2>3. CASE press_right
    BY <2>a, <2>b, <2>3, Stopped DEF press_right
  <2>4. CASE ticker
    BY <2>a, <2>b, <2>4, IdleTick, PromptTick, Stopped
    DEF ticker, prompt_timeout, tick_throws
  <2>5. CASE io_reset
    <3>1. running' \in BOOLEAN /\ active_value' \in Value \cup {NoValue}
      BY <2>a, <2>5 DEF io_reset, ui_initial_screen, TypeOK
    <3> QED BY <2>a, <2>5, <3>1, InitialScreen DEF io_reset, ui_initial_screen
  <2>6. CASE restart
    <3>1. asked' = asked /\ ~running /\ running' \in BOOLEAN
          /\ active_value' \in Value \cup {NoValue}
      BY <2>6 DEF restart
    <3>2. asked = NoRequest
      BY <2>6 DEF restart, Inv, StoppedAsksNothing
    <3> QED BY <2>a, <2>6, <3>1, <3>2, InitialScreen DEF restart
  <2>7. CASE UNCHANGED vars
    BY <2>7 DEF Inv, vars, shown, TypeOK, ButtonsAnswerWhatIsShown,
       NoCallbackOutlivesItsPrompt, ShownInTurn, IdleDisplay, Registered,
       StoppedAsksNothing
  <2> QED BY <2>1, <2>2, <2>3, <2>4, <2>5, <2>6, <2>7 DEF Next
<1> QED BY <1>1, <1>2, PTL DEF Spec

\* Every variable of the prompt keeps its type: no step number runs past the
\* display, no round past PROMPT_CYCLES.
THEOREM Typing == Spec => []TypeOK
<1>1. Inv => TypeOK
  BY DEF Inv
<1> QED BY <1>1, Inductive, PTL

\* The buttons answer the request on display and nothing else.
THEOREM PressesAnswerWhatIsShown == Spec => []ButtonsAnswerWhatIsShown
<1>1. Inv => ButtonsAnswerWhatIsShown
  BY DEF Inv
<1> QED BY <1>1, Inductive, PTL

\* Value callbacks are gone with their prompt.
THEOREM CallbacksEndWithTheirPrompt == Spec => []NoCallbackOutlivesItsPrompt
<1>1. Inv => NoCallbackOutlivesItsPrompt
  BY DEF Inv
<1> QED BY <1>1, Inductive, PTL

\* The screens take turns, whatever their number.
THEOREM FairDisplay == Spec => []ShownInTurn
<1>1. Inv => ShownInTurn
  BY DEF Inv
<1> QED BY <1>1, Inductive, PTL

\* A time-out comes after PROMPT_CYCLES displays of every screen.
THEOREM TimeoutsAreLate == Spec => TimesOutOnlyWhenShown
<1> DEFINE Late ==
      ticker /\ asked # NoRequest /\ asked' = NoRequest /\ running'
        => \A i \in 0 .. Screens[asked] - 1 : displays[i] = PROMPT_CYCLES
<1>1. Inv /\ [Next]_vars => [Late]_vars
  <2> SUFFICES ASSUME Inv, ticker, asked # NoRequest, asked' = NoRequest,
                      running'
               PROVE  \A i \in 0 .. Screens[asked] - 1 :
                         displays[i] = PROMPT_CYCLES
    OBVIOUS
  <2>1. running
    BY DEF ticker
  <2>2. prompt_timeout
    BY DEF ticker, idle_tick, prompt_tick, tick_throws, uncaught
  <2>3. asked \in Request /\ ux_step_count = Screens[asked]
    BY <2>1 DEF Inv, ShownInTurn, TypeOK
  <2>4. Screens[asked] \in Nat \ {0} /\ PROMPT_CYCLES \in Nat \ {0}
    BY <2>3, ScreensAssumption
  <2>5. /\ timeout_cycle_count \in 0 .. PROMPT_CYCLES - 1
        /\ cycle_count = PROMPT_CYCLES
    BY <2>2 DEF prompt_timeout, timed_out, Inv, TypeOK
  <2>6. next_step = 0 /\ timeout_cycle_count + 1 = PROMPT_CYCLES
    BY <2>4, <2>5 DEF cycle_count
  <2>7. ux_step = Screens[asked] - 1
    BY <2>3, <2>6, NextStep DEF Inv
  <2> QED BY <2>1, <2>3, <2>4, <2>6, <2>7 DEF Inv, ShownInTurn
<1>2. Spec => [][Late]_vars
  BY <1>1, Inductive, PTL DEF Spec
<1> QED BY <1>2 DEF TimesOutOnlyWhenShown

-----------------------------------------------------------------------------
(* Why every prompt ends: EveryPromptEnds needs fairness, but that each     *)
(* tick brings the end nearer does not.                                     *)

\* The ticks that the open prompt has left.
TicksLeft == (PROMPT_CYCLES - timeout_cycle_count) * ux_step_count - ux_step

\* A tick is one of a number there is for each prompt.
LEMMA TicksAreCounted == Inv => TicksLeft \in Nat \ {0}
<1> SUFFICES ASSUME Inv PROVE TicksLeft \in Nat \ {0}
  OBVIOUS
<1> DEFINE k == PROMPT_CYCLES - timeout_cycle_count
           n == ux_step_count
<1>1. k \in Nat \ {0} /\ n \in Nat \ {0} /\ ux_step \in 0 .. n - 1
  BY ScreensAssumption DEF Inv, TypeOK
<1>2. \A a, b \in Nat \ {0} : a * b >= b /\ a * b \in Nat
  OBVIOUS
<1> HIDE DEF k, n
<1>3. k * n >= n /\ k * n \in Nat
  BY <1>1, <1>2
<1> DEFINE m == k * n
<1> HIDE DEF m
<1>4. m - ux_step \in Nat \ {0}
  BY <1>1, <1>3 DEF m
<1> QED BY <1>4 DEF TicksLeft, k, n, m

LEMMA TickTakesOne ==
    ASSUME Inv, running, prompt_tick
    PROVE  TicksLeft' = TicksLeft - 1
<1> DEFINE n == ux_step_count
           c == timeout_cycle_count
           P == PROMPT_CYCLES
           s == ux_step
<1>1. n \in Nat \ {0} /\ c \in Nat /\ P \in Nat /\ s \in 0 .. n - 1
  BY ScreensAssumption DEF Inv, TypeOK
<1>2. /\ ux_step' = next_step /\ timeout_cycle_count' = cycle_count
      /\ ux_step_count' = n
  BY DEF prompt_tick
<1>3. /\ next_step = 0 => s = n - 1
      /\ next_step # 0 => next_step = s + 1
  BY NextStep DEF Inv
<1>4. CASE next_step = 0
  <2>1. /\ TicksLeft' = (P - (c + 1)) * n - 0
        /\ TicksLeft = (P - c) * n - (n - 1)
    BY <1>2, <1>3, <1>4 DEF TicksLeft, cycle_count
  <2> HIDE DEF n, c, P
  <2>2. (P - (c + 1)) * n = (P - c) * n - n
    BY <1>1
  <2>3. (P - c) * n \in Int
    BY <1>1
  <2> QED BY <1>1, <2>1, <2>2, <2>3
<1>5. CASE next_step # 0
  <2>1. TicksLeft' = (P - c) * n - (s + 1) /\ TicksLeft = (P - c) * n - s
    BY <1>2, <1>3, <1>5 DEF TicksLeft, cycle_count
  <2> HIDE DEF n, c, P, s
  <2>2. (P - c) * n \in Int
    BY <1>1
  <2> QED BY <1>1, <2>1, <2>2
<1> QED BY <1>4, <1>5

\* All that happens to a prompt that stays open are ticks, and each takes one
\* from the number it has left: whatever the user, the hosts or main do, it
\* cannot outlive them, and a ticker that goes on ends it.
THEOREM TicksRunOut ==
    Spec => [](running /\ asked # NoRequest => TicksLeft \in Nat \ {0})
            /\ [][asked # NoRequest /\ asked' = asked =>
                     ticker /\ TicksLeft' = TicksLeft - 1]_vars
<1> DEFINE Open == running /\ asked # NoRequest => TicksLeft \in Nat \ {0}
           Down == asked # NoRequest /\ asked' = asked =>
                      ticker /\ TicksLeft' = TicksLeft - 1
<1>1. Inv => Open
  BY TicksAreCounted
<1>2. Inv /\ [Next]_vars => [Down]_vars
  <2> SUFFICES ASSUME Inv, Next, asked # NoRequest, asked' = asked
               PROVE  ticker /\ TicksLeft' = TicksLeft - 1
    OBVIOUS
  <2>1. running /\ ~is_idling
    BY DEF Inv, StoppedAsksNothing, ButtonsAnswerWhatIsShown, is_idling
  <2>2. ticker
    BY <2>1 DEF Next, ui_prompt, press_left, press_right, answered, uncaught,
                io_reset, restart
  <2>3. prompt_tick
    BY <2>1, <2>2 DEF ticker, idle_tick, prompt_timeout, answered, tick_throws, uncaught
  <2> QED BY <2>1, <2>2, <2>3, TickTakesOne
<1> HIDE DEF Open, Down
<1>3. Spec => []Open /\ [][Down]_vars
  BY <1>1, <1>2, Inductive, PTL DEF Spec
<1> QED BY <1>3 DEF Open, Down

=============================================================================
