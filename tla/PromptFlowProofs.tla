-------------------------- MODULE PromptFlowProofs --------------------------
(***************************************************************************)
(* Theorems about PromptFlow, for any requests, numbers of screens and     *)
(* failing values.  Buffers and callbacks are never cleared, so what is on *)
(* display is right only because nothing touches them while it is: IndInv  *)
(* adds that a prompt is on display exactly while its host waits for the   *)
(* answer (Waited), that the armed callbacks are that request's, and that  *)
(* every step the user has passed was displayed (Walked).  The callbacks a *)
(* host runs itself (host_callback) run while no prompt is open and leave  *)
(* all of this as it is; that they run at all is not excluded.             *)
(***************************************************************************)
EXTENDS PromptFlow, TLAPS

USE RequestAssumption, ScreensAssumption, FailingAssumption

Waited ==
    /\ Len(replies) <= 1
    /\ asked # NoRequest => replies = IF answering THEN <<asked>> ELSE << >>
    /\ running => (flow = "prompt" <=> asked # NoRequest /\ ~answering)

Armed == running /\ flow = "prompt" => ok_callback = asked /\ cxl_callback = asked

Walked == flow = "prompt" => first .. step \subseteq seen

Shown == DisplaysTheRequest

Current == running /\ ~cut_off => idle_data = flash

IndInv == TypeOK /\ Shown /\ Waited /\ Armed /\ Walked /\ Current

Buffers == [Screen -> [prompt : Value \cup {NoValue}, value : Value \cup {NoValue}]]

-----------------------------------------------------------------------------
(* The buffers.                                                            *)

\* A prompt fits the array, and its screens have values.
LEMMA Fits ==
    ASSUME NEW r \in Request
    PROVE  /\ offset(r) \in Screen /\ Screens[r] \in 1 .. MaxScreens
           /\ offset(r) + Screens[r] = MaxScreens
           /\ \A i \in 0 .. Screens[r] - 1 : i \in Screen /\ <<r, i>> \in Value
<1>1. Screens[r] \in 1 .. MaxScreens
  OBVIOUS
<1>2. /\ offset(r) \in Screen /\ offset(r) + Screens[r] = MaxScreens
      /\ \A i \in 0 .. Screens[r] - 1 : i \in Screen
  BY <1>1 DEF offset, Screen
<1> QED BY <1>1, <1>2 DEF Value

LEMMA Registered ==
    ASSUME TypeOK, NEW r \in Request, NEW k \in 1 .. Screens[r],
           register_ui_callback(r, k)
    PROVE  /\ callbacks' \in [Screen -> Value \cup {NoValue}]
           /\ \A i \in 0 .. k - 1 : callbacks'[i] = <<r, i>>
<1>1. /\ Screens[r] \in 1 .. MaxScreens
      /\ \A i \in 0 .. Screens[r] - 1 : i \in Screen /\ <<r, i>> \in Value
  BY Fits
<1>2. \A i \in Screen : i < k => i \in 0 .. Screens[r] - 1
  BY <1>1 DEF Screen
<1>3. \A i \in 0 .. k - 1 : i \in Screen /\ i < k
  BY <1>1 DEF Screen
<1> QED BY <1>1, <1>2, <1>3 DEF register_ui_callback, TypeOK

\* The screens of a prompt, as far as they are filled, are typed.
LEMMA FilledType ==
    ASSUME TypeOK, NEW r \in Request, NEW k \in 0 .. Screens[r], NEW shown,
           \A i \in 0 .. Screens[r] - 1 : shown[i] = <<r, i>>
    PROVE  /\ Filled(r, k, shown) \in Buffers
           /\ \A s \in offset(r) .. offset(r) + k - 1 :
                 Filled(r, k, shown)[s] = [prompt |-> <<r, s - offset(r)>>,
                                           value  |-> <<r, s - offset(r)>>]
<1>1. /\ offset(r) \in Screen /\ Screens[r] \in 1 .. MaxScreens
      /\ offset(r) + Screens[r] = MaxScreens
      /\ \A i \in 0 .. Screens[r] - 1 : i \in Screen /\ <<r, i>> \in Value
  BY Fits
<1>2. \A s \in offset(r) .. offset(r) + k - 1 :
         s \in Screen /\ s - offset(r) \in 0 .. Screens[r] - 1
  BY <1>1 DEF Screen
<1>3. \A s \in offset(r) .. offset(r) + k - 1 :
         /\ shown[s - offset(r)] = <<r, s - offset(r)>>
         /\ <<r, s - offset(r)>> \in Value
  BY <1>1, <1>2
<1>4. \A s \in offset(r) .. offset(r) + k - 1 :
         Filled(r, k, shown)[s] = [prompt |-> <<r, s - offset(r)>>,
                                   value  |-> <<r, s - offset(r)>>]
  BY <1>2, <1>3 DEF Filled
<1>5. ASSUME NEW s \in Screen
      PROVE  Filled(r, k, shown)[s] \in [prompt : Value \cup {NoValue},
                                         value : Value \cup {NoValue}]
  <2>1. CASE s \in offset(r) .. offset(r) + k - 1
    <3> DEFINE v == <<r, s - offset(r)>>
    <3>1. v \in Value /\ Filled(r, k, shown)[s] = [prompt |-> v, value |-> v]
      BY <1>3, <1>4, <2>1
    <3> HIDE DEF v
    <3> QED BY <3>1
  <2>2. CASE s \notin offset(r) .. offset(r) + k - 1
    BY <2>2 DEF Filled, TypeOK
  <2> QED BY <2>1, <2>2
<1>6. Filled(r, k, shown) = [s \in Screen |-> Filled(r, k, shown)[s]]
  BY DEF Filled
<1> QED BY <1>4, <1>5, <1>6, Zenon DEF Buffers

LEMMA Starts == Init => IndInv
<1> SUFFICES ASSUME Init PROVE IndInv
  OBVIOUS
<1>1. 0 \in Screen /\ 0 \in 0 .. IdleSteps - 1
  BY DEF Screen
<1>2. TypeOK
  <2>1. /\ callbacks \in [Screen -> Value \cup {NoValue}]
        /\ screen \in [Screen -> [prompt : Value \cup {NoValue},
                                  value : Value \cup {NoValue}]]
    BY DEF Init, Blank
  <2>2. step \in first .. last_step /\ replies \in Seq(Request \cup {NoRequest})
    BY <1>1 DEF Init, last_step
  <2> QED BY <1>1, <2>1, <2>2 DEF Init, TypeOK
<1>3. Shown /\ Waited /\ Armed /\ Walked /\ Current
  BY DEF Init, Shown, DisplaysTheRequest, Waited, Armed, Walked, Current
<1> QED BY <1>2, <1>3 DEF IndInv

\* The idle flow begins: what is left to show is the rest of the state.
LEMMA GoesIdle ==
    ASSUME IndInv, ux_flow_init("idle", 0),
           asked' \in Request \cup {NoRequest},
           ok_callback' \in Request \cup {NoRequest},
           cxl_callback' \in Request \cup {NoRequest},
           callbacks' \in [Screen -> Value \cup {NoValue}], screen' \in Buffers,
           flash' \in Contents, idle_data' \in Contents,
           answering' \in BOOLEAN, running' \in BOOLEAN, cut_off' \in BOOLEAN,
           replies' \in Seq(Request \cup {NoRequest}), Waited', Current'
    PROVE  IndInv'
<1>1. 0 \in Screen /\ 0 \in 0 .. IdleSteps - 1
  BY DEF Screen
<1>2. flow' = "idle" /\ first' = 0 /\ step' = 0 /\ seen' = {}
  BY DEF ux_flow_init
<1>3. TypeOK'
  BY <1>1, <1>2 DEF TypeOK, Buffers, last_step
<1>4. Shown' /\ Armed' /\ Walked'
  BY <1>2 DEF Shown, DisplaysTheRequest, Armed, Walked
<1> QED BY <1>3, <1>4 DEF IndInv

\* Nothing is shown while a host is served.
LEMMA ServingIsIdle == ASSUME IndInv, Serving PROVE flow = "idle" /\ running
BY DEF Serving, IndInv, TypeOK, Waited

\* A handler that shows nothing: buffers, callbacks and flash may change.
LEMMA Served ==
    ASSUME IndInv, Serving,
           UNCHANGED <<asked, flow, first, step, seen, running, replies>>,
           answering' \in BOOLEAN, cut_off' \in BOOLEAN,
           ok_callback' = ok_callback, cxl_callback' = cxl_callback,
           callbacks' \in [Screen -> Value \cup {NoValue}], screen' \in Buffers,
           flash' \in Contents, idle_data' \in Contents, Current'
    PROVE  IndInv'
<1>1. flow' = "idle"
  BY ServingIsIdle
<1>2. TypeOK'
  BY DEF IndInv, TypeOK, Buffers, last_step
<1>3. Shown' /\ Armed' /\ Walked'
  BY <1>1 DEF Shown, DisplaysTheRequest, Armed, Walked
<1>4. Waited'
  BY <1>1 DEF IndInv, Waited, Serving
<1> QED BY <1>2, <1>3, <1>4 DEF IndInv

LEMMA Pieces ==
    ASSUME IndInv
    PROVE  /\ asked \in Request \cup {NoRequest}
           /\ ok_callback \in Request \cup {NoRequest}
           /\ cxl_callback \in Request \cup {NoRequest}
           /\ callbacks \in [Screen -> Value \cup {NoValue}] /\ screen \in Buffers
           /\ flash \in Contents /\ idle_data \in Contents
           /\ answering \in BOOLEAN /\ running \in BOOLEAN /\ cut_off \in BOOLEAN
           /\ replies \in Seq(Request \cup {NoRequest})
BY DEF IndInv, TypeOK, Buffers

\* A write is shown, or known not to be.
Writing(data) == UPDATE_NVRAM(data) \/ UPDATE_NVRAM_fails(data)

LEMMA WriteShows ==
    ASSUME IndInv, NEW data \in Contents, Writing(data)
    PROVE  /\ flash' \in Contents /\ idle_data' \in Contents
           /\ cut_off' \in BOOLEAN /\ Current'
BY Pieces DEF Writing, UPDATE_NVRAM, UPDATE_NVRAM_fails, Current

\* ui_prompt fills what it shows.
LEMMA Prompts ==
    ASSUME IndInv, NEW r \in Request, ui_prompt(r) PROVE IndInv'
<1>1. /\ offset(r) \in Screen /\ Screens[r] \in 1 .. MaxScreens
      /\ offset(r) + Screens[r] = MaxScreens
  BY Fits
<1>2. /\ Serving /\ register_ui_callback(r, Screens[r])
      /\ screen' = Filled(r, Screens[r], callbacks')
      /\ asked' = r /\ ok_callback' = r /\ cxl_callback' = r
      /\ flow' = "prompt" /\ first' = offset(r) /\ step' = offset(r)
      /\ seen' = {offset(r)} /\ replies' = << >>
      /\ UNCHANGED <<flash, idle_data, cut_off, answering, running>>
  BY DEF ui_prompt, ux_flow_init, nvram
<1>3. Screens[r] \in 1 .. Screens[r] /\ Screens[r] \in 0 .. Screens[r]
  BY <1>1
<1>4. /\ callbacks' \in [Screen -> Value \cup {NoValue}]
      /\ \A i \in 0 .. Screens[r] - 1 : callbacks'[i] = <<r, i>>
  BY <1>2, <1>3, Registered DEF IndInv
<1>5. /\ screen' \in Buffers
      /\ \A s \in offset(r) .. offset(r) + Screens[r] - 1 :
            screen'[s] = [prompt |-> <<r, s - offset(r)>>,
                          value  |-> <<r, s - offset(r)>>]
  BY <1>2, <1>3, <1>4, FilledType DEF IndInv
<1>6. TypeOK'
  <2>1. step' \in first' .. last_step'
    BY <1>1, <1>2 DEF last_step, Accept, Screen
  <2>2. seen' \subseteq 0 .. Accept
    BY <1>1, <1>2 DEF Accept, Screen
  <2> QED BY <1>1, <1>2, <1>4, <1>5, <2>1, <2>2, Pieces DEF TypeOK, Buffers
<1>7. Shown'
  <2>1. offset(r) + Screens[r] - 1 = MaxScreens - 1
    <3> DEFINE o == offset(r)
    <3>1. o \in Int /\ Screens[r] \in Int /\ MaxScreens \in Int
      BY <1>1 DEF Screen
    <3> HIDE DEF o
    <3> QED BY <1>1, <3>1 DEF o
  <2>2. first' = offset(asked')
    BY <1>2
  <2>3. \A s \in first' .. MaxScreens - 1 :
           screen'[s] = [prompt |-> <<asked', s - first'>>,
                         value  |-> <<asked', s - first'>>]
    BY <1>2, <1>5, <2>1
  <2> QED BY <2>2, <2>3 DEF Shown, DisplaysTheRequest, offset
<1>8. Waited' /\ Armed'
  BY <1>2 DEF Waited, Armed, Serving
<1>9. Walked'
  <2>1. \A s \in offset(r) .. offset(r) : s = offset(r)
    BY <1>1 DEF Screen
  <2> QED BY <1>2, <2>1 DEF Walked
<1>10. Current'
  BY <1>2 DEF IndInv, Current
<1> QED BY <1>6, <1>7, <1>8, <1>9, <1>10 DEF IndInv

\* A button moves within the flow.
LEMMA Moves ==
    ASSUME IndInv, left \/ right PROVE IndInv'
<1>1. /\ UNCHANGED <<asked, ok_callback, cxl_callback, callbacks, screen, flow,
                     first, flash, idle_data, cut_off, answering, running,
                     replies>>
      /\ seen' = IF flow = "prompt" THEN seen \cup {step'} ELSE seen
      /\ step' \in {step - 1, step + 1} /\ step' \in first .. last_step
      /\ step' = step + 1 \/ step' < step
  <2>1. step \in first .. last_step /\ first \in Int /\ last_step \in Int
    BY DEF IndInv, TypeOK, Screen, last_step, Accept
  <2> QED BY <2>1 DEF left, right, nvram
<1>2. first \in Screen /\ step \in first .. last_step /\ seen \subseteq 0 .. Accept
  BY DEF IndInv, TypeOK
<1>3. last_step' = last_step
  BY <1>1 DEF last_step
<1>4. seen' \subseteq 0 .. Accept
  <2>1. CASE flow = "prompt"
    <3>1. step' \in 0 .. Accept
      BY <1>1, <1>2, <2>1 DEF last_step, Accept, Screen
    <3> QED BY <1>1, <1>2, <2>1, <3>1
  <2>2. CASE flow # "prompt"
    BY <1>1, <1>2, <2>2
  <2> QED BY <2>1, <2>2
<1>5. TypeOK'
  BY <1>1, <1>2, <1>3, <1>4 DEF IndInv, TypeOK
<1>6. Walked'
  <2> SUFFICES ASSUME flow = "prompt", NEW s \in first .. step'
               PROVE  s \in seen \cup {step'}
    BY <1>1 DEF Walked
  <2>1. first \in Int /\ step \in Int
    BY <1>2 DEF Screen
  <2>2. first .. step \subseteq seen
    BY DEF IndInv, Walked
  <2> QED BY <1>1, <2>1, <2>2
<1>7. Shown'
  BY <1>1 DEF IndInv, Shown, DisplaysTheRequest, offset
<1>8. Waited' /\ Armed' /\ Current'
  BY <1>1 DEF IndInv, Waited, Armed, Current
<1> QED BY <1>5, <1>6, <1>7, <1>8 DEF IndInv

LEMMA Steps == IndInv /\ [Next]_vars => IndInv'
<1> SUFFICES ASSUME IndInv, [Next]_vars PROVE IndInv'
  OBVIOUS
<1> USE Pieces
<1>0. Waited /\ Current
  BY DEF IndInv
<1>1. ASSUME NEW r \in Request, handler_throws(r) PROVE IndInv'
  <2>1. PICK k \in 1 .. Screens[r] : register_ui_callback(r, k)
    BY <1>1 DEF handler_throws
  <2>2. callbacks' \in [Screen -> Value \cup {NoValue}]
    BY <2>1, Registered DEF IndInv
  <2>3. /\ Serving
        /\ UNCHANGED <<asked, ok_callback, cxl_callback, screen, flow, first,
                       step, seen, flash, idle_data, cut_off, answering,
                       running, replies>>
    BY <1>1 DEF handler_throws, nvram
  <2> QED BY <1>0, <2>2, <2>3, Served DEF Current
<1>2. ASSUME NEW r \in Request, ui_prompt(r) PROVE IndInv'
  BY <1>2, Prompts
<1>3. ASSUME NEW r \in Request, ui_prompt_fails(r) PROVE IndInv'
  <2>1. PICK k \in Screen :
           /\ <<r, k>> \in Failing
           /\ screen' = [Filled(r, k, callbacks') EXCEPT ![offset(r) + k] =
                            [prompt |-> <<r, k>>, value |-> NoValue]]
    BY <1>3 DEF ui_prompt_fails
  <2>2. /\ Screens[r] \in 1 .. MaxScreens
        /\ \A i \in 0 .. Screens[r] - 1 : <<r, i>> \in Value
    BY Fits
  <2>3. k \in 1 .. Screens[r] - 1
    BY <2>1 DEF Value
  <2>4. Screens[r] \in 1 .. Screens[r] /\ k \in 0 .. Screens[r] /\ <<r, k>> \in Value
    BY <2>2, <2>3
  <2>5. /\ callbacks' \in [Screen -> Value \cup {NoValue}]
        /\ \A i \in 0 .. Screens[r] - 1 : callbacks'[i] = <<r, i>>
    BY <1>3, <2>4, Registered DEF ui_prompt_fails, IndInv
  <2>6. Filled(r, k, callbacks') \in Buffers
    BY <2>4, <2>5, FilledType DEF IndInv
  <2>7. screen' \in Buffers
    <3> DEFINE v == [prompt |-> <<r, k>>, value |-> NoValue]
    <3>1. v \in [prompt : Value \cup {NoValue}, value : Value \cup {NoValue}]
      BY <2>4
    <3>2. screen' = [Filled(r, k, callbacks') EXCEPT ![offset(r) + k] = v]
      BY <2>1
    <3> HIDE DEF v
    <3> QED BY <2>6, <3>1, <3>2 DEF Buffers
  <2>8. /\ Serving
        /\ UNCHANGED <<asked, ok_callback, cxl_callback, flow, first, step, seen,
                       flash, idle_data, cut_off, answering, running, replies>>
    BY <1>3 DEF ui_prompt_fails, nvram
  <2> QED BY <1>0, <2>5, <2>7, <2>8, Served DEF Current
<1>4. ASSUME NEW data \in Contents, handler_writes(data) PROVE IndInv'
  <2>1. /\ Serving /\ Writing(data)
        /\ UNCHANGED <<asked, ok_callback, cxl_callback, callbacks, screen, flow,
                       first, step, seen, answering, running, replies>>
    BY <1>4 DEF handler_writes, Writing, ui
  <2>2. flash' \in Contents /\ idle_data' \in Contents /\ cut_off' \in BOOLEAN
        /\ Current'
    BY <2>1, WriteShows
  <2> QED BY <2>1, <2>2, Served
<1>5. CASE left \/ right
  BY <1>5, Moves
<1>6. CASE exit_app \/ power_lost
  <2>1. /\ running' = FALSE /\ flash' \in Contents
        /\ UNCHANGED <<asked, ok_callback, cxl_callback, callbacks, screen, flow,
                       first, step, seen, idle_data, cut_off, answering, replies>>
    BY <1>6 DEF exit_app, power_lost, ui, nvram
  <2>2. TypeOK'
    BY <2>1 DEF IndInv, TypeOK, last_step
  <2>3. Shown' /\ Armed' /\ Current' /\ Waited' /\ Walked'
    BY <2>1 DEF IndInv, Shown, DisplaysTheRequest, Armed, Current, Waited, Walked
  <2> QED BY <2>2, <2>3 DEF IndInv
<1>7. ASSUME NEW accepted \in BOOLEAN, prompt_response(accepted) PROVE IndInv'
  <2>1. running /\ flow = "prompt" /\ ux_flow_init("idle", 0)
        /\ answering' = TRUE
        /\ UNCHANGED <<asked, ok_callback, cxl_callback, callbacks, screen, running>>
        /\ replies' = Append(replies, Callback(accepted))
    BY <1>7 DEF prompt_response, Pressed
  <2>2. flash' \in Contents /\ idle_data' = flash' /\ cut_off' = FALSE
    BY <1>7 DEF prompt_response, UPDATE_NVRAM
  <2>3. Callback(accepted) = asked
    BY <2>1 DEF IndInv, Armed, Callback
  <2>4. asked \in Request /\ replies = << >> /\ ~answering
    BY <1>0, <2>1 DEF Waited
  <2>5. replies' = <<asked>> /\ replies' \in Seq(Request \cup {NoRequest})
    BY <2>1, <2>3, <2>4
  <2>6. Waited' /\ Current'
    BY <2>1, <2>2, <2>4, <2>5 DEF Waited, Current, ux_flow_init
  <2> QED BY <2>1, <2>2, <2>5, <2>6, GoesIdle
<1>8. ASSUME NEW accepted \in BOOLEAN, response_fails(accepted) PROVE IndInv'
  <2>1. /\ ux_flow_init("idle", 0) /\ running' = FALSE /\ asked' = NoRequest
        /\ flash' \in Contents
        /\ UNCHANGED <<ok_callback, cxl_callback, callbacks, screen, idle_data,
                       cut_off, answering, replies>>
    BY <1>8 DEF response_fails
  <2>2. Waited' /\ Current'
    BY <1>0, <2>1 DEF Waited, Current
  <2> QED BY <2>1, <2>2, GoesIdle
<1>9. CASE reply_sent
  <2>1. /\ running /\ answering /\ answering' = FALSE /\ asked' = NoRequest
        /\ UNCHANGED <<ok_callback, cxl_callback, callbacks, screen, flow, first,
                       step, seen, flash, idle_data, cut_off, running, replies>>
    BY <1>9 DEF reply_sent, ui, nvram
  <2>2. flow = "idle"
    BY <1>0, <2>1 DEF IndInv, TypeOK, Waited
  <2>3. TypeOK'
    BY <2>1 DEF IndInv, TypeOK, last_step
  <2>4. Shown' /\ Armed' /\ Current' /\ Waited' /\ Walked'
    BY <1>0, <2>1, <2>2
    DEF Shown, DisplaysTheRequest, Armed, Current, Waited, Walked
  <2> QED BY <2>3, <2>4 DEF IndInv
<1>10. CASE io_reset
  <2>1. /\ ux_flow_init("idle", 0) /\ asked' = NoRequest /\ answering' = FALSE
        /\ idle_data' = flash /\ cut_off' = FALSE
        /\ UNCHANGED <<ok_callback, cxl_callback, callbacks, screen, flash,
                       running, replies>>
    BY <1>10 DEF io_reset, ui_initial_screen
  <2>2. Waited' /\ Current'
    BY <1>0, <2>1 DEF Waited, Current, ux_flow_init
  <2> QED BY <2>1, <2>2, GoesIdle
<1>11. CASE restart
  <2>1. /\ ux_flow_init("idle", 0) /\ asked' = NoRequest /\ answering' = FALSE
        /\ ok_callback' = NoRequest /\ cxl_callback' = NoRequest
        /\ idle_data' = flash /\ flash' = flash /\ running' = TRUE
        /\ replies' = << >> /\ cut_off' = FALSE
    BY <1>11 DEF restart, ui_initial_screen
  <2>2. callbacks' \in [Screen -> Value \cup {NoValue}] /\ screen' \in Buffers
    BY <1>11 DEF restart, Blank, Buffers
  <2>3. Waited' /\ Current'
    BY <2>1 DEF Waited, Current, ux_flow_init
  <2>4. replies' \in Seq(Request \cup {NoRequest})
    BY <2>1
  <2> QED BY <2>1, <2>2, <2>3, <2>4, GoesIdle
<1>12. CASE UNCHANGED vars
  <2>1. UNCHANGED <<asked, ok_callback, cxl_callback, callbacks, screen, flow,
                    first, step, seen, flash, idle_data, cut_off, answering,
                    running, replies>>
    BY <1>12 DEF vars, ui, nvram
  <2>2. TypeOK'
    BY <2>1 DEF IndInv, TypeOK, last_step
  <2>3. Shown' /\ Armed' /\ Current' /\ Waited' /\ Walked'
    BY <2>1 DEF IndInv, Shown, DisplaysTheRequest, Armed, Current, Waited,
       Walked, offset
  <2> QED BY <2>2, <2>3 DEF IndInv
<1>13. ASSUME NEW accepted \in BOOLEAN, host_callback(accepted) PROVE IndInv'
  <2>1. /\ Serving
        /\ UNCHANGED <<asked, ok_callback, cxl_callback, callbacks, screen, flow,
                       first, step, seen, running, replies>>
    BY <1>13 DEF host_callback, ui
  <2>2. /\ answering' \in BOOLEAN
        /\ (\E data \in Contents : Writing(data)) \/ UNCHANGED nvram
    BY <1>13 DEF host_callback, Writing
  <2>3. /\ flash' \in Contents /\ idle_data' \in Contents /\ cut_off' \in BOOLEAN
        /\ Current'
    <3>1. CASE \E data \in Contents : Writing(data)
      BY <2>1, <3>1, WriteShows
    <3>2. CASE UNCHANGED nvram
      BY <1>0, <2>1, <3>2 DEF nvram, Current
    <3> QED BY <2>2, <3>1, <3>2
  <2> QED BY <2>1, <2>2, <2>3, Served
<1> QED
  BY <1>1, <1>2, <1>3, <1>4, <1>5, <1>6, <1>7, <1>8, <1>9, <1>10, <1>11, <1>12,
     <1>13, Zenon DEF Next

\* A prompt is on display exactly while its host waits, with its own
\* callbacks, screens and steps.
THEOREM Inductive == Spec => []IndInv
BY Starts, Steps, PTL DEF Spec

-----------------------------------------------------------------------------
(* The properties.                                                         *)

\* Every variable keeps its type; step stays within the flow on display.
THEOREM Typing == Spec => []TypeOK
<1>1. IndInv => TypeOK
  BY DEF IndInv
<1> QED BY <1>1, Inductive, PTL

\* What is left in the buffers never shows: each label has its own value.
THEOREM PromptsShowTheirOwn == Spec => []DisplaysTheRequest
<1>1. IndInv => DisplaysTheRequest
  BY DEF IndInv, Shown
<1> QED BY <1>1, Inductive, PTL

\* By the buttons, Accept lies behind every screen of the request.
THEOREM ButtonsPassEveryScreen == Spec => []AcceptedAfterAllScreens
<1>1. IndInv => AcceptedAfterAllScreens
  <2> SUFFICES ASSUME IndInv, running, flow = "prompt", step = Accept
               PROVE  MaxScreens - Screens[asked] .. Reject \subseteq seen
    BY DEF AcceptedAfterAllScreens
  <2>1. first = MaxScreens - Screens[asked] /\ first .. Accept \subseteq seen
    BY DEF IndInv, Shown, DisplaysTheRequest, Walked, offset
  <2>2. first \in Int /\ Accept = Reject + 1 /\ Reject \in Int
    BY DEF IndInv, TypeOK, Screen, Accept, Reject
  <2>3. first .. Reject \subseteq first .. Accept
    BY <2>2
  <2> QED BY <2>1, <2>3
<1> QED BY <1>1, Inductive, PTL

\* The buttons give a prompt one answer, from its own callback, and a prompt is
\* on display exactly while its host waits: what a host runs by INS 0x10 and
\* 0x11, it runs with no prompt open.
THEOREM ButtonsEndPromptsOnce == Spec => []ButtonsAnswerOnce
<1>1. IndInv => ButtonsAnswerOnce
  BY DEF IndInv, Waited, ButtonsAnswerOnce
<1> QED BY <1>1, Inductive, PTL

\* The idle screens say what is in flash, unless they could not be computed.
THEOREM IdleIsCurrent == Spec => []IdleShowsFlash
<1>1. IndInv => IdleShowsFlash
  BY DEF IndInv, Current, IdleShowsFlash
<1> QED BY <1>1, Inductive, PTL

=============================================================================
