------------------------------ MODULE PromptUi ------------------------------
(***************************************************************************)
(* Prompts on the Nano S (src/ui_nano_s.c, Baking app): a handler that     *)
(* needs the user registers one value callback per screen and calls        *)
(* ui_prompt, which arms two buttons and leaves by ASYNC_EXCEPTION.  From  *)
(* then on the prompt lives in io_event: every ticker shows the next       *)
(* screen, button presses run the callbacks, and after PROMPT_CYCLES       *)
(* rounds the ticker presses the cancel button itself.                     *)
(*                                                                         *)
(* A request stands for the instruction that asks; screen i of request r   *)
(* has the value <<r, i>>.  Callbacks are named by the request they answer.*)
(* Between requests the device shows its idle screens with the same        *)
(* ticker, the same counters and the same buttons.                         *)
(***************************************************************************)
EXTENDS Integers

CONSTANTS
    Request,        \* the instructions that ask the user
    NoRequest,      \* nothing is asked
    Screens,        \* the number of labels of each request's prompt
    Failing,        \* values whose string callback may throw
    MaxScreens,     \* MAX_SCREEN_COUNT
    PROMPT_CYCLES,  \* rounds shown before a prompt times out
    IdleScreens     \* the pages of the idle display

Screen == 0 .. MaxScreens - 1
Value == Request \X Screen

ASSUME RequestAssumption == NoRequest \notin Request
ASSUME ScreensAssumption ==
    /\ MaxScreens \in Nat \ {0} /\ IdleScreens \in Nat \ {0}
    /\ PROMPT_CYCLES \in Nat \ {0}
    /\ Screens \in [Request -> 1 .. MaxScreens]

\* The first screen of every prompt is a constant string or a number, which
\* always fit: ui_prompt itself does not throw.
ASSUME FailingAssumption ==
    Failing \subseteq {v \in Value : v[2] \in 1 .. Screens[v[1]] - 1}

VARIABLES
    asked,                \* the request a host waits on, or NoRequest
    ok_callback,          \* right button; NoRequest is do_nothing
    cxl_callback,         \* left button; NoRequest is exit_app
    callbacks,            \* registered value callbacks, or NoValue
    elements,             \* the screen layout on display
    active_value,         \* the string in the prompt's layout
    ux_step, ux_step_count, timeout_cycle_count,
    running,              \* FALSE once the app has ended
    displays              \* auxiliary: how often each screen of the prompt
                          \* has been put on display

shown == <<elements, active_value, ux_step, displays>>
vars == <<asked, ok_callback, cxl_callback, callbacks, shown, ux_step_count,
          timeout_cycle_count, running>>

NoValue == <<NoRequest, 0>>
NoCallbacks == [i \in Screen |-> NoValue]
NeverShown == [i \in Screen |-> 0]

is_idling == cxl_callback = NoRequest

-----------------------------------------------------------------------------

\* Wrong variants (..._wrongly_...) are slips of the definition that follows
\* them; only the mutation of a run uses them.

display_wrongly_keeping_step(elems, ok_c, cxl_c, step_count) ==
    /\ elements' = elems
    /\ ok_callback' = ok_c
    /\ cxl_callback' = cxl_c
    /\ ux_step' = ux_step
    /\ ux_step_count' = step_count
    /\ timeout_cycle_count' = 0

display_wrongly_keeping_count(elems, ok_c, cxl_c, step_count) ==
    /\ elements' = elems
    /\ ok_callback' = ok_c
    /\ cxl_callback' = cxl_c
    /\ ux_step' = 0
    /\ ux_step_count' = step_count
    /\ UNCHANGED timeout_cycle_count

\* What ui_display assigns, but for the first value it puts on display.
ui_display(elems, ok_c, cxl_c, step_count) ==
    /\ elements' = elems
    /\ ok_callback' = ok_c
    /\ cxl_callback' = cxl_c
    /\ ux_step' = 0
    /\ ux_step_count' = step_count
    /\ timeout_cycle_count' = 0

idle_wrongly_keeping_callbacks ==
    /\ callbacks' = callbacks
    /\ ui_display("idle", NoRequest, NoRequest, IdleScreens)
    /\ displays' = NeverShown
    /\ UNCHANGED active_value

\* clear_ui_callbacks and ui_idle.
ui_initial_screen ==
    /\ callbacks' = NoCallbacks
    /\ ui_display("idle", NoRequest, NoRequest, IdleScreens)
    /\ displays' = NeverShown
    /\ UNCHANGED active_value

Init ==
    /\ asked = NoRequest
    /\ ok_callback = NoRequest /\ cxl_callback = NoRequest
    /\ callbacks = NoCallbacks
    /\ elements = "idle" /\ active_value = NoValue
    /\ ux_step = 0 /\ ux_step_count = IdleScreens /\ timeout_cycle_count = 0
    /\ running = TRUE
    /\ displays = NeverShown

\* A handler: register_ui_callback for each label, then ui_prompt.  The
\* transport brings no APDU while an answer is owed.
ui_prompt(r) ==
    /\ running /\ asked = NoRequest
    /\ asked' = r
    /\ callbacks' = [i \in Screen |->
                        IF i < Screens[r] THEN <<r, i>> ELSE callbacks[i]]
    /\ ui_display("multi", r, r, Screens[r])
    /\ active_value' = callbacks'[0]
    /\ displays' = [NeverShown EXCEPT ![0] = 1]
    /\ UNCHANGED running

\* An exception in a callback or a ticker event is thrown where nothing but
\* main catches it, and main powers off.
uncaught ==
    /\ running' = FALSE
    /\ asked' = NoRequest
    /\ UNCHANGED <<ok_callback, cxl_callback, callbacks, shown, ux_step_count,
                   timeout_cycle_count>>

\* A prompt's callback has sent the answer and returned true.
answered ==
    /\ asked' = NoRequest
    /\ ui_initial_screen
    /\ UNCHANGED running

-----------------------------------------------------------------------------
(* button_handler.  At idle the right button does nothing.                 *)

press_left ==
    /\ running
    /\ IF is_idling THEN uncaught       \* exit_app
                    ELSE answered

press_right ==
    /\ running
    /\ ok_callback # NoRequest
    /\ answered \/ uncaught

-----------------------------------------------------------------------------
(* io_event, ticker, when the interval of the screen on display is over.   *)

next_step == (ux_step + 1) % ux_step_count

cycle_count == IF next_step = 0 THEN timeout_cycle_count + 1
                                ELSE timeout_cycle_count

times_out_wrongly_early == cycle_count = PROMPT_CYCLES - 1

timed_out == cycle_count = PROMPT_CYCLES

idle_tick_wrongly_counting ==
    /\ is_idling
    /\ timeout_cycle_count < 2 * PROMPT_CYCLES
    /\ ux_step' = next_step
    /\ timeout_cycle_count' = cycle_count
    /\ UNCHANGED <<asked, ok_callback, cxl_callback, callbacks, elements,
                   active_value, ux_step_count, running, displays>>

idle_tick ==
    /\ is_idling
    /\ ux_step' = next_step
    /\ timeout_cycle_count' = IF timed_out THEN 0 ELSE cycle_count
    /\ UNCHANGED <<asked, ok_callback, cxl_callback, callbacks, elements,
                   active_value, ux_step_count, running, displays>>

\* switch_screen: a callback that is missing or fails throws.
screen_fails == callbacks[next_step] \in Failing \cup {NoValue}

prompt_tick ==
    /\ ~is_idling /\ ~timed_out
    /\ callbacks[next_step] # NoValue
    /\ ux_step' = next_step
    /\ active_value' = callbacks[next_step]
    /\ timeout_cycle_count' = cycle_count
    /\ displays' = [displays EXCEPT ![next_step] = @ + 1]
    /\ UNCHANGED <<asked, ok_callback, cxl_callback, callbacks, elements,
                   ux_step_count, running>>

prompt_wrongly_restarted ==
    /\ ~is_idling /\ timed_out
    /\ ux_step' = next_step
    /\ timeout_cycle_count' = 0
    /\ active_value' = callbacks[next_step]
    /\ displays' = [NeverShown EXCEPT ![0] = 1]
    /\ UNCHANGED <<asked, ok_callback, cxl_callback, callbacks, elements,
                   ux_step_count, running>>

prompt_timeout ==
    /\ ~is_idling /\ timed_out
    /\ callbacks[next_step] # NoValue
    /\ answered

tick_throws == ~is_idling /\ screen_fails /\ uncaught

ticker == running /\ (idle_tick \/ prompt_tick \/ prompt_timeout \/ tick_throws)

-----------------------------------------------------------------------------

\* EXCEPTION_IO_RESET: main starts over with the initial screen.
io_reset ==
    /\ running
    /\ asked' = NoRequest
    /\ ui_initial_screen
    /\ UNCHANGED running

restart ==
    /\ ~running
    /\ running' = TRUE
    /\ callbacks' = NoCallbacks
    /\ ui_display("idle", NoRequest, NoRequest, IdleScreens)
    /\ active_value' = NoValue
    /\ displays' = NeverShown
    /\ UNCHANGED asked

Next ==
    \/ \E r \in Request : ui_prompt(r)
    \/ press_left \/ press_right
    \/ ticker
    \/ io_reset \/ restart

\* The ticker is a hardware event every 100 ms, and prepro arms an interval
\* for whatever is on display; the user, the hosts and main owe nothing.
Spec == Init /\ [][Next]_vars
FairSpec == Spec /\ WF_vars(ticker)

-----------------------------------------------------------------------------
(* Properties.                                                             *)

\* Every variable keeps its type, and ux_step names a page of the display.
TypeOK ==
    /\ asked \in Request \cup {NoRequest}
    /\ ok_callback \in Request \cup {NoRequest}
    /\ cxl_callback \in Request \cup {NoRequest}
    /\ callbacks \in [Screen -> Value \cup {NoValue}]
    /\ elements \in {"idle", "multi"}
    /\ active_value \in Value \cup {NoValue}
    /\ ux_step_count \in Nat \ {0}
    /\ ux_step \in 0 .. ux_step_count - 1
    /\ timeout_cycle_count \in 0 .. PROMPT_CYCLES - 1
    /\ running \in BOOLEAN
    /\ displays \in [Screen -> 0 .. PROMPT_CYCLES]

\* The buttons answer the request a host waits on while a screen of that very
\* request is on display, and at no other time: an early or a late press,
\* a press after a time-out or a reset never answers anything else.
ButtonsAnswerWhatIsShown ==
    running =>
        /\ ok_callback = asked /\ cxl_callback = asked
        /\ asked = NoRequest <=> elements = "idle"
        /\ asked # NoRequest => active_value = <<asked, ux_step>>

\* No value callback outlives its prompt: a prompt that failed to register a
\* screen would stop instead of showing an older request's value.
NoCallbackOutlivesItsPrompt ==
    running => \A i \in Screen :
        callbacks[i] # NoValue => asked # NoRequest /\ callbacks[i] = <<asked, i>>

\* The screens of a prompt are shown in turn: up to the present one as often
\* as rounds have begun, the later ones once less.
ShownInTurn ==
    running /\ asked # NoRequest =>
        /\ ux_step_count = Screens[asked]
        /\ \A i \in 0 .. Screens[asked] - 1 :
              displays[i] = timeout_cycle_count + (IF i <= ux_step THEN 1 ELSE 0)

\* The ticker rejects a request only after the user has had every one of its
\* screens PROMPT_CYCLES times.
TimesOutOnlyWhenShown ==
    [][ticker /\ asked # NoRequest /\ asked' = NoRequest /\ running'
       => \A i \in 0 .. Screens[asked] - 1 : displays[i] = PROMPT_CYCLES]_vars

\* A host waiting on a prompt is not kept waiting for ever: answered, timed
\* out or cut off, each prompt ends even if nobody touches the device.
EveryPromptEnds == \A r \in Request : asked = r ~> asked # r

=============================================================================
