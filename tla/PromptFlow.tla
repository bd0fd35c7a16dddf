----------------------------- MODULE PromptFlow -----------------------------
(***************************************************************************)
(* Prompts and idle screens on the Nano X (src/ui_nano_x.c, src/ui_common.c, *)
(* src/boot.c, the idle screens of src/globals.c; Baking app).  Unlike the *)
(* Nano S, ui_prompt calls every value callback at once and copies the     *)
(* results into an array of screens, filled from its end; the prompt is a  *)
(* linear flow over that end, then Reject and Accept.  Neither the         *)
(* callbacks nor the screens are ever cleared, and nothing times out.  A   *)
(* callback runs after the idle flow is back, and its reply is sent by a   *)
(* nested io_exchange, in which buttons and resets are still served.       *)
(*                                                                         *)
(* A prompt's callbacks have a second caller: main_loop bounds INS by the  *)
(* size of the handler table in bytes, 64, not by its 16 entries, and what *)
(* lies behind the table is ok_callback (INS 0x10) and cxl_callback (0x11). *)
(* A host that sends them runs the last prompt's callbacks, shown or not,  *)
(* as often as it likes.                                                   *)
(*                                                                         *)
(* A request stands for the instruction that asks; its screen i has the    *)
(* label and the value <<r, i>>.  Callbacks are named by the request they  *)
(* answer.  Flash is one value out of Contents.  The pages of one screen   *)
(* are the SDK's and left out.                                             *)
(***************************************************************************)
EXTENDS Integers, Sequences

CONSTANTS
    Request,     \* the instructions that ask the user
    NoRequest,   \* nothing is asked
    Screens,     \* the number of labels of each request's prompt
    Failing,     \* values whose string callback may throw
    Writes,      \* the requests that, accepted, write flash
    Contents,    \* what flash may hold
    MaxScreens,  \* MAX_SCREEN_COUNT, 7
    IdleSteps    \* steps of ux_idle_flow, 3: the last one quits

Screen == 0 .. MaxScreens - 1
Value == Request \X Screen
Reject == MaxScreens
Accept == MaxScreens + 1

ASSUME RequestAssumption == NoRequest \notin Request /\ Writes \subseteq Request
ASSUME ScreensAssumption ==
    /\ MaxScreens \in Nat \ {0} /\ IdleSteps \in Nat \ {0}
    /\ Screens \in [Request -> 1 .. MaxScreens]

\* The first screen of every prompt is a constant string or a number.
ASSUME FailingAssumption ==
    Failing \subseteq {v \in Value : v[2] \in 1 .. Screens[v[1]] - 1}

VARIABLES
    asked,         \* the request a host waits on, or NoRequest
    ok_callback,   \* NoRequest until the first prompt
    cxl_callback,
    callbacks,     \* registered value callbacks, or NoValue
    screen,        \* the screen buffers: [prompt, value]
    flow,          \* the flow on display: "idle" or "prompt"
    first,         \* where in its array the flow begins
    step,          \* where in its array the flow is
    flash,         \* N_data
    idle_data,     \* baking_idle_screens
    answering,     \* a callback is sending its reply
    running,       \* FALSE once the app has ended
    seen,          \* auxiliary: the screens of the prompt displayed so far
    replies,       \* auxiliary: the requests whose callbacks the buttons have
                   \* run since the last prompt began
    cut_off        \* auxiliary: the last write could not redraw idle_data

ui == <<ok_callback, cxl_callback, callbacks, screen, flow, first, step, seen>>
nvram == <<flash, idle_data, cut_off>>
vars == <<asked, ui, nvram, answering, running, replies>>

NoValue == <<NoRequest, 0>>
Blank == [prompt |-> NoValue, value |-> NoValue]

-----------------------------------------------------------------------------

\* Wrong variants (..._wrongly_...) are slips of the definition that follows
\* them; only the mutation of a run uses them.

offset_wrongly_zero(r) == 0

\* The buffers of a prompt are the last ones.
offset(r) == MaxScreens - Screens[r]

\* ux_flow_init at a step of a flow's array.
ux_flow_init(name, at) ==
    /\ flow' = name
    /\ first' = at
    /\ step' = at
    /\ seen' = IF name = "prompt" THEN {at} ELSE {}

ui_initial_screen ==
    /\ idle_data' = flash /\ cut_off' = FALSE
    /\ ux_flow_init("idle", 0)

\* init_globals and the first ui_initial_screen.
Init ==
    /\ asked = NoRequest
    /\ ok_callback = NoRequest /\ cxl_callback = NoRequest
    /\ callbacks = [i \in Screen |-> NoValue]
    /\ screen = [s \in Screen |-> Blank]
    /\ flow = "idle" /\ first = 0 /\ step = 0
    /\ flash \in Contents /\ idle_data = flash
    /\ answering = FALSE /\ running = TRUE
    /\ seen = {} /\ replies = << >> /\ cut_off = FALSE

\* main_loop has an APDU to process: the last reply is out.
Serving == running /\ asked = NoRequest /\ ~answering

\* register_ui_callback for the screens of r up to the k-th.
register_ui_callback(r, k) ==
    callbacks' = [i \in Screen |-> IF i < k THEN <<r, i>> ELSE callbacks[i]]

\* A handler that registers callbacks and then fails, or leaves them behind
\* for the prompt it falls back to: wallet_sign_complete does both.
handler_throws(r) ==
    /\ Serving
    /\ \E k \in 1 .. Screens[r] : register_ui_callback(r, k)
    /\ UNCHANGED <<asked, ok_callback, cxl_callback, screen, flow, first, step,
                   seen, nvram, answering, running, replies>>

\* What the loop of ui_prompt leaves after the k-th screen of r, where shown
\* says which callback gives the value of its i-th screen.
Filled(r, k, shown) ==
    [s \in Screen |->
        IF s \in offset(r) .. offset(r) + k - 1
        THEN [prompt |-> <<r, s - offset(r)>>, value |-> shown[s - offset(r)]]
        ELSE screen[s]]

ui_prompt(r) ==
    /\ Serving
    /\ register_ui_callback(r, Screens[r])
    /\ screen' = Filled(r, Screens[r], callbacks')
    /\ asked' = r
    /\ ok_callback' = r /\ cxl_callback' = r
    /\ ux_flow_init("prompt", offset(r))
    /\ replies' = << >>
    /\ UNCHANGED <<nvram, answering, running>>

\* A string callback throws: main_loop replies with the error.
ui_prompt_fails(r) ==
    /\ Serving
    /\ register_ui_callback(r, Screens[r])
    /\ \E k \in Screen :
          /\ <<r, k>> \in Failing
          /\ screen' = [Filled(r, k, callbacks') EXCEPT ![offset(r) + k] =
                           [prompt |-> <<r, k>>, value |-> NoValue]]
    /\ UNCHANGED <<asked, ok_callback, cxl_callback, flow, first, step, seen,
                   nvram, answering, running, replies>>

\* UPDATE_NVRAM ends with update_baking_idle_screens, which redraws the
\* current step: only its strings change.
update_wrongly_unshown(data) ==
    /\ flash' = data /\ cut_off' = FALSE
    /\ UNCHANGED idle_data

UPDATE_NVRAM(data) ==
    /\ flash' = data
    /\ idle_data' = data /\ cut_off' = FALSE

\* The key derivation of the idle screens throws: flash is written, and the
\* strings are not all replaced.  main_loop catches it and serves on.
UPDATE_NVRAM_fails(data) ==
    /\ flash' = data
    /\ cut_off' = TRUE
    /\ UNCHANGED idle_data

\* A handler that writes without asking: a signed block, a deauthorisation.
handler_writes(data) ==
    /\ Serving
    /\ UPDATE_NVRAM(data) \/ UPDATE_NVRAM_fails(data)
    /\ UNCHANGED <<asked, ui, answering, running, replies>>

-----------------------------------------------------------------------------
(* Buttons: the SDK walks the flow, without wrapping around.               *)

last_step == IF flow = "idle" THEN IdleSteps - 1 ELSE Accept

left_wrongly_looping ==
    /\ running
    /\ step' = IF step > first THEN step - 1 ELSE last_step
    /\ seen' = IF flow = "prompt" THEN seen \cup {step'} ELSE seen
    /\ UNCHANGED <<asked, ok_callback, cxl_callback, callbacks, screen, flow,
                   first, nvram, answering, running, replies>>

left ==
    /\ running
    /\ step > first
    /\ step' = step - 1
    /\ seen' = IF flow = "prompt" THEN seen \cup {step'} ELSE seen
    /\ UNCHANGED <<asked, ok_callback, cxl_callback, callbacks, screen, flow,
                   first, nvram, answering, running, replies>>

right ==
    /\ running
    /\ step < last_step
    /\ step' = step + 1
    /\ seen' = IF flow = "prompt" THEN seen \cup {step'} ELSE seen
    /\ UNCHANGED <<asked, ok_callback, cxl_callback, callbacks, screen, flow,
                   first, nvram, answering, running, replies>>

\* The last step of the idle flow is Quit.
exit_app ==
    /\ running
    /\ flow = "idle" /\ step = last_step
    /\ running' = FALSE
    /\ UNCHANGED <<asked, ui, nvram, answering, replies>>

Pressed(accepted) ==
    /\ running
    /\ flow = "prompt"
    /\ step = IF accepted THEN Accept ELSE Reject

Callback(accepted) == IF accepted THEN ok_callback ELSE cxl_callback

response_wrongly_before_idle(accepted) ==
    /\ Pressed(accepted) /\ Len(replies) < 2
    /\ UNCHANGED <<asked, ui, nvram, running>>
    /\ answering' = TRUE
    /\ replies' = Append(replies, Callback(accepted))

\* The idle flow first, then the callback, which may write flash and starts
\* to send its reply.
prompt_response(accepted) ==
    /\ Pressed(accepted)
    /\ ux_flow_init("idle", 0)
    /\ IF accepted /\ Callback(accepted) \in Writes
       THEN \E data \in Contents : UPDATE_NVRAM(data)
       ELSE idle_data' = flash /\ cut_off' = FALSE /\ UNCHANGED flash
    /\ answering' = TRUE
    /\ replies' = Append(replies, Callback(accepted))
    /\ UNCHANGED <<asked, ok_callback, cxl_callback, callbacks, screen, running>>

\* The key derivation of the idle screen or of the callback throws, before or
\* after the write: nothing but main catches it, and main powers off.
response_fails(accepted) ==
    /\ Pressed(accepted)
    /\ ux_flow_init("idle", 0)
    /\ running' = FALSE
    /\ IF accepted /\ Callback(accepted) \in Writes
       THEN flash' \in Contents ELSE UNCHANGED flash
    /\ asked' = NoRequest
    /\ UNCHANGED <<ok_callback, cxl_callback, callbacks, screen, idle_data,
                   cut_off, answering, replies>>

\* INS 0x10 and 0x11: main_loop calls ok_callback or cxl_callback as the
\* handler.  No prompt is open and none is asked for; the callback replies as
\* it does for a button, and a second reply follows for its result.  One that
\* throws before it writes changes nothing; before the first prompt the call
\* goes to address 0 and the app ends (power_lost).
host_callback(accepted) ==
    /\ Serving
    /\ Callback(accepted) # NoRequest
    /\ IF accepted /\ Callback(accepted) \in Writes
       THEN \E data \in Contents :
              \/ UPDATE_NVRAM(data) /\ answering' = TRUE
              \/ UPDATE_NVRAM_fails(data) /\ UNCHANGED answering
       ELSE answering' = TRUE /\ UNCHANGED nvram
    /\ UNCHANGED <<asked, ui, running, replies>>

\* The nested io_exchange of delayed_send returns.
reply_sent ==
    /\ running /\ answering
    /\ answering' = FALSE
    /\ asked' = NoRequest
    /\ UNCHANGED <<ui, nvram, running, replies>>

-----------------------------------------------------------------------------

\* EXCEPTION_IO_RESET, in a nested exchange too: main starts over with the
\* initial screen and keeps the globals.
io_reset ==
    /\ running
    /\ asked' = NoRequest /\ answering' = FALSE
    /\ ui_initial_screen
    /\ UNCHANGED <<ok_callback, cxl_callback, callbacks, screen, flash, running,
                   replies>>

\* Power may be lost at any time, between nvm_write and the idle screens too.
power_lost ==
    /\ running
    /\ running' = FALSE
    /\ flash' \in IF Serving THEN Contents ELSE {flash}
    /\ UNCHANGED <<asked, ui, idle_data, cut_off, answering, replies>>

restart ==
    /\ ~running
    /\ running' = TRUE
    /\ asked' = NoRequest /\ answering' = FALSE
    /\ ok_callback' = NoRequest /\ cxl_callback' = NoRequest
    /\ callbacks' = [i \in Screen |-> NoValue]
    /\ screen' = [s \in Screen |-> Blank]
    /\ ui_initial_screen
    /\ replies' = << >>
    /\ UNCHANGED flash

Next ==
    \/ \E r \in Request : handler_throws(r) \/ ui_prompt(r) \/ ui_prompt_fails(r)
    \/ \E data \in Contents : handler_writes(data)
    \/ left \/ right \/ exit_app
    \/ \E accepted \in BOOLEAN :
          \/ prompt_response(accepted) \/ response_fails(accepted)
          \/ host_callback(accepted)
    \/ reply_sent
    \/ io_reset \/ power_lost \/ restart

Spec == Init /\ [][Next]_vars

-----------------------------------------------------------------------------
(* Properties.                                                             *)

\* Every variable keeps its type, and step names a step of the flow.
TypeOK ==
    /\ asked \in Request \cup {NoRequest}
    /\ ok_callback \in Request \cup {NoRequest}
    /\ cxl_callback \in Request \cup {NoRequest}
    /\ callbacks \in [Screen -> Value \cup {NoValue}]
    /\ screen \in [Screen -> [prompt : Value \cup {NoValue},
                              value : Value \cup {NoValue}]]
    /\ flow \in {"idle", "prompt"}
    /\ first \in Screen /\ step \in first .. last_step
    /\ flash \in Contents /\ idle_data \in Contents
    /\ answering \in BOOLEAN /\ running \in BOOLEAN /\ cut_off \in BOOLEAN
    /\ seen \subseteq 0 .. Accept
    /\ replies \in Seq(Request \cup {NoRequest})

\* Whatever earlier prompts, failed prompts and half-registered callbacks have
\* left in the buffers that nobody clears, a prompt shows each label of the
\* request a host waits on with that label's own value, and nothing else.
DisplaysTheRequest ==
    running /\ flow = "prompt" =>
        /\ first = offset(asked)
        /\ \A s \in first .. MaxScreens - 1 :
              LET own == <<asked, s - first>>
              IN  screen[s] = [prompt |-> own, value |-> own]

\* Who accepts by the buttons has seen all that is asked: Accept is reached
\* only past every screen of the request and Reject.  (A host that runs the
\* callback by INS 0x10 needs no prompt and shows nothing.)
AcceptedAfterAllScreens ==
    running /\ flow = "prompt" /\ step = Accept =>
        MaxScreens - Screens[asked] .. Reject \subseteq seen

\* The buttons answer a prompt once and by a callback of its own: a second
\* press while the reply is being sent, or after a reset took the prompt away,
\* meets the idle flow.  A prompt is on display exactly while its host waits,
\* so the host cannot run the callbacks by INS 0x10 and 0x11 while it is; after
\* the answer, or after a reset, it can run them again without end.
ButtonsAnswerOnce ==
    /\ Len(replies) <= 1
    /\ asked # NoRequest => replies \in {<< >>, <<asked>>}
    /\ running => (flow = "prompt" <=> asked # NoRequest /\ ~answering)

\* The idle screens the user can look at tell what flash holds, whoever wrote
\* it and wherever a write was cut off by the end of the app; after a write
\* whose strings could not be computed, from the next write, answer or reset on.
IdleShowsFlash == running /\ flow = "idle" /\ ~cut_off => idle_data = flash

=============================================================================
