----------------------------- MODULE FsmScreen -----------------------------
(***************************************************************************)
(* What the LCD shows while the machine of FsmCalm runs: the drawings of   *)
(* its actions (fsm.c, lcd_manager.c), and the timer that brings the       *)
(* waiting screen back FSM_IDLE_SCREEN_DELAY_MS after a flow.              *)
(*                                                                         *)
(* lcd_set_screen_text sets the four labels under the mutex of lcd_port,   *)
(* so a drawing is one step.  The callback of the timer is two: it looks   *)
(* at current_state, then draws, and in between it may wait for the mutex  *)
(* or be preempted by FSM_TASK, which has its priority.  The timer daemon  *)
(* runs one callback at a time.                                            *)
(*                                                                         *)
(* A screen is its title and what it says of a product: id, stock, amount. *)
(***************************************************************************)
EXTENDS FsmCalm

VARIABLES
  screen,       \* the text of the labels
  idleTimer,    \* s_idle_screen_timer as the last command left it
  idleCallback, \* "none", "due" after the expiry, "checked" before it draws
  overtaken     \* history: the machine drew its last screen while the callback
                \* was "checked" and could still draw over it

screenVars == <<screen, idleTimer, idleCallback, overtaken>>

Titles == {"waiting", "product", "added", "cancelled", "error"}
Text(title) == [title |-> title, id |-> NoId, stock |-> 0, amount |-> 0]

\* lcd_show_product, lcd_show_added: the primed values are those of the action
\* that draws.
ProductText == [title |-> "product", id |-> product'.id,
                stock |-> product'.stock, amount |-> quantity']
AddedText   == [title |-> "added", id |-> product'.id,
                stock |-> product'.stock, amount |-> 0]

\* The screens each drawing action may leave.  save_to_local_buffer only logs its
\* success (there is no callback display_message), and shows an error when it
\* stored nothing or could not save it.
DrawsProduct == {"prompt_add_product", "prompt_quantity_selection",
                 "increment_quantity", "decrement_quantity"}
DrawsError   == {"handle_scan_invalid", "handle_product_not_found"}
Draws == DrawsProduct \cup DrawsError
           \cup {"display_updated_product", "cancel_add_product", "save_to_local_buffer"}

Drawn(act) ==
  CASE act \in DrawsProduct              -> {ProductText}
    [] act = "display_updated_product"   -> {AddedText}
    [] act = "cancel_add_product"        -> {Text("cancelled")}
    [] act \in DrawsError                -> {Text("error")}
    [] act = "save_to_local_buffer"      ->
         {Text("error")} \cup IF valid THEN {screen} ELSE {}

\* The step runs an action of the machine.
RunsAction == action # "receive" /\ action' # action

Draw ==
  IF RunsAction /\ action \in Draws
  THEN screen' \in Drawn(action) /\ overtaken' = (idleCallback = "checked")
  ELSE UNCHANGED <<screen, overtaken>>

\* Mutant: only return_to_idle called by itself schedules the waiting screen.
SchedulesIdleScreen_Once == RunsAction /\ action = "return_to_idle"

\* return_to_idle, alone or at the end of another action.
SchedulesIdleScreen ==
  RunsAction /\ action \in {"return_to_idle", "cancel_add_product",
                            "handle_mqtt_publish_success"}

\* handle_qr_scan, and fsm_on_qr_detected and fsm_on_qr_invalid of any caller.
CancelsIdleScreen ==
  \/ RunsAction /\ action = "handle_qr_scan"
  \/ \E c \in Callers : call[c] = "clear" /\ call'[c] = "fill"

CommandIdleTimer ==
  idleTimer' = IF SchedulesIdleScreen THEN "armed"
               ELSE IF CancelsIdleScreen THEN "off" ELSE idleTimer

\* What a step of the machine or of another task does to the screen.  The daemon
\* does not run timeout_timer_callback inside idle_screen_timer_callback.
ScreenFollows ==
  /\ Draw /\ CommandIdleTimer /\ UNCHANGED idleCallback
  /\ idleCallback = "checked" => ~(firing /\ ~firing')

IdleTimerExpires ==
  /\ idleTimer = "armed" /\ idleCallback = "none"
  /\ idleTimer' = "off" /\ idleCallback' = "due"
  /\ UNCHANGED <<vars, screen, overtaken>>

\* Mutant: the callback does not look at current_state.
IdleCallbackChecks_Never ==
  /\ idleCallback = "due"
  /\ idleCallback' = "checked"
  /\ UNCHANGED <<vars, screen, idleTimer, overtaken>>

\* idle_screen_timer_callback.
IdleCallbackChecks ==
  /\ idleCallback = "due"
  /\ idleCallback' = IF state = "IDLE" THEN "checked" ELSE "none"
  /\ UNCHANGED <<vars, screen, idleTimer, overtaken>>

IdleCallbackDraws ==
  /\ idleCallback = "checked" /\ idleCallback' = "none"
  /\ screen' = Text("waiting")
  /\ UNCHANGED <<vars, idleTimer, overtaken>>

IdleScreen == IdleTimerExpires \/ IdleCallbackChecks \/ IdleCallbackDraws

-----------------------------------------------------------------------------
\* lcd_manager_init shows the waiting screen.
ScreenInit ==
  /\ Init
  /\ screen = Text("waiting") /\ idleTimer = "off" /\ idleCallback = "none"
  /\ overtaken = FALSE

ScreenNext ==
  \/ CalmNext /\ ScreenFollows
  \/ IdleScreen

ScreenSpec == ScreenInit /\ [][ScreenNext]_<<vars, screenVars>>

ScreenUnhurriedNext ==
  \/ UnhurriedNext /\ ScreenFollows
  \/ IdleScreen

\* The daemon runs its callbacks to their end, and timers expire.
ScreenUnhurriedSpec ==
  /\ ScreenInit /\ [][ScreenUnhurriedNext]_<<vars, screenVars>>
  /\ Fairness
  /\ WF_<<vars, screenVars>>(IdleScreen)

-----------------------------------------------------------------------------
\* The operator decides on what the screen shows: in the states that wait for a
\* button it shows the product of the flow, with the stock product_db holds and
\* the amount that will be added, however late the timer of the flow before
\* fires; only a drawing that overtakes its callback can be painted over.
ScreenAgrees ==
  action = "receive" /\ ~overtaken =>
    /\ state \in {"PROMPT_ADD_PRODUCT", "QUANTITY_SELECTION"} =>
         screen = [title |-> "product", id |-> product.id,
                   stock |-> stock[product.id], amount |-> quantity]
    /\ state = "DISPLAY_PRODUCT_INFO" =>
         screen = [title |-> "added", id |-> product.id,
                   stock |-> stock[product.id], amount |-> 0]
    /\ state = "ERROR_DISPLAY" => screen = Text("error")

\* An idle machine does not go on showing the end of the last flow: the waiting
\* screen comes back, or the machine is taken up by the next scan.
WaitingComesBack ==
  state = "IDLE" ~> screen = Text("waiting") \/ state # "IDLE"
=============================================================================
