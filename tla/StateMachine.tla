---------------------------- MODULE StateMachine ----------------------------
(***************************************************************************)
(* The display's state machine (display/state.py): what a list of events   *)
(* makes of the screen, its banner and its notification.  A time "until"   *)
(* is kept as what is left of it, and of the notification's there is one   *)
(* more, 0 when there is none.  Payloads and recent trades, which no       *)
(* transition looks at, are left out.                                      *)
(***************************************************************************)
EXTENDS Integers, SequencesExt

CONSTANTS
  WakeFor,    \* TRADE_WAKE_DURATION_SECONDS
  NoticeFor   \* NOTIFICATION_DURATION_SECONDS

ASSUME DurationsAssumption == WakeFor \in Nat \ {0} /\ NoticeFor \in Nat \ {0}

Screens == {"idle", "wifi_setup", "awaiting_activation", "trade_wake"}

\* The events somebody publishes and the machine looks at, and one it ignores.
EventType == {"wifi_onboarding_started", "wifi_connected", "awaiting_activation",
              "device_activated", "trade_executed", "update_available",
              "update_applied", "notification", "signal_generated"}

Machines == [screen : Screens, banner : BOOLEAN, wake : 0..WakeFor, notice : 0..(NoticeFor + 1)]

Blank == [screen |-> "idle", banner |-> FALSE, wake |-> 0, notice |-> 0]

\* _BANNER_SET_EVENTS and _BANNER_CLEAR_EVENTS; update_available is the one
\* banner with a publisher.
Banner(m, e) ==
  CASE e = "update_available" -> TRUE
    [] e = "update_applied"   -> FALSE
    [] OTHER                  -> m.banner

\* Mutant: an event that may clear a banner drives no screen change.
ShadowedScreen(m, e) ==
  CASE e = "wifi_onboarding_started" -> "wifi_setup"
    [] e = "awaiting_activation"     -> "awaiting_activation"
    [] e = "trade_executed"          -> "trade_wake"
    [] e = "device_activated" /\ m.screen = "awaiting_activation" -> "idle"
    [] OTHER                         -> m.screen

Screen(m, e) ==
  CASE e = "wifi_onboarding_started" -> "wifi_setup"
    [] e = "awaiting_activation"     -> "awaiting_activation"
    [] e = "trade_executed"          -> "trade_wake"
    [] e = "wifi_connected" /\ m.screen = "wifi_setup" -> "idle"
    [] e = "device_activated" /\ m.screen = "awaiting_activation" -> "idle"
    [] OTHER                         -> m.screen

\* One turn of advance's loop.
Apply(m, e) ==
  [screen |-> Screen(m, e),
   banner |-> Banner(m, e),
   wake   |-> IF e = "trade_executed" THEN WakeFor ELSE m.wake,
   notice |-> IF e = "notification" THEN NoticeFor + 1 ELSE m.notice]

\* What has run out; advance looks after the events.
Expire(m) ==
  [m EXCEPT !.screen = IF @ = "trade_wake" /\ m.wake = 0 THEN "idle" ELSE @,
            !.notice = IF @ = 1 THEN 0 ELSE @]

Advance(m, events) == Expire(FoldLeft(Apply, m, events))

\* Time goes by.
Later(m) == [m EXCEPT !.wake = IF @ = 0 THEN 0 ELSE @ - 1,
                      !.notice = IF @ <= 1 THEN @ ELSE @ - 1]

\* top_banner: what the strip shows.
TopBanner(m) ==
  CASE m.banner -> "update_available" [] m.notice > 0 -> "notification" [] OTHER -> "none"

=============================================================================
