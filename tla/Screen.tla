------------------------------- MODULE Screen -------------------------------
(***************************************************************************)
(* The screen of a device and those who write to it through device_event:  *)
(* the agent that takes a customer's Wi-Fi password (device_agent), the    *)
(* worker that waits for its activation and trades, and the updater.  The  *)
(* display polls the queue, advances its state machine, marks each event   *)
(* consumed in a transaction of its own, and renders.  Consumed rows are   *)
(* never read again, so the queue holds the unconsumed ones.               *)
(*                                                                         *)
(* Each call is a step; a process may be killed between any two, and       *)
(* systemd starts it again, with nothing of its memory.                    *)
(***************************************************************************)
EXTENDS StateMachine

CONSTANTS
  Limit,      \* list_unconsumed(limit=100)
  MaxQueue,   \* bound on unconsumed events
  MaxFaults,  \* bound on kills, lost Wi-Fi and disconnections
  MaxNews,    \* bound on trades, updates and notifications
  MaxTries    \* bound on submitted passwords

ASSUME ScreenAssumption ==
  /\ Limit \in Nat \ {0} /\ MaxQueue \in Nat \ {0}
  /\ MaxFaults \in Nat /\ MaxNews \in Nat /\ MaxTries \in Nat

VARIABLES
  queue,      \* unconsumed events, and whether a display applied each (observation)
  dpc,        \* the display's next call
  machine,    \* its StateMachine
  left,       \* events of its list still to be marked
  shown,      \* screen and banner last rendered
  apc,        \* the agent's next call
  wifi,       \* "none", "ap" (the hotspot) or "home"
  posted,     \* SetupServer's queue of submissions, each right or wrong
  activated,  \* monstra.pro says this device is activated
  known,      \* device.activated_at is set
  wpc,        \* "wait" in _wait_for_activation, "paired" after it, or "trade"
  faults, news, tries

display == <<dpc, machine, left, shown>>
agent == <<apc, wifi, posted, tries>>
worker == <<activated, known, wpc>>
vars == <<queue, display, agent, worker, faults, news>>

Fault == faults < MaxFaults /\ faults' = faults + 1

\* DeviceEventRepository.publish.
Publish(e) == Len(queue) < MaxQueue /\ queue' = Append(queue, [type |-> e, seen |-> FALSE])

TypeOK ==
  /\ queue \in Seq([type : EventType, seen : BOOLEAN])
  /\ dpc \in {"down", "poll", "mark", "render"}
  /\ machine \in Machines
  /\ left \in 0..Limit /\ left <= Len(queue)
  /\ shown \in [screen : Screens, strip : {"update_available", "notification", "none"}]
  /\ apc \in {"off", "serving", "announcing", "waiting", "joined", "stopping", "done"}
  /\ wifi \in {"none", "ap", "home"}
  /\ posted \in Seq(BOOLEAN)
  /\ activated \in BOOLEAN /\ known \in BOOLEAN
  /\ wpc \in {"wait", "paired", "trade"}
  /\ faults \in 0..MaxFaults /\ news \in 0..MaxNews /\ tries \in 0..MaxTries

Init ==
  /\ queue = <<>>
  /\ dpc = "down" /\ machine = Blank /\ left = 0
  /\ shown = [screen |-> "idle", strip |-> "none"]
  /\ apc = "off" /\ wifi \in {"none", "home"} /\ posted = <<>>
  /\ activated \in BOOLEAN /\ known = FALSE /\ wpc = "wait"
  /\ faults = 0 /\ news = 0 /\ tries = 0

-----------------------------------------------------------------------------
(* The display. *)

StartDisplay ==
  /\ dpc = "down"
  /\ dpc' = "poll" /\ machine' = Blank /\ left' = 0
  /\ UNCHANGED <<queue, shown, agent, worker, faults, news>>

\* Mutant: the queue is read without a limit.
NoLimit(q) == q

\* list_unconsumed.
Listed(q) == SubSeq(q, 1, IF Len(q) < Limit THEN Len(q) ELSE Limit)

\* Mutant: the list is marked first; the machine is to be advanced after that.
MarkFirst ==
  /\ dpc = "poll"
  /\ left' = Len(Listed(queue))
  /\ dpc' = "mark"
  /\ UNCHANGED <<queue, machine, shown, agent, worker, faults, news>>

Poll ==
  /\ dpc = "poll"
  /\ LET listed == Listed(queue)
     IN /\ machine' = Advance(machine, [i \in DOMAIN listed |-> listed[i].type])
        /\ left' = Len(listed)
        /\ queue' = [i \in DOMAIN queue |-> IF i <= Len(listed) THEN [queue[i] EXCEPT !.seen = TRUE]
                                            ELSE queue[i]]
  /\ dpc' = "mark"
  /\ UNCHANGED <<shown, agent, worker, faults, news>>

\* mark_consumed, one event at a time.
Mark ==
  /\ dpc = "mark" /\ left > 0
  /\ queue' = Tail(queue)
  /\ left' = left - 1
  /\ UNCHANGED <<dpc, machine, shown, agent, worker, faults, news>>

Render ==
  /\ dpc = "mark" /\ left = 0
  /\ dpc' = "poll"
  /\ shown' = [screen |-> machine.screen, strip |-> TopBanner(machine)]
  /\ UNCHANGED <<queue, machine, left, agent, worker, faults, news>>

\* The display dies; what it rendered last stays in the frame buffer.
DisplayDies ==
  /\ dpc # "down"
  /\ Fault
  /\ dpc' = "down" /\ left' = 0
  /\ UNCHANGED <<queue, machine, shown, agent, worker, news>>

-----------------------------------------------------------------------------
(* The agent. *)

\* has_usable_connection: any wifi device that is connected.
Usable == wifi # "none"

\* main and the start of run_onboarding, which check twice.
StartAgent ==
  /\ apc = "off"
  /\ apc' = IF Usable THEN "done" ELSE "serving"
  /\ posted' = <<>>
  /\ UNCHANGED <<queue, display, wifi, worker, faults, news, tries>>

StartHotspot ==
  /\ apc = "serving"
  /\ IF Usable THEN apc' = "done" /\ wifi' = wifi
     ELSE apc' = "announcing" /\ wifi' = "ap"
  /\ UNCHANGED <<queue, display, posted, worker, faults, news, tries>>

AnnounceSetup ==
  /\ apc = "announcing"
  /\ Publish("wifi_onboarding_started")
  /\ apc' = "waiting"
  /\ UNCHANGED <<display, wifi, posted, worker, faults, news, tries>>

\* The customer (external) posts the form, with a right or a wrong password.
Post(right) ==
  /\ apc \in {"announcing", "waiting"} /\ wifi = "ap"
  /\ tries < MaxTries
  /\ tries' = tries + 1
  /\ posted' = Append(posted, right)
  /\ UNCHANGED <<queue, display, apc, wifi, worker, faults, news>>

\* connect_and_save: after a failure NetworkManager brings the hotspot back,
\* or not.
Join ==
  /\ apc = "waiting" /\ posted # <<>>
  /\ posted' = Tail(posted)
  /\ IF Head(posted) THEN apc' = "joined" /\ wifi' = "home"
     ELSE apc' = "waiting" /\ wifi' \in {"ap", "none"}
  /\ UNCHANGED <<queue, display, worker, faults, news, tries>>

\* nmcli answers too late: the exception stops the hotspot and the process.
JoinTimesOut ==
  /\ apc = "waiting" /\ posted # <<>>
  /\ apc' = "off" /\ wifi' = "none" /\ posted' = <<>>
  /\ UNCHANGED <<queue, display, worker, faults, news, tries>>

AnnounceJoined ==
  /\ apc = "joined"
  /\ Publish("wifi_connected")
  /\ apc' = "stopping"
  /\ UNCHANGED <<display, wifi, posted, worker, faults, news, tries>>

StopHotspot ==
  /\ apc = "stopping"
  /\ apc' = "done"
  /\ wifi' = IF wifi = "ap" THEN "none" ELSE wifi
  /\ UNCHANGED <<queue, display, posted, worker, faults, news, tries>>

\* Killed where no finally runs; systemd starts it again.
AgentDies ==
  /\ apc \notin {"off", "done"}
  /\ Fault
  /\ apc' = "off"
  /\ UNCHANGED <<queue, display, wifi, posted, worker, news, tries>>

\* The power goes: what was saved is joined again at the next boot, if it is
\* in range, and every process starts anew.
Reboot ==
  /\ Fault
  /\ dpc' = "down" /\ left' = 0
  /\ apc' = "off" /\ wifi' \in {"none", "home"}
  /\ wpc' = "wait"
  /\ UNCHANGED <<queue, machine, shown, posted, activated, known, news, tries>>

-----------------------------------------------------------------------------
(* The worker, and the owner's website (external). *)

Activate ==
  /\ ~activated /\ activated' = TRUE
  /\ UNCHANGED <<queue, display, agent, known, wpc, faults, news>>

Disconnect ==
  /\ activated /\ activated' = FALSE
  /\ Fault
  /\ UNCHANGED <<queue, display, agent, known, wpc, news>>

\* check_status: without an answer from monstra.pro, what is known stands.
Answer == IF wifi = "home" THEN activated ELSE known

\* Mutant: announced on entry, and not again.
AwaitOnce ==
  /\ wpc = "wait" /\ ~Answer
  /\ Publish("awaiting_activation")
  /\ known' = FALSE /\ wpc' = "silent"
  /\ UNCHANGED <<display, agent, activated, faults, news>>

\* A turn of _wait_for_activation.
AwaitActivation ==
  /\ wpc = "wait" /\ ~Answer
  /\ Publish("awaiting_activation")
  /\ known' = FALSE
  /\ UNCHANGED <<display, agent, activated, wpc, faults, news>>

\* The wait ends, and main publishes what it was told.
HearActivated ==
  /\ wpc = "wait" /\ Answer
  /\ known' = TRUE /\ wpc' = "paired"
  /\ UNCHANGED <<queue, display, agent, activated, faults, news>>

AnnounceActivated ==
  /\ wpc = "paired"
  /\ Publish("device_activated")
  /\ wpc' = "trade"
  /\ UNCHANGED <<display, agent, activated, known, faults, news>>

\* A tick of _run_trading_loop that is told of a disconnection.
HearDisconnected ==
  /\ wpc = "trade" /\ ~Answer
  /\ known' = FALSE /\ wpc' = "wait"
  /\ UNCHANGED <<queue, display, agent, activated, faults, news>>

Trade ==
  /\ wpc = "trade" /\ wifi = "home"
  /\ news < MaxNews /\ news' = news + 1
  /\ \E e \in {"signal_generated", "trade_executed"} : Publish(e)
  /\ UNCHANGED <<display, agent, worker, faults>>

\* The updater's announcements, whatever state the device is in.
Update ==
  /\ wifi = "home"
  /\ news < MaxNews /\ news' = news + 1
  /\ \E e \in {"update_available", "update_applied", "notification"} : Publish(e)
  /\ UNCHANGED <<display, agent, worker, faults>>

\* The clock (external).
Tick ==
  /\ Later(machine) # machine
  /\ machine' = Later(machine)
  /\ UNCHANGED <<queue, dpc, left, shown, agent, worker, faults, news>>

Display == StartDisplay \/ Poll \/ Mark \/ Render
Agent == StartAgent \/ StartHotspot \/ AnnounceSetup \/ Join \/ AnnounceJoined \/ StopHotspot
Worker == AwaitActivation \/ HearActivated \/ AnnounceActivated \/ HearDisconnected

Next ==
  \/ StartDisplay \/ Poll \/ Mark \/ Render \/ DisplayDies
  \/ StartAgent \/ StartHotspot \/ AnnounceSetup \/ Join \/ AnnounceJoined \/ StopHotspot
  \/ \E right \in BOOLEAN : Post(right)
  \/ JoinTimesOut \/ AgentDies \/ Reboot
  \/ Activate \/ Disconnect
  \/ AwaitActivation \/ HearActivated \/ AnnounceActivated \/ HearDisconnected
  \/ Trade \/ Update \/ Tick

\* systemd keeps the three processes running, and the clock runs.
Fairness == WF_vars(Display) /\ WF_vars(Agent) /\ WF_vars(Worker) /\ WF_vars(Tick)

Spec == Init /\ [][Next]_vars /\ Fairness

-----------------------------------------------------------------------------
\* Action property: a row leaves the queue only after a state machine was
\* advanced over it, however the display was killed in between.
NothingUnseen == [][Len(queue') < Len(queue) => Head(queue).seen]_vars

\* Liveness: as long as the device knows of no activation, the pairing screen
\* comes back again and again, whichever process restarts, whatever else is
\* published, and though each event is consumed for good; once the worker has
\* told of the activation and trades on, that screen is gone for good.
PairingScreenReturns == <>[]~known => []<>(shown.screen = "awaiting_activation")
PairingScreenEnds == <>[](wpc = "trade") => <>[](shown.screen # "awaiting_activation")
PairingScreenFollows == PairingScreenReturns /\ PairingScreenEnds

\* Liveness: once the agent has told that the Wi-Fi was joined, the setup
\* screen ends, unless the next boot finds no Wi-Fi.
SetupScreenEnds ==
  apc = "stopping" ~> shown.screen # "wifi_setup" \/ apc \in {"serving", "announcing", "waiting"}

\* Liveness the code violates: an agent that waits for a password keeps the
\* screen that tells the customer where to enter it.
SetupScreenStays == <>[](apc = "waiting") => <>[](shown.screen = "wifi_setup")

=============================================================================
