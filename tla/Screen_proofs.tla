---------------------------- MODULE Screen_proofs ----------------------------
(***************************************************************************)
(* No event leaves the queue unseen, for any limit of the list, any number *)
(* of events, deaths and restarts; and every variable keeps its type.      *)
(***************************************************************************)
EXTENDS Screen, FoldLemmas, TLAPS

Row == [type : EventType, seen : BOOLEAN]

\* What the display has still to mark is at the head of the queue, and seen.
MarkInv ==
  /\ queue \in Seq(Row)
  /\ left \in Nat /\ left <= Len(queue)
  /\ \A i \in 1..left : queue[i].seen = TRUE
  /\ dpc = "poll" => left = 0

\* A step of anyone else leaves queue and display alone.
LEMMA OthersKeep ==
  ASSUME MarkInv, UNCHANGED <<queue, display>>
  PROVE  MarkInv' /\ Len(queue') >= Len(queue)
  BY DEF MarkInv, display

LEMMA PollKeeps ==
  ASSUME MarkInv, Poll
  PROVE  MarkInv' /\ Len(queue') >= Len(queue)
<1> DEFINE n == Len(Listed(queue))
<1>1. Len(queue) \in Nat /\ n \in Nat /\ n <= Len(queue)
  BY ScreenAssumption DEF Listed, MarkInv
<1>2. left' = n /\ dpc' = "mark"
  BY DEF Poll
<1>3. queue' = [i \in DOMAIN queue |-> IF i <= n THEN [queue[i] EXCEPT !.seen = TRUE] ELSE queue[i]]
  BY DEF Poll
<1> HIDE DEF n
<1>4. \A r \in Row : [r EXCEPT !.seen = TRUE] \in Row /\ [r EXCEPT !.seen = TRUE].seen = TRUE
  BY DEF Row
<1>5. DOMAIN queue = 1..Len(queue) /\ \A i \in 1..Len(queue) : queue[i] \in Row
  BY DEF MarkInv
<1> HIDE DEF Row
<1>6. queue' \in [1..Len(queue) -> Row]
  BY <1>3, <1>4, <1>5
<1>7. queue' \in Seq(Row) /\ Len(queue') = Len(queue)
  BY <1>1, <1>6
<1>8. \A i \in 1..n : queue'[i].seen = TRUE
  BY <1>1, <1>3, <1>4, <1>5
<1> QED
  BY <1>1, <1>2, <1>7, <1>8 DEF MarkInv

LEMMA MarkKeeps ==
  ASSUME MarkInv, Mark
  PROVE  MarkInv' /\ Head(queue).seen
<1>1. queue' = Tail(queue) /\ left' = left - 1 /\ left > 0 /\ dpc' = dpc /\ dpc = "mark"
  BY DEF Mark
<1> HIDE DEF Row
<1>2. queue # <<>> /\ Len(queue) \in Nat /\ Len(queue) >= 1
  BY <1>1 DEF MarkInv
<1>3. queue' \in Seq(Row) /\ Len(queue') = Len(queue) - 1
  BY <1>1, <1>2 DEF MarkInv
<1>4. \A i \in 1..(left - 1) : queue'[i] = queue[i + 1]
  BY <1>1, <1>2 DEF MarkInv
<1>5. \A i \in 1..(left - 1) : queue'[i].seen = TRUE
  BY <1>4 DEF MarkInv
<1>6. Head(queue) = queue[1] /\ 1 \in 1..left
  BY <1>1, <1>2 DEF MarkInv
<1>7. Head(queue).seen = TRUE
  BY <1>6 DEF MarkInv
<1> QED
  BY <1>1, <1>3, <1>5, <1>7 DEF MarkInv

\* A dead display has nothing left to mark.
LEMMA DownKeeps ==
  ASSUME MarkInv, queue' = queue, left' = 0, dpc' \in {"down", "poll"}
  PROVE  MarkInv' /\ Len(queue') >= Len(queue)
<1> HIDE DEF Row
<1>1. Len(queue) \in Nat
  BY DEF MarkInv
<1> QED
  BY <1>1 DEF MarkInv

\* The publishers, one after the other.
LEMMA PublishersKeep ==
  ASSUME MarkInv,
         AnnounceSetup \/ AnnounceJoined \/ AwaitActivation \/ AnnounceActivated \/ Trade \/ Update
  PROVE  MarkInv' /\ Len(queue') >= Len(queue)
<1>1. UNCHANGED display
  BY DEF AnnounceSetup, AnnounceJoined, AwaitActivation, AnnounceActivated, Trade, Update
<1>2. \E e \in EventType : Publish(e)
  <2>1. CASE AnnounceSetup      BY <2>1 DEF AnnounceSetup, EventType
  <2>2. CASE AnnounceJoined     BY <2>2 DEF AnnounceJoined, EventType
  <2>3. CASE AwaitActivation    BY <2>3 DEF AwaitActivation, EventType
  <2>4. CASE AnnounceActivated  BY <2>4 DEF AnnounceActivated, EventType
  <2>5. CASE Trade              BY <2>5 DEF Trade, EventType
  <2>6. CASE Update             BY <2>6 DEF Update, EventType
  <2> QED  BY <2>1, <2>2, <2>3, <2>4, <2>5, <2>6
<1>3. PICK e \in EventType : queue' = Append(queue, [type |-> e, seen |-> FALSE])
  BY <1>2 DEF Publish
<1> DEFINE s == [type |-> e, seen |-> FALSE]
<1>4. s \in Row /\ queue' = Append(queue, s)
  BY <1>3 DEF Row
<1> HIDE DEF s
<1> HIDE DEF Row
<1>5. queue' \in Seq(Row) /\ Len(queue') = Len(queue) + 1
  BY <1>4 DEF MarkInv
<1>6. \A i \in 1..Len(queue) : queue'[i] = queue[i]
  BY <1>4 DEF MarkInv
<1> QED
  BY <1>1, <1>5, <1>6 DEF MarkInv, display

LEMMA StepKeeps ==
  ASSUME MarkInv, [Next]_vars
  PROVE  MarkInv' /\ (Len(queue') < Len(queue) => Head(queue).seen)
<1>1. MarkInv' => Len(queue') \in Nat /\ Len(queue) \in Nat
  BY DEF MarkInv
<1>2. CASE StartDisplay
  BY <1>1, <1>2, DownKeeps DEF StartDisplay
<1>3. CASE Poll
  BY <1>1, <1>3, PollKeeps
<1>4. CASE Mark
  BY <1>4, MarkKeeps
<1>5. CASE Render
  BY <1>1, <1>5, DownKeeps DEF Render
<1>6. CASE DisplayDies \/ Reboot
  BY <1>1, <1>6, DownKeeps DEF DisplayDies, Reboot
<1>7. CASE Tick
  BY <1>7 DEF Tick, MarkInv
<1>8. CASE AnnounceSetup \/ AnnounceJoined \/ AwaitActivation \/ AnnounceActivated \/ Trade \/ Update
  BY <1>1, <1>8, PublishersKeep
<1>9. CASE \/ StartAgent \/ StartHotspot \/ Join \/ JoinTimesOut \/ StopHotspot \/ AgentDies
           \/ \E right \in BOOLEAN : Post(right)
           \/ Activate \/ Disconnect \/ HearActivated \/ HearDisconnected
           \/ UNCHANGED vars
  <2>1. UNCHANGED <<queue, display>>
    BY <1>9 DEF StartAgent, StartHotspot, Join, JoinTimesOut, StopHotspot, AgentDies, Post,
                Activate, Disconnect, HearActivated, HearDisconnected, vars
  <2> QED  BY <1>1, <2>1, OthersKeep
<1> QED
  BY <1>2, <1>3, <1>4, <1>5, <1>6, <1>7, <1>8, <1>9 DEF Next

\* The head of the queue is marked only once a state machine was advanced over
\* it: consuming an event (display/main.py) never loses one unseen.
THEOREM NothingLostUnseen == Spec => NothingUnseen
<1>1. Init => MarkInv
  BY DEF Init, MarkInv
<1>2. MarkInv /\ [Next]_vars => MarkInv' /\ [Len(queue') < Len(queue) => Head(queue).seen]_vars
  BY StepKeeps
<1> QED
  BY <1>1, <1>2, PTL DEF Spec, NothingUnseen

-----------------------------------------------------------------------------
(* Advancing the machine over a list of events.                            *)

Advancing(m, seq, g) ==
  g = [s \in SUBSET (DOMAIN seq) |->
         IF s = {} THEN m ELSE Apply(g[s \ {Max(s)}], seq[Max(s)])]

LEMMA FoldExpanded ==
  ASSUME NEW m, NEW seq
  PROVE  FoldLeft(Apply, m, seq) = (CHOOSE g : Advancing(m, seq, g))[DOMAIN seq]
BY Zenon DEF FoldLeft, MapThenFoldSet, Advancing

LEMMA ApplyTyped ==
  ASSUME NEW m \in Machines, NEW e
  PROVE  Apply(m, e) \in Machines
<1>1. Screen(m, e) \in Screens
  BY DEF Screen, Machines, Screens
<1>2. Banner(m, e) \in BOOLEAN
  BY DEF Banner, Machines
<1>3. (IF e = "trade_executed" THEN WakeFor ELSE m.wake) \in 0..WakeFor
  BY DurationsAssumption DEF Machines
<1>4. (IF e = "notification" THEN NoticeFor + 1 ELSE m.notice) \in 0..(NoticeFor + 1)
  BY DurationsAssumption DEF Machines
<1> QED
  BY <1>1, <1>2, <1>3, <1>4 DEF Apply, Machines

LEMMA RecordKept ==
  ASSUME NEW A, NEW B, NEW C, NEW D, NEW r \in [screen : A, banner : B, wake : C, notice : D],
         NEW a \in A, NEW c \in C, NEW d \in D
  PROVE  /\ [r EXCEPT !.screen = a, !.notice = d] \in [screen : A, banner : B, wake : C, notice : D]
         /\ [r EXCEPT !.wake = c, !.notice = d] \in [screen : A, banner : B, wake : C, notice : D]
OBVIOUS

LEMMA ExpireTyped ==
  ASSUME NEW m \in Machines
  PROVE  Expire(m) \in Machines /\ Later(m) \in Machines
<1>1. m.wake \in 0..WakeFor /\ m.notice \in 0..(NoticeFor + 1) /\ m.screen \in Screens
  BY DEF Machines
<1>2. PICK a, c, d, e : /\ a = IF m.screen = "trade_wake" /\ m.wake = 0 THEN "idle" ELSE m.screen
                        /\ c = IF m.wake = 0 THEN 0 ELSE m.wake - 1
                        /\ d = IF m.notice = 1 THEN 0 ELSE m.notice
                        /\ e = IF m.notice <= 1 THEN m.notice ELSE m.notice - 1
  OBVIOUS
<1>3. a \in Screens
  BY <1>1, <1>2 DEF Screens
<1>4. c \in 0..WakeFor /\ d \in 0..(NoticeFor + 1) /\ e \in 0..(NoticeFor + 1)
  BY <1>1, <1>2, DurationsAssumption
<1>5. Expire(m) = [m EXCEPT !.screen = a, !.notice = d]
  BY <1>2 DEF Expire
<1>6. Later(m) = [m EXCEPT !.wake = c, !.notice = e]
  BY <1>2 DEF Later
<1>7. [m EXCEPT !.screen = a, !.notice = d] \in Machines
  BY <1>3, <1>4, RecordKept DEF Machines
<1>8. [m EXCEPT !.wake = c, !.notice = e] \in Machines
  BY <1>4, RecordKept DEF Machines
<1> QED
  BY <1>5, <1>6, <1>7, <1>8

\* Whatever a list of events holds, advancing over it gives a machine.
LEMMA AdvanceTyped ==
  ASSUME NEW m \in Machines, NEW events, NEW I, DOMAIN events = I,
         IsFiniteSet(I), \A x \in I : x \in Int
  PROVE  Advance(m, events) \in Machines
<1>1. PICK V : V = Machines
  OBVIOUS
<1>2. \A v \in V : \A e : Apply(v, e) \in V
  BY <1>1, ApplyTyped
<1>3. m \in V
  BY <1>1
<1>4. PICK step : step = [p \in I \X V |-> Apply(p[2], events[p[1]])]
  OBVIOUS
<1>5. step \in [I \X V -> V]
  BY <1>2, <1>4
<1>6. PICK g : GoesThrough(g, I, V, m, step)
  BY ONLY IsFiniteSet(I), \A x \in I : x \in Int, <1>3, <1>5, SequenceFoldExists
<1>7. ASSUME NEW s \in SUBSET I, s # {} PROVE Max(s) \in s
  <2>1. IsFiniteSet(s) /\ \A x \in s : x \in Int
    BY FS_Subset
  <2> QED
    BY <1>7, <2>1, MaxInSet
<1>8. ASSUME NEW s \in SUBSET I, s # {}
      PROVE  step[<<Max(s), g[s \ {Max(s)}]>>] = Apply(g[s \ {Max(s)}], events[Max(s)])
  <2>1. Max(s) \in I /\ g[s \ {Max(s)}] \in V
    BY <1>6, <1>7, <1>8 DEF GoesThrough
  <2> QED
    BY <1>4, <2>1
<1>9. Advancing(m, events, g)
  <2>1. \A s \in SUBSET I : g[s] = IF s = {} THEN m ELSE Apply(g[s \ {Max(s)}], events[Max(s)])
    BY <1>6, <1>8 DEF GoesThrough
  <2>2. g = [s \in SUBSET I |-> g[s]]
    BY <1>6 DEF GoesThrough
  <2> QED
    BY <2>1, <2>2 DEF Advancing
<1>10. PICK h : h = CHOOSE f : Advancing(m, events, f)
  OBVIOUS
<1>11. Advancing(m, events, h)
  BY <1>9, <1>10
<1>12. PICK Bad : Bad = {s \in SUBSET I : h[s] \notin V}
  OBVIOUS
<1>13. Bad = {}
  <2>1. SUFFICES ASSUME Bad # {} PROVE FALSE
    OBVIOUS
  <2>2. Bad \in SUBSET SUBSET I
    BY <1>12
  <2>3. PICK s \in Bad : \A r \in Bad : r \subseteq s => r = s
    BY <2>1, <2>2, SmallestSubset
  <2>4. s \in SUBSET I /\ h[s] \notin V
    BY <1>12
  <2>5. h[s] = IF s = {} THEN m ELSE Apply(h[s \ {Max(s)}], events[Max(s)])
    BY <1>11, <2>4 DEF Advancing
  <2>6. s # {}
    BY <1>3, <2>4, <2>5
  <2>7. PICK r : r = s \ {Max(s)}
    OBVIOUS
  <2>8. r \in SUBSET I /\ r \subseteq s /\ r # s
    BY <1>7, <2>4, <2>6, <2>7
  <2>9. h[r] \in V
    BY <1>12, <2>3, <2>8
  <2> QED
    BY <1>2, <2>4, <2>5, <2>6, <2>7, <2>9
<1>14. FoldLeft(Apply, m, events) = h[I]
  BY <1>10, FoldExpanded
<1>15. FoldLeft(Apply, m, events) \in V
  BY <1>12, <1>13, <1>14
<1> QED
  BY <1>1, <1>15, ExpireTyped DEF Advance

-----------------------------------------------------------------------------
(* The types, one process after the other.                                 *)

DisplayTyped ==
  /\ queue \in Seq(Row)
  /\ dpc \in {"down", "poll", "mark", "render"}
  /\ machine \in Machines
  /\ left \in 0..Limit /\ left <= Len(queue)
  /\ shown \in [screen : Screens, strip : {"update_available", "notification", "none"}]

AgentTyped ==
  /\ apc \in {"off", "serving", "announcing", "waiting", "joined", "stopping", "done"}
  /\ wifi \in {"none", "ap", "home"}
  /\ posted \in Seq(BOOLEAN)
  /\ tries \in 0..MaxTries

WorkerTyped ==
  /\ activated \in BOOLEAN /\ known \in BOOLEAN
  /\ wpc \in {"wait", "paired", "trade"}
  /\ faults \in 0..MaxFaults /\ news \in 0..MaxNews

LEMMA TypedParts == TypeOK <=> DisplayTyped /\ AgentTyped /\ WorkerTyped
BY DEF TypeOK, DisplayTyped, AgentTyped, WorkerTyped, Row

LEMMA TypedInit == Init => DisplayTyped /\ AgentTyped /\ WorkerTyped
<1> SUFFICES ASSUME Init PROVE DisplayTyped /\ AgentTyped /\ WorkerTyped
  OBVIOUS
<1>1. Blank \in Machines
  BY DurationsAssumption DEF Blank, Machines, Screens
<1>2. DisplayTyped
  <2>1. left \in 0..Limit /\ left <= Len(queue) /\ queue \in Seq(Row)
    BY ScreenAssumption DEF Init
  <2> QED
    BY <1>1, <2>1 DEF Init, DisplayTyped, Screens
<1>3. AgentTyped
  <2>1. posted \in Seq(BOOLEAN)
    <3>1. posted = <<>>
      BY DEF Init
    <3> QED
      BY ONLY <3>1, EmptySeq
  <2> QED
    BY <2>1, ScreenAssumption DEF Init, AgentTyped
<1>4. WorkerTyped
  <2>1. activated \in BOOLEAN /\ known \in BOOLEAN
    BY Zenon DEF Init
  <2>2. wpc = "wait" /\ faults \in 0..MaxFaults /\ news \in 0..MaxNews
    BY ScreenAssumption DEF Init
  <2> QED
    BY <2>1, <2>2 DEF WorkerTyped
<1> QED
  BY <1>2, <1>3, <1>4

LEMMA PollTyped ==
  ASSUME DisplayTyped, Poll
  PROVE  DisplayTyped'
<1>1. PICK n : n = Len(Listed(queue))
  OBVIOUS
<1>2. Len(queue) \in Nat /\ n \in 0..Limit /\ n <= Len(queue) /\ DOMAIN Listed(queue) = 1..n
  BY <1>1, ScreenAssumption DEF Listed, DisplayTyped
<1>3. queue' = [i \in DOMAIN queue |-> IF i <= n THEN [queue[i] EXCEPT !.seen = TRUE] ELSE queue[i]]
  BY <1>1 DEF Poll
<1>4. queue' \in Seq(Row) /\ Len(queue') = Len(queue)
  <2>1. \A r \in Row : [r EXCEPT !.seen = TRUE] \in Row
    BY DEF Row
  <2>2. DOMAIN queue = 1..Len(queue) /\ \A i \in 1..Len(queue) : queue[i] \in Row
    BY DEF DisplayTyped
  <2> HIDE DEF Row
  <2>3. queue' \in [1..Len(queue) -> Row]
    BY <1>3, <2>1, <2>2
  <2> QED
    BY <1>2, <2>3
<1>5. machine' \in Machines
  <2>1. PICK events : events = [i \in DOMAIN Listed(queue) |-> Listed(queue)[i].type]
    OBVIOUS
  <2>2. machine' = Advance(machine, events)
    BY <2>1 DEF Poll
  <2>3. IsFiniteSet(1..n) /\ \A x \in 1..n : x \in Int
    BY <1>2, FS_Interval
  <2>4. PICK I : I = 1..n
    OBVIOUS
  <2>5. DOMAIN events = I /\ IsFiniteSet(I) /\ \A x \in I : x \in Int
    BY <1>2, <2>1, <2>3, <2>4
  <2>6. machine \in Machines
    BY DEF DisplayTyped
  <2> QED
    BY ONLY <2>2, <2>5, <2>6, AdvanceTyped
<1>6. left' = n /\ dpc' = "mark" /\ shown' = shown
  BY <1>1 DEF Poll
<1> HIDE DEF Row
<1>7. left' \in 0..Limit /\ left' <= Len(queue')
  BY <1>2, <1>4, <1>6
<1> QED
  BY <1>4, <1>5, <1>6, <1>7 DEF DisplayTyped

LEMMA DisplayStep == DisplayTyped /\ [Next]_vars => DisplayTyped'
<1> SUFFICES ASSUME DisplayTyped, [Next]_vars PROVE DisplayTyped'
  OBVIOUS
<1>1. Len(queue) \in Nat /\ 0 \in 0..Limit
  BY ScreenAssumption DEF DisplayTyped
<1>2. Blank \in Machines
  BY DurationsAssumption DEF Blank, Machines, Screens
<1>3. CASE StartDisplay
  BY <1>1, <1>2, <1>3 DEF StartDisplay, DisplayTyped
<1>4. CASE Poll
  BY <1>4, PollTyped
<1>5. CASE Mark
  <2>1. queue' = Tail(queue) /\ left' = left - 1 /\ left > 0
    BY <1>5 DEF Mark
  <2> HIDE DEF Row
  <2>2. queue # <<>>
    BY <2>1 DEF DisplayTyped
  <2>3. queue' \in Seq(Row) /\ Len(queue') = Len(queue) - 1
    BY <2>1, <2>2 DEF DisplayTyped
  <2>4. left' \in 0..Limit /\ left' <= Len(queue')
    BY <1>1, <2>1, <2>3, ScreenAssumption DEF DisplayTyped
  <2>5. UNCHANGED <<dpc, machine, shown>>
    BY <1>5 DEF Mark
  <2> QED
    BY <2>3, <2>4, <2>5 DEF DisplayTyped
<1>6. CASE Render
  <2>1. shown' = [screen |-> machine.screen, strip |-> TopBanner(machine)] /\ dpc' = "poll"
        /\ UNCHANGED <<queue, machine, left>>
    BY <1>6 DEF Render
  <2>2. machine.screen \in Screens
    BY DEF DisplayTyped, Machines
  <2>3. TopBanner(machine) \in {"update_available", "notification", "none"}
    BY DEF TopBanner
  <2>4. shown' \in [screen : Screens, strip : {"update_available", "notification", "none"}]
    BY <2>1, <2>2, <2>3
  <2> QED
    BY <2>1, <2>4 DEF DisplayTyped
<1>7. CASE DisplayDies \/ Reboot
  BY <1>1, <1>7 DEF DisplayDies, Reboot, DisplayTyped
<1>8. CASE AnnounceSetup \/ AnnounceJoined \/ AwaitActivation \/ AnnounceActivated \/ Trade \/ Update
  <2>1. \E e \in EventType : Publish(e)
    <3>1. CASE AnnounceSetup      BY <3>1 DEF AnnounceSetup, EventType
    <3>2. CASE AnnounceJoined     BY <3>2 DEF AnnounceJoined, EventType
    <3>3. CASE AwaitActivation    BY <3>3 DEF AwaitActivation, EventType
    <3>4. CASE AnnounceActivated  BY <3>4 DEF AnnounceActivated, EventType
    <3>5. CASE Trade              BY <3>5 DEF Trade, EventType
    <3>6. CASE Update             BY <3>6 DEF Update, EventType
    <3> QED  BY <1>8, <3>1, <3>2, <3>3, <3>4, <3>5, <3>6
  <2>2. UNCHANGED display
    BY <1>8 DEF AnnounceSetup, AnnounceJoined, AwaitActivation, AnnounceActivated, Trade, Update
  <2>3. PICK r \in Row : queue' = Append(queue, r)
    BY <2>1 DEF Publish, Row
  <2> HIDE DEF Row
  <2>4. queue' \in Seq(Row) /\ Len(queue') = Len(queue) + 1
    BY <2>3 DEF DisplayTyped
  <2> QED
    BY <1>1, <2>2, <2>4 DEF DisplayTyped, display
<1>9. CASE Tick
  <2>1. machine' = Later(machine) /\ UNCHANGED <<queue, dpc, left, shown>>
    BY <1>9 DEF Tick
  <2>2. machine' \in Machines
    BY <2>1, ExpireTyped DEF DisplayTyped
  <2> QED
    BY <2>1, <2>2 DEF DisplayTyped
<1>10. CASE \/ StartAgent \/ StartHotspot \/ Join \/ JoinTimesOut \/ StopHotspot \/ AgentDies
            \/ \E right \in BOOLEAN : Post(right)
            \/ Activate \/ Disconnect \/ HearActivated \/ HearDisconnected
            \/ UNCHANGED vars
  <2>1. UNCHANGED <<queue, display>>
    BY <1>10 DEF StartAgent, StartHotspot, Join, JoinTimesOut, StopHotspot, AgentDies, Post,
                 Activate, Disconnect, HearActivated, HearDisconnected, vars
  <2> QED
    BY <2>1 DEF DisplayTyped, display
<1> QED
  BY <1>3, <1>4, <1>5, <1>6, <1>7, <1>8, <1>9, <1>10 DEF Next

LEMMA AgentStep == AgentTyped /\ [Next]_vars => AgentTyped'
<1> SUFFICES ASSUME AgentTyped, [Next]_vars PROVE AgentTyped'
  OBVIOUS
<1>1. CASE StartAgent \/ StartHotspot \/ AnnounceSetup \/ AnnounceJoined \/ StopHotspot
           \/ JoinTimesOut \/ AgentDies \/ Reboot
  <2>1. posted' \in Seq(BOOLEAN)
    <3>1. posted' = posted \/ posted' = <<>>
      BY <1>1 DEF StartAgent, StartHotspot, AnnounceSetup, AnnounceJoined, StopHotspot,
                  JoinTimesOut, AgentDies, Reboot
    <3>2. posted \in Seq(BOOLEAN)
      BY DEF AgentTyped
    <3> QED
      BY ONLY <3>1, <3>2, EmptySeq
  <2>2. tries' = tries
    BY <1>1 DEF StartAgent, StartHotspot, AnnounceSetup, AnnounceJoined, StopHotspot,
                JoinTimesOut, AgentDies, Reboot
  <2>3. /\ apc' \in {"off", "serving", "announcing", "waiting", "joined", "stopping", "done"}
        /\ wifi' \in {"none", "ap", "home"}
    BY <1>1 DEF AgentTyped, StartAgent, StartHotspot, AnnounceSetup, AnnounceJoined, StopHotspot,
                JoinTimesOut, AgentDies, Reboot
  <2> QED
    BY <2>1, <2>2, <2>3 DEF AgentTyped
<1>2. ASSUME NEW right \in BOOLEAN, Post(right) PROVE AgentTyped'
  <2>1. tries' \in 0..MaxTries
    BY <1>2, ScreenAssumption DEF Post, AgentTyped
  <2>2. posted' \in Seq(BOOLEAN)
    <3>1. PICK B : B = BOOLEAN
      OBVIOUS
    <3>2. posted \in Seq(B) /\ right \in B /\ posted' = Append(posted, right)
      BY <1>2, <3>1 DEF Post, AgentTyped
    <3>3. Append(posted, right) \in Seq(B)
      BY ONLY <3>2, AppendProperties
    <3> QED
      BY <3>1, <3>2, <3>3
  <2> QED
    BY <1>2, <2>1, <2>2 DEF Post, AgentTyped
<1>3. CASE Join
  <2>1. posted' \in Seq(BOOLEAN)
    <3>1. PICK B : B = BOOLEAN
      OBVIOUS
    <3>2. posted \in Seq(B) /\ posted # <<>> /\ posted' = Tail(posted)
      BY <1>3, <3>1 DEF Join, AgentTyped
    <3>3. Tail(posted) \in Seq(B)
      BY ONLY <3>2, HeadTailProperties
    <3> QED
      BY <3>1, <3>2, <3>3
  <2> QED
    BY <1>3, <2>1 DEF Join, AgentTyped
<1>4. CASE UNCHANGED agent
  BY <1>4 DEF agent, AgentTyped
<1>5. CASE \/ StartDisplay \/ Poll \/ Mark \/ Render \/ DisplayDies \/ Activate \/ Disconnect
           \/ AwaitActivation \/ HearActivated \/ AnnounceActivated \/ HearDisconnected
           \/ Trade \/ Update \/ Tick \/ UNCHANGED vars
  BY <1>4, <1>5 DEF StartDisplay, Poll, Mark, Render, DisplayDies, Activate, Disconnect,
     AwaitActivation, HearActivated, AnnounceActivated, HearDisconnected, Trade, Update, Tick, vars
<1> QED
  BY <1>1, <1>2, <1>3, <1>5 DEF Next

LEMMA WorkerStep == WorkerTyped /\ [Next]_vars => WorkerTyped'
<1> SUFFICES ASSUME WorkerTyped, [Next]_vars PROVE WorkerTyped'
  OBVIOUS
<1>1. Fault => faults' \in 0..MaxFaults
  BY ScreenAssumption DEF Fault, WorkerTyped
<1>2. news < MaxNews => news + 1 \in 0..MaxNews
  BY ScreenAssumption DEF WorkerTyped
<1>3. CASE DisplayDies \/ AgentDies
  BY <1>1, <1>3 DEF DisplayDies, AgentDies, WorkerTyped, worker
<1>4. CASE Reboot
  BY <1>1, <1>4 DEF Reboot, WorkerTyped
<1>5. CASE Activate \/ Disconnect
  BY <1>1, <1>5 DEF Activate, Disconnect, WorkerTyped
<1>6. CASE AwaitActivation \/ HearActivated \/ AnnounceActivated \/ HearDisconnected
  BY <1>6 DEF AwaitActivation, HearActivated, AnnounceActivated, HearDisconnected, WorkerTyped
<1>7. CASE Trade \/ Update
  BY <1>2, <1>7 DEF Trade, Update, WorkerTyped, worker
<1>8. CASE \/ StartDisplay \/ Poll \/ Mark \/ Render \/ Tick
           \/ StartAgent \/ StartHotspot \/ AnnounceSetup \/ Join \/ AnnounceJoined \/ StopHotspot
           \/ (\E right \in BOOLEAN : Post(right)) \/ JoinTimesOut \/ UNCHANGED vars
  <2>1. UNCHANGED <<worker, faults, news>>
    BY <1>8 DEF StartDisplay, Poll, Mark, Render, Tick, StartAgent, StartHotspot, AnnounceSetup,
       Join, AnnounceJoined, StopHotspot, Post, JoinTimesOut, vars
  <2> QED
    BY <2>1 DEF WorkerTyped, worker
<1> QED
  BY <1>3, <1>4, <1>5, <1>6, <1>7, <1>8 DEF Next

\* What the queue, the display's machine (display/state.py), the agent and the
\* worker hold stays within its type, whatever list of events the machine is
\* advanced over and however long it is.
THEOREM TypeCorrect == Spec => []TypeOK
<1>1. Init => TypeOK
  BY TypedInit, TypedParts
<1>2. TypeOK /\ [Next]_vars => TypeOK'
  <2> SUFFICES ASSUME TypeOK, [Next]_vars PROVE TypeOK'
    OBVIOUS
  <2>1. DisplayTyped /\ AgentTyped /\ WorkerTyped
    BY TypedParts
  <2>2. DisplayTyped' /\ AgentTyped' /\ WorkerTyped'
    BY <2>1, DisplayStep, AgentStep, WorkerStep
  <2> QED
    BY <2>2, TypedParts DEF TypeOK, DisplayTyped, AgentTyped, WorkerTyped, Row
<1> QED
  BY <1>1, <1>2, PTL DEF Spec

=============================================================================
