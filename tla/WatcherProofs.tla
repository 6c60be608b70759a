---------------------------- MODULE WatcherProofs ----------------------------
(***************************************************************************)
(* IdleWatcher for any folders, intervals and bounds: its types, that mail *)
(* is fetched in time, that stop is heeded, that sessions are closed and   *)
(* that pauses double.                                                     *)
(***************************************************************************)
EXTENDS IdleWatcher, WellFoundedInduction, TLAPS

\* a wait lasts no longer than it should
Waits ==
  \A w \in Workers : pc[w] \in {"waiting", "backoff"} => waited[w] <= Pause(w)

\* What is left of the wait of a thread that is bound to fetch the mail fits
\* into what is left of its time; one about to wait has all of it.
Timely ==
  /\ ~mail => age = 0
  /\ \A w \in Workers : due[w] # Never =>
       /\ ~stop /\ w \in Started
       /\ age <= due[w]
       /\ pc[w] \in {"waiting", "backoff"} => age + Pause(w) - waited[w] <= due[w]
       /\ pc[w] = "passed" => age = 0 /\ Pause(w) <= due[w]

\* A thread that was started ends after stop only.
Alive ==
  \A w \in Workers : w \in Started /\ ~stop => pc[w] # "ended"

\* After stop only a thread that was past its look at stop can be there.
Caught ==
  /\ ~stop => late = {}
  /\ \A w \in Workers : stop /\ pc[w] \in {"connect", "fire"} => w \in caught
  /\ late \subseteq caught

Sessions ==
  /\ sessions[Poller] = 0
  /\ OneSession

WatcherInv == TypeOK /\ Waits /\ Timely /\ Alive /\ Caught /\ Sessions

USE DEF Workers, Never

\* The values of Pause: a positive number in an IDLE, at most MaxRefresh.
LEMMA PauseType ==
  ASSUME TypeOK, NEW w \in Workers
  PROVE  /\ Pause(w) \in Nat
         /\ pc[w] = "backoff" => Pause(w) = backoff[w]
         /\ pc[w] # "backoff" /\ w = Poller => Pause(w) = interval
         /\ pc[w] # "backoff" /\ w # Poller => Pause(w) = Refresh /\ Refresh <= MaxRefresh
  BY WatcherAssumption DEF TypeOK, Pause, Refresh, Larger, Smaller

LEMMA InitWatcher == Init => WatcherInv
  <1> SUFFICES ASSUME Init PROVE WatcherInv
    OBVIOUS
  <1> USE WatcherAssumption
  <1>1. pc \in [Workers -> {"loop", "ended", "waiting"}]
    BY DEF Init
  <1>2. TypeOK
    <2>1. \A w \in IdleFolders : waited[w] \in 0..MaxRefresh
      BY DEF Init
    <2>2. backoff \in [Workers -> InitialBackoff..MaxBackoff]
      BY DEF Init
    <2>3. due \in [Workers -> Nat \cup {Never}]
      BY DEF Init
    <2>4. /\ failures \in [Workers -> 0..MaxFailures]
          /\ sessions \in [Workers -> Nat]
          /\ waited \in [Workers -> Nat]
          /\ told \in [Workers -> BOOLEAN]
          /\ age \in 0..MaxAge
      BY DEF Init
    <2> QED
      BY <1>1, <2>1, <2>2, <2>3, <2>4 DEF Init, TypeOK
  <1>3. Waits
    BY <1>2, PauseType DEF Init, Waits
  <1>4. Timely /\ Alive /\ Caught /\ Sessions
    BY DEF Init, Timely, Alive, Caught, Sessions, OneSession
  <1> QED
    BY <1>2, <1>3, <1>4 DEF WatcherInv

-----------------------------------------------------------------------------
(* Every step keeps the types. *)

Places == {"loop", "connect", "fire", "pass", "passed", "waiting", "backoff", "ended"}

LEMMA GotoType ==
  ASSUME TypeOK, NEW w \in Workers, NEW place \in Places, Goto(w, place)
  PROVE  /\ pc' \in [Workers -> Places]
         /\ \A v \in IdleFolders : pc'[v] = "waiting" => waited'[v] \in 0..MaxRefresh
         /\ waited' \in [Workers -> Nat]
         /\ told' \in [Workers -> BOOLEAN]
         /\ pc'[w] = place /\ waited'[w] = 0
         /\ \A v \in Workers \ {w} : pc'[v] = pc[v] /\ waited'[v] = waited[v]
  BY WatcherAssumption DEF TypeOK, Goto, Places

LEMMA TypeStep == TypeOK /\ [Next]_vars => TypeOK'
  <1> SUFFICES ASSUME TypeOK, [Next]_vars PROVE TypeOK'
    OBVIOUS
  <1> USE WatcherAssumption DEF threadVars, mailVars, stopVars, Places
  <1>1. ASSUME NEW w \in Workers, Break(w), sessions' \in [Workers -> Nat]
        PROVE  TypeOK'
    <2>1. Goto(w, "backoff")
      BY <1>1 DEF Break
    <2>2. failures' \in [Workers -> 0..MaxFailures] /\ due' \in [Workers -> Nat \cup {Never}]
      BY <1>1 DEF Break, TypeOK, Smaller
    <2> QED
      BY <1>1, <2>1, <2>2, GotoType DEF Break, TypeOK
  <1>2. ASSUME NEW w \in Workers, BeginPass(w)
        PROVE  /\ stop' \in BOOLEAN /\ late' \subseteq Workers /\ caught' \subseteq Workers
               /\ Goto(w, "pass")
    BY <1>2 DEF BeginPass, TypeOK
  <1>3. ASSUME NEW w \in IdleFolders, Loop(w)
        PROVE  TypeOK'
    <2>1. Goto(w, "ended") \/ Goto(w, "connect")
      BY <1>3 DEF Loop
    <2> QED
      BY <1>3, <2>1, GotoType DEF Loop, TypeOK
  <1>4. ASSUME NEW w \in IdleFolders, Connect(w)
        PROVE  TypeOK'
    <2>1. BeginPass(w)
      BY <1>4 DEF Connect
    <2>2. /\ sessions' \in [Workers -> Nat]
          /\ backoff' \in [Workers -> InitialBackoff..MaxBackoff]
          /\ failures' \in [Workers -> 0..MaxFailures]
      BY <1>4 DEF Connect, TypeOK
    <2> QED
      BY <1>2, <1>4, <2>1, <2>2, GotoType DEF Connect, TypeOK
  <1>5. ASSUME NEW w \in IdleFolders, ConnectFails(w)
        PROVE  TypeOK'
    <2>1. w \in Workers /\ sessions' \in [Workers -> Nat] /\ Break(w)
      BY <1>5 DEF ConnectFails, TypeOK
    <2> QED
      BY <1>1, <2>1
  <1>6. ASSUME NEW w \in IdleFolders, EnterIdle(w)
        PROVE  TypeOK'
    <2>1. Goto(w, "loop") \/ Goto(w, "waiting")
      BY <1>6 DEF EnterIdle
    <2>2. sessions' \in [Workers -> Nat]
      BY <1>6 DEF EnterIdle, Logout, TypeOK
    <2> QED
      BY <1>6, <2>1, <2>2, GotoType DEF EnterIdle, TypeOK
  <1>7. ASSUME NEW w \in IdleFolders, LeaveIdle(w)
        PROVE  TypeOK'
    <2>1. Goto(w, "loop") \/ Goto(w, "fire")
      BY <1>7 DEF LeaveIdle
    <2>2. sessions' \in [Workers -> Nat]
      BY <1>7 DEF LeaveIdle, Logout, TypeOK
    <2> QED
      BY <1>7, <2>1, <2>2, GotoType DEF LeaveIdle, TypeOK
  <1>8. ASSUME NEW w \in IdleFolders, IdleFails(w)
        PROVE  TypeOK'
    <2>1. w \in Workers /\ sessions' \in [Workers -> Nat] /\ Break(w)
      BY <1>8 DEF IdleFails, TypeOK
    <2> QED
      BY <1>1, <2>1
  <1>9. ASSUME NEW w \in IdleFolders, Retry(w)
        PROVE  TypeOK'
    <2>1. backoff' \in [Workers -> InitialBackoff..MaxBackoff]
      BY <1>9 DEF Retry, TypeOK, Smaller
    <2>2. sessions' \in [Workers -> Nat] /\ Goto(w, "loop")
      BY <1>9 DEF Retry, Logout, TypeOK
    <2> QED
      BY <1>9, <2>1, <2>2, GotoType DEF Retry, TypeOK
  <1>10. ASSUME NEW w \in Workers, Pass(w) \/ PassFails(w)
         PROVE  TypeOK'
    <2>1. Goto(w, "passed") /\ due' \in [Workers -> Nat \cup {Never}]
      BY <1>10 DEF Pass, PassFails, TypeOK
    <2>2. /\ mail' \in BOOLEAN /\ age' \in 0..MaxAge
          /\ UNCHANGED <<mode, interval, backoff, failures, sessions, stopVars>>
      <3>1. CASE Pass(w)
        BY <3>1, 0 \in 0..MaxAge DEF Pass, TypeOK
      <3>2. CASE PassFails(w)
        BY <3>2 DEF PassFails, TypeOK
      <3> QED
        BY <1>10, <3>1, <3>2
    <2> QED
      BY <2>1, <2>2, GotoType DEF TypeOK
  <1>11. ASSUME PollAgain
         PROVE  TypeOK'
    BY <1>11, GotoType DEF PollAgain, TypeOK
  <1>12. ASSUME PollWakes
         PROVE  TypeOK'
    <2>1. Goto(Poller, "ended") \/ Goto(Poller, "fire")
      BY <1>12 DEF PollWakes
    <2> QED
      BY <1>12, <2>1, GotoType DEF PollWakes, TypeOK
  <1>13. ASSUME Arrive
         PROVE  TypeOK'
    <2>1. \A w \in Workers : Pause(w) \in Nat
      BY PauseType
    <2>2. due' \in [Workers -> Nat \cup {Never}]
      BY <1>13, <2>1 DEF Arrive
    <2> QED
      BY <1>13, <2>2 DEF Arrive, TypeOK
  <1>14. ASSUME NEW w \in IdleFolders, Report(w)
         PROVE  TypeOK'
    BY <1>14 DEF Report, TypeOK
  <1>15. ASSUME Tick
         PROVE  TypeOK'
    <2>1. waited' \in [Workers -> Nat]
      BY <1>15 DEF Tick, TypeOK
    <2>2. \A w \in IdleFolders : pc'[w] = "waiting" => waited'[w] \in 0..MaxRefresh
      BY <1>15, PauseType DEF Tick, TypeOK, Waiting
    <2>3. age' \in 0..MaxAge
      BY <1>15 DEF Tick, TypeOK, Smaller
    <2> QED
      BY <1>15, <2>1, <2>2, <2>3 DEF Tick, TypeOK
  <1>16. ASSUME Stop
         PROVE  TypeOK'
    <2>1. due' \in [Workers -> Nat \cup {Never}]
      BY <1>16 DEF Stop
    <2> QED
      BY <1>16, <2>1 DEF Stop, TypeOK
  <1>17. ASSUME NEW w \in Workers, Fire(w)
         PROVE  TypeOK'
    <2>1. BeginPass(w)
      BY <1>17 DEF Fire
    <2> QED
      BY <1>2, <1>17, <2>1, GotoType DEF Fire, TypeOK
  <1>18. CASE UNCHANGED vars
    BY <1>18 DEF vars, TypeOK
  <1> QED
    BY <1>3, <1>4, <1>5, <1>6, <1>7, <1>8, <1>9, <1>10, <1>11, <1>12, <1>13, <1>14, <1>15,
       <1>16, <1>17, <1>18 DEF Next, Watch, Poll

-----------------------------------------------------------------------------
(* Every step keeps the promise to fetch the mail in time. *)

\* what Waits, Timely and Alive say of one thread
Bound(w) ==
  /\ pc[w] \in {"waiting", "backoff"} => waited[w] <= Pause(w)
  /\ w \in Started /\ ~stop => pc[w] # "ended"
  /\ due[w] # Never =>
       /\ ~stop /\ w \in Started
       /\ age <= due[w]
       /\ pc[w] \in {"waiting", "backoff"} => age + Pause(w) - waited[w] <= due[w]
       /\ pc[w] = "passed" => age = 0 /\ Pause(w) <= due[w]

Fresh == ~mail => age = 0

LEMMA BoundIsTimely == Waits /\ Timely /\ Alive <=> Fresh /\ \A w \in Workers : Bound(w)
  BY DEF Waits, Timely, Alive, Bound, Fresh

\* a thread that does nothing keeps its bound when age, stop and its due do
LEMMA BoundKept ==
  ASSUME TypeOK, NEW w \in Workers, Bound(w),
         pc'[w] = pc[w], waited'[w] = waited[w], backoff'[w] = backoff[w],
         UNCHANGED <<mode, interval, stop>>,
         due'[w] = Never \/ (due'[w] = due[w] /\ UNCHANGED age)
  PROVE  Bound(w)'
  BY DEF Bound, Pause, Refresh, Started

\* a thread that goes elsewhere, not to wait
LEMMA BoundMoved ==
  ASSUME TypeOK, NEW w \in Workers, Bound(w),
         pc'[w] \in {"loop", "connect", "fire", "pass", "ended"}, pc'[w] = "ended" => stop,
         UNCHANGED <<mode, interval, stop, age>>, due'[w] = due[w]
  PROVE  Bound(w)'
  BY DEF Bound, Started

\* a thread that begins to wait
LEMMA BoundWaits ==
  ASSUME TypeOK, TypeOK', NEW w \in Workers, waited'[w] = 0, pc'[w] # "ended",
         due'[w] # Never =>
           /\ ~stop' /\ w \in Started'
           /\ age' = 0 /\ Pause(w)' <= due'[w]
  PROVE  Bound(w)'
  <1>1. Pause(w)' \in Nat
    BY WatcherAssumption DEF TypeOK, Pause, Refresh, Larger, Smaller
  <1> QED
    BY <1>1 DEF Bound, TypeOK

LEMMA TimelyStep ==
  ASSUME TypeOK, TypeOK', Fresh, \A w \in Workers : Bound(w), [Next]_vars
  PROVE  Fresh' /\ \A w \in Workers : Bound(w)'
  <1> USE DEF threadVars, mailVars, stopVars
  <1>1. ASSUME NEW w \in Workers, NEW v \in Workers \ {w}, NEW place, Goto(w, place)
        PROVE  pc'[v] = pc[v] /\ waited'[v] = waited[v]
    BY <1>1 DEF Goto, TypeOK
  <1>2. ASSUME NEW w \in Workers, NEW place, Goto(w, place)
        PROVE  pc'[w] = place /\ waited'[w] = 0
    BY <1>2 DEF Goto, TypeOK
  <1>3. ASSUME NEW w \in Workers, Break(w), UNCHANGED <<mode, interval, backoff, stop>>
        PROVE  Fresh' /\ \A v \in Workers : Bound(v)'
    <2>1. Goto(w, "backoff") /\ due' = [due EXCEPT ![w] = Never] /\ UNCHANGED <<mail, age>>
      BY <1>3 DEF Break
    <2>2. Bound(w)'
      BY <1>2, <2>1, BoundWaits DEF TypeOK
    <2>3. ASSUME NEW v \in Workers \ {w}
          PROVE  Bound(v)'
      BY <1>1, <1>3, <2>1, BoundKept DEF TypeOK
    <2> QED
      BY <2>1, <2>2, <2>3 DEF Fresh
  <1>4. ASSUME NEW w \in Workers, NEW place \in {"loop", "connect", "fire", "pass", "ended"},
               Goto(w, place), place = "ended" => stop,
               \A v \in Workers \ {w} : backoff'[v] = backoff[v],
               UNCHANGED <<mode, interval, stop, mailVars>>
        PROVE  Fresh' /\ \A v \in Workers : Bound(v)'
    <2>1. Bound(w)'
      BY <1>2, <1>4, BoundMoved
    <2>2. ASSUME NEW v \in Workers \ {w}
          PROVE  Bound(v)'
      BY <1>1, <1>4, BoundKept
    <2> QED
      BY <1>4, <2>1, <2>2 DEF Fresh
  <1>5. ASSUME NEW w \in Workers, pc[w] = "passed", Goto(w, "waiting"),
               UNCHANGED <<mode, interval, backoff, stop, mailVars>>
        PROVE  Fresh' /\ \A v \in Workers : Bound(v)'
    <2>1. Pause(w)' = Pause(w)
      BY <1>2, <1>5 DEF Pause, Refresh
    <2>2. Started' = Started
      BY <1>5 DEF Started
    <2>3. Bound(w)'
      BY <1>2, <1>5, <2>1, <2>2, BoundWaits DEF Bound
    <2>4. ASSUME NEW v \in Workers \ {w}
          PROVE  Bound(v)'
      BY <1>1, <1>5, BoundKept
    <2> QED
      BY <1>5, <2>3, <2>4 DEF Fresh
  <1>6. ASSUME NEW w \in Workers, BeginPass(w)
        PROVE  Goto(w, "pass") /\ UNCHANGED stop
    BY <1>6 DEF BeginPass
  \* a step after which nobody is bound to fetch the mail
  <1>7. ASSUME NEW w \in Workers, Goto(w, "passed"), due'[w] = Never,
               \A v \in Workers \ {w} : due'[v] = Never \/ (due'[v] = due[v] /\ UNCHANGED age),
               UNCHANGED <<mode, interval, backoff, stop>>
        PROVE  \A v \in Workers : Bound(v)'
    <2>1. Bound(w)'
      BY <1>2, <1>7, BoundWaits
    <2>2. ASSUME NEW v \in Workers \ {w}
          PROVE  Bound(v)'
      BY <1>1, <1>7, BoundKept
    <2> QED
      BY <2>1, <2>2
  <1>8. ASSUME NEW w \in IdleFolders, Loop(w)
        PROVE  Fresh' /\ \A v \in Workers : Bound(v)'
    <2>1. Goto(w, "connect") \/ (Goto(w, "ended") /\ stop)
      BY <1>8 DEF Loop
    <2> QED
      BY <1>4, <1>8, <2>1 DEF Loop
  <1>9. ASSUME NEW w \in IdleFolders, Connect(w)
        PROVE  Fresh' /\ \A v \in Workers : Bound(v)'
    BY <1>4, <1>6, <1>9 DEF Connect, TypeOK
  <1>10. ASSUME NEW w \in IdleFolders, ConnectFails(w) \/ IdleFails(w)
         PROVE  Fresh' /\ \A v \in Workers : Bound(v)'
    BY <1>3, <1>10 DEF ConnectFails, IdleFails, Break
  <1>11. ASSUME NEW w \in IdleFolders, EnterIdle(w)
         PROVE  Fresh' /\ \A v \in Workers : Bound(v)'
    <2>1. CASE stop
      BY <1>4, <1>11, <2>1 DEF EnterIdle
    <2>2. CASE ~stop
      BY <1>5, <1>11, <2>2 DEF EnterIdle
    <2> QED
      BY <2>1, <2>2
  <1>12. ASSUME NEW w \in IdleFolders, LeaveIdle(w)
         PROVE  Fresh' /\ \A v \in Workers : Bound(v)'
    <2>1. Goto(w, "loop") \/ Goto(w, "fire")
      BY <1>12 DEF LeaveIdle
    <2> QED
      BY <1>4, <1>12, <2>1 DEF LeaveIdle
  <1>13. ASSUME NEW w \in IdleFolders, Retry(w)
         PROVE  Fresh' /\ \A v \in Workers : Bound(v)'
    <2>1. Goto(w, "loop") /\ \A v \in Workers \ {w} : backoff'[v] = backoff[v]
      BY <1>13 DEF Retry, TypeOK
    <2> QED
      BY <1>4, <1>13, <2>1 DEF Retry
  <1>14. ASSUME NEW w \in Workers, Pass(w)
         PROVE  Fresh' /\ \A v \in Workers : Bound(v)'
    <2>1. \A v \in Workers : due'[v] = Never
      BY <1>14 DEF Pass
    <2> QED
      BY <1>7, <1>14, <2>1 DEF Pass, Fresh
  <1>15. ASSUME NEW w \in Workers, PassFails(w)
         PROVE  Fresh' /\ \A v \in Workers : Bound(v)'
    <2>1. due'[w] = Never /\ \A v \in Workers \ {w} : due'[v] = due[v]
      BY <1>15 DEF PassFails, TypeOK
    <2> QED
      BY <1>7, <1>15, <2>1 DEF PassFails, Fresh
  <1>16. ASSUME PollAgain
         PROVE  Fresh' /\ \A v \in Workers : Bound(v)'
    BY <1>5, <1>16 DEF PollAgain
  <1>17. ASSUME PollWakes
         PROVE  Fresh' /\ \A v \in Workers : Bound(v)'
    <2>1. (Goto(Poller, "ended") /\ stop) \/ Goto(Poller, "fire")
      BY <1>17 DEF PollWakes
    <2> QED
      BY <1>4, <1>17, <2>1 DEF PollWakes
  <1>18. ASSUME Arrive
         PROVE  Fresh' /\ \A v \in Workers : Bound(v)'
    <2>1. age = 0 /\ age' = 0 /\ mail'
      BY <1>18 DEF Arrive, Fresh
    <2>2. ASSUME NEW v \in Workers
          PROVE  Bound(v)'
      <3>1. /\ due'[v] = IF v \in Started /\ ~stop THEN Pause(v) ELSE Never
            /\ Pause(v)' = Pause(v) /\ Started' = Started /\ stop' = stop
            /\ pc' = pc /\ waited' = waited
        BY <1>18 DEF Arrive, Pause, Refresh, Started
      <3>2. Pause(v) \in Nat /\ waited[v] \in Nat
        BY PauseType DEF TypeOK
      <3> QED
        BY <2>1, <3>1, <3>2 DEF Bound
    <2> QED
      BY <2>1, <2>2 DEF Fresh
  <1>19. ASSUME NEW w \in IdleFolders, Report(w)
         PROVE  Fresh' /\ \A v \in Workers : Bound(v)'
    BY <1>19, BoundKept DEF Report, Fresh
  <1>20. ASSUME Tick
         PROVE  Fresh' /\ \A v \in Workers : Bound(v)'
    <2>1. Fresh'
      BY <1>20 DEF Tick, Fresh
    <2>2. age \in Nat /\ age' \in Nat /\ age' <= age + 1
      BY <1>20, WatcherAssumption DEF Tick, Smaller, TypeOK
    <2>3. ASSUME NEW v \in Workers
          PROVE  Bound(v)'
      <3>1. /\ Pause(v) \in Nat /\ Pause(v)' = Pause(v)
            /\ waited[v] \in Nat /\ due[v] \in Nat \cup {Never}
        BY <1>20, PauseType DEF Tick, Pause, Refresh, TypeOK
      <3>2. /\ Started' = Started
            /\ UNCHANGED <<pc, due, stop>>
        BY <1>20 DEF Tick, Started
      <3>3. CASE Waiting(v)
        <4>1. waited'[v] = waited[v] + 1 /\ waited[v] < Pause(v) /\ pc[v] \in {"waiting", "backoff"}
          BY <1>20, <3>3 DEF Tick, Waiting
        <4> QED
          BY <2>2, <3>1, <3>2, <4>1 DEF Bound
      <3>4. CASE ~Waiting(v)
        <4>1. waited'[v] = waited[v]
          BY <1>20, <3>4 DEF Tick
        <4>2. v \in Started => pc[v] = "ended"
          BY <1>20, <3>4 DEF Tick
        <4>3. due[v] = Never
          BY <4>2 DEF Bound
        <4> QED
          BY <3>1, <3>2, <4>1, <4>3 DEF Bound
      <3> QED
        BY <3>3, <3>4
    <2> QED
      BY <2>1, <2>3
  <1>21. ASSUME Stop
         PROVE  Fresh' /\ \A v \in Workers : Bound(v)'
    <2>1. ASSUME NEW v \in Workers
          PROVE  Bound(v)'
      <3>1. due'[v] = Never /\ stop' /\ Pause(v)' = Pause(v) /\ UNCHANGED <<pc, waited>>
        BY <1>21 DEF Stop, Pause, Refresh
      <3> QED
        BY <3>1 DEF Bound
    <2> QED
      BY <1>21, <2>1 DEF Stop, Fresh
  <1>22. ASSUME NEW w \in Workers, Fire(w)
         PROVE  Fresh' /\ \A v \in Workers : Bound(v)'
    BY <1>4, <1>6, <1>22 DEF Fire
  <1>23. CASE UNCHANGED vars
    BY <1>23, BoundKept DEF vars, Fresh
  <1> QED
    BY <1>8, <1>9, <1>10, <1>11, <1>12, <1>13, <1>14, <1>15, <1>16, <1>17, <1>18, <1>19, <1>20,
       <1>21, <1>22, <1>23 DEF Next, Watch, Poll

-----------------------------------------------------------------------------
(* After stop no thread begins a pass that looks at stop before. *)

LEMMA CaughtStep == TypeOK /\ Caught /\ [Next]_vars => Caught'
  <1> SUFFICES ASSUME TypeOK, Caught, [Next]_vars PROVE Caught'
    OBVIOUS
  <1> USE DEF threadVars, mailVars, stopVars
  <1>1. ASSUME NEW w \in Workers, NEW place, place \notin {"connect", "fire"}, Goto(w, place),
               UNCHANGED stopVars
        PROVE  Caught'
    BY <1>1 DEF Goto, TypeOK, Caught
  <1>2. ASSUME NEW w \in Workers, BeginPass(w), pc[w] \in {"connect", "fire"}
        PROVE  Caught'
    <2>1. Goto(w, "pass") /\ UNCHANGED <<stop, caught>>
      BY <1>2 DEF BeginPass
    <2>2. \A v \in Workers : pc'[v] \in {"connect", "fire"} => pc[v] \in {"connect", "fire"}
      BY <2>1 DEF Goto, TypeOK
    <2>3. late' \subseteq caught /\ (~stop => late' = {})
      BY <1>2 DEF BeginPass, Caught
    <2> QED
      BY <2>1, <2>2, <2>3 DEF Caught
  <1>3. ASSUME NEW w \in IdleFolders, Loop(w)
        PROVE  Caught'
    <2>1. CASE stop
      BY <1>1, <1>3, <2>1 DEF Loop
    <2>2. CASE ~stop
      BY <1>3, <2>2 DEF Loop, Goto, Caught
    <2> QED
      BY <2>1, <2>2
  <1>4. ASSUME NEW w \in Workers, Connect(w) \/ Fire(w)
        PROVE  Caught'
    BY <1>2, <1>4 DEF Connect, Fire
  <1>5. ASSUME NEW w \in IdleFolders, LeaveIdle(w)
        PROVE  Caught'
    <2>1. CASE stop
      BY <1>1, <1>5, <2>1 DEF LeaveIdle
    <2>2. CASE ~stop
      BY <1>5, <2>2 DEF LeaveIdle, Goto, Caught
    <2> QED
      BY <2>1, <2>2
  <1>6. ASSUME PollWakes
        PROVE  Caught'
    <2>1. CASE stop
      BY <1>1, <1>6, <2>1 DEF PollWakes
    <2>2. CASE ~stop
      BY <1>6, <2>2 DEF PollWakes, Goto, Caught
    <2> QED
      BY <2>1, <2>2
  <1>7. ASSUME NEW w \in Workers,
               ConnectFails(w) \/ EnterIdle(w) \/ IdleFails(w) \/ Retry(w) \/ Pass(w) \/ PassFails(w)
        PROVE  Caught'
    <2>1. /\ Goto(w, "backoff") \/ Goto(w, "loop") \/ Goto(w, "waiting") \/ Goto(w, "passed")
          /\ UNCHANGED stopVars
      BY <1>7 DEF ConnectFails, EnterIdle, IdleFails, Break, Retry, Pass, PassFails
    <2> QED
      BY <1>1, <2>1
  <1>8. CASE PollAgain
    BY <1>1, <1>8 DEF PollAgain
  <1>9. CASE Stop
    BY <1>9 DEF Stop, Caught
  <1>10. CASE Arrive \/ Tick \/ (\E w \in IdleFolders : Report(w)) \/ UNCHANGED vars
    BY <1>10 DEF Arrive, Tick, Report, vars, Caught
  <1> QED
    BY <1>3, <1>4, <1>5, <1>6, <1>7, <1>8, <1>9, <1>10 DEF Next, Watch, Poll

-----------------------------------------------------------------------------
(* Every session is closed before the next is opened. *)

\* what OneSession allows a thread that is at place
Allowed(place) == IF place \in {"loop", "connect", "ended"} THEN 0 ELSE 1

LEMMA SessionsStep == TypeOK /\ Sessions /\ [Next]_vars => Sessions'
  <1> SUFFICES ASSUME TypeOK, Sessions, [Next]_vars PROVE Sessions'
    OBVIOUS
  <1> USE WatcherAssumption DEF threadVars, mailVars, stopVars
  <1>1. \A w \in Workers : sessions[w] \in Nat /\ sessions[w] <= Allowed(pc[w])
    BY DEF TypeOK, Sessions, OneSession, Allowed
  <1>2. ASSUME NEW w \in Workers, NEW place, Goto(w, place),
               sessions'[w] <= Allowed(place), w = Poller => sessions'[w] = 0,
               \A v \in Workers \ {w} : sessions'[v] = sessions[v]
        PROVE  Sessions'
    <2>1. pc'[w] = place /\ \A v \in Workers \ {w} : pc'[v] = pc[v]
      BY <1>2 DEF Goto, TypeOK
    <2>2. \A v \in Workers : sessions'[v] <= Allowed(pc'[v])
      BY <1>1, <1>2, <2>1
    <2>3. sessions'[Poller] = 0
      BY <1>2 DEF Sessions
    <2> QED
      BY <2>2, <2>3 DEF Sessions, OneSession, Allowed
  <1>3. ASSUME NEW w \in Workers, NEW place, Goto(w, place), UNCHANGED sessions,
               Allowed(pc[w]) <= Allowed(place) \/ w = Poller
        PROVE  Sessions'
    <2>1. sessions[Poller] = 0 /\ Allowed(pc[w]) \in Nat /\ Allowed(place) \in Nat
      BY DEF Sessions, Allowed
    <2>2. sessions'[w] <= Allowed(place)
      BY <1>1, <1>3, <2>1
    <2> QED
      BY <1>2, <1>3, <2>1, <2>2
  <1>4. ASSUME NEW w \in IdleFolders, NEW place, Goto(w, place), Logout(w)
        PROVE  Sessions'
    <2>1. sessions'[w] = 0 /\ \A v \in Workers \ {w} : sessions'[v] = sessions[v]
      BY <1>4 DEF Logout, TypeOK
    <2> QED
      BY <1>2, <1>4, <2>1 DEF Allowed
  <1>5. ASSUME NEW w \in Workers, BeginPass(w)
        PROVE  Goto(w, "pass")
    BY <1>5 DEF BeginPass
  <1>6. ASSUME NEW w \in IdleFolders, Loop(w)
        PROVE  Sessions'
    BY <1>3, <1>6 DEF Loop, Allowed
  <1>7. ASSUME NEW w \in IdleFolders, Connect(w) \/ ConnectFails(w)
        PROVE  Sessions'
    <2>1. pc[w] = "connect"
      BY <1>7 DEF Connect, ConnectFails
    <2>2. sessions[w] = 0
      BY <1>1, <2>1 DEF Allowed
    <2>3. /\ sessions'[w] <= 1
          /\ \A v \in Workers \ {w} : sessions'[v] = sessions[v]
      BY <1>7, <2>2 DEF Connect, ConnectFails, TypeOK
    <2>4. Goto(w, "pass") \/ Goto(w, "backoff")
      BY <1>5, <1>7 DEF Connect, ConnectFails, Break
    <2> QED
      BY <1>2, <2>3, <2>4 DEF Allowed
  <1>8. ASSUME NEW w \in IdleFolders, EnterIdle(w) \/ LeaveIdle(w) \/ Retry(w)
        PROVE  Sessions'
    <2>1. CASE Goto(w, "loop") /\ Logout(w)
      BY <1>4, <2>1
    <2>2. CASE (Goto(w, "waiting") \/ Goto(w, "fire")) /\ UNCHANGED sessions
      BY <1>3, <2>2 DEF Allowed
    <2> QED
      BY <1>8, <2>1, <2>2 DEF EnterIdle, LeaveIdle, Retry
  <1>9. ASSUME NEW w \in IdleFolders, IdleFails(w)
        PROVE  Sessions'
    BY <1>3, <1>9 DEF IdleFails, Break, Allowed
  <1>10. ASSUME NEW w \in Workers, Pass(w) \/ PassFails(w)
         PROVE  Sessions'
    BY <1>3, <1>10 DEF Pass, PassFails, Allowed
  <1>11. CASE PollAgain \/ PollWakes
    <2>1. /\ Goto(Poller, "waiting") \/ Goto(Poller, "ended") \/ Goto(Poller, "fire")
          /\ UNCHANGED sessions
      BY <1>11 DEF PollAgain, PollWakes
    <2> QED
      BY <1>3, <2>1
  <1>12. CASE Arrive \/ Tick \/ Stop \/ (\E w \in IdleFolders : Report(w)) \/ UNCHANGED vars
    BY <1>12 DEF Arrive, Tick, Stop, Report, vars, Sessions, OneSession
  <1>13. ASSUME NEW w \in Workers, Fire(w)
         PROVE  Sessions'
    BY <1>3, <1>5, <1>13 DEF Fire, Allowed
  <1> QED
    BY <1>6, <1>7, <1>8, <1>9, <1>10, <1>11, <1>12, <1>13 DEF Next, Watch, Poll


-----------------------------------------------------------------------------
(* The pauses double.  That Doubled is what its definition says, for every *)
(* MaxFailures, is shown by the least number for which it is not.          *)

\* Every set of numbers has a least one: induction, for a given set.
LEMMA LeastNumber ==
  ASSUME NEW S \in SUBSET Nat, S # {}
  PROVE  \E n \in S : \A m \in S : n <= m
  <1>1. IsWellFoundedOn(OpToRel(<, Nat), Nat)
    BY NatLessThanWellFounded
  <1>2. PICK n \in S : \A m \in S : <<m, n>> \notin OpToRel(<, Nat)
    BY <1>1, WFMin
  <1>3. \A m \in S : ~(m < n)
    BY <1>2 DEF OpToRel
  <1> QED
    BY <1>3

\* There is a function that doubles, as far as one likes.
LEMMA DoublesUpTo ==
  ASSUME NEW N \in Nat
  PROVE  \E g \in [1..N -> Nat] :
           \A n \in 1..N : g[n] = IF n = 1 THEN InitialBackoff ELSE 2 * g[n - 1]
  <1> DEFINE Doubles(g, k) ==
        \A n \in 1..k : g[n] = IF n = 1 THEN InitialBackoff ELSE 2 * g[n - 1]
      Bad == {k \in Nat : ~ \E g \in [1..k -> Nat] : Doubles(g, k)}
  <1>1. SUFFICES ASSUME Bad # {} PROVE FALSE
    OBVIOUS
  <1>2. PICK k \in Bad : \A m \in Bad : k <= m
    <2> HIDE DEF Bad
    <2>1. Bad \in SUBSET Nat
      BY DEF Bad
    <2> QED
      BY <1>1, <2>1, LeastNumber
  <1>3. k \in Nat /\ k # 0
    <2>1. \A g : Doubles(g, 0)
      OBVIOUS
    <2>2. [n \in 1..0 |-> 0] \in [1..0 -> Nat]
      OBVIOUS
    <2> HIDE DEF Doubles
    <2>3. 0 \notin Bad
      BY <2>1, <2>2
    <2> QED
      BY <1>2, <2>3
  <1>4. k - 1 \in Nat /\ k - 1 \notin Bad
    <2> HIDE DEF Bad
    <2> QED
      BY <1>2, <1>3
  <1>5. PICK g \in [1..(k - 1) -> Nat] : Doubles(g, k - 1)
    <2> HIDE DEF Doubles
    <2> QED
      BY <1>4
  <1> DEFINE h == [n \in 1..k |-> IF n = 1 THEN InitialBackoff ELSE 2 * g[n - 1]]
  <1>6. h \in [1..k -> Nat]
    BY <1>3, WatcherAssumption
  <1>7. ASSUME NEW n \in 1..k, n # 1
        PROVE  h[n] = 2 * h[n - 1]
    <2>1. n - 1 \in 1..(k - 1) /\ n - 1 \in 1..k
      BY <1>3, <1>7
    <2>2. h[n] = 2 * g[n - 1]
      BY <1>7
    <2>3. g[n - 1] = IF n - 1 = 1 THEN InitialBackoff ELSE 2 * g[(n - 1) - 1]
      BY <1>5, <2>1
    <2>4. h[n - 1] = IF n - 1 = 1 THEN InitialBackoff ELSE 2 * g[(n - 1) - 1]
      BY <2>1
    <2> QED
      BY <2>2, <2>3, <2>4
  <1>8. Doubles(h, k)
    <2>1. \A n \in 1..k : n = 1 => h[n] = InitialBackoff
      OBVIOUS
    <2> HIDE DEF h
    <2> QED
      BY <1>7, <2>1
  <1> HIDE DEF Doubles, h
  <1>9. k \notin Bad
    BY <1>6, <1>8
  <1> QED
    BY <1>2, <1>9

\* So the one that Doubled names is one.
LEMMA DoubledIs ==
  \A n \in 1..MaxFailures :
    Doubled[n] = IF n = 1 THEN InitialBackoff ELSE 2 * Doubled[n - 1]
  <1> DEFINE Again(g) ==
        [n \in 1..MaxFailures |-> IF n = 1 THEN InitialBackoff ELSE 2 * g[n - 1]]
  <1>1. PICK g \in [1..MaxFailures -> Nat] :
          \A n \in 1..MaxFailures : g[n] = IF n = 1 THEN InitialBackoff ELSE 2 * g[n - 1]
    BY DoublesUpTo, WatcherAssumption
  <1>2. g = Again(g)
    BY <1>1
  <1>3. Doubled = CHOOSE f : f = Again(f)
    BY DEF Doubled
  <1>4. Doubled = Again(Doubled)
    <2> HIDE DEF Again
    <2> QED
      BY <1>2, <1>3
  <1>5. \A n \in 1..MaxFailures :
          Again(Doubled)[n] = IF n = 1 THEN InitialBackoff ELSE 2 * Doubled[n - 1]
    OBVIOUS
  <1> HIDE DEF Again
  <1> QED
    BY <1>4, <1>5

LEMMA DoubledNat == \A n \in 1..MaxFailures : Doubled[n] \in Nat
  <1> DEFINE Bad == {n \in 1..MaxFailures : Doubled[n] \notin Nat}
  <1>1. SUFFICES ASSUME Bad # {} PROVE FALSE
    OBVIOUS
  <1>2. Bad \in SUBSET Nat
    BY WatcherAssumption
  <1>3. PICK k \in Bad : \A m \in Bad : k <= m
    <2> HIDE DEF Bad
    <2> QED
      BY <1>1, <1>2, LeastNumber
  <1>4. Doubled[k] = IF k = 1 THEN InitialBackoff ELSE 2 * Doubled[k - 1]
    BY DoubledIs
  <1>5. k # 1
    BY <1>4, WatcherAssumption
  <1>6. k - 1 \in 1..MaxFailures /\ ~(k <= k - 1)
    BY <1>5, WatcherAssumption
  <1>7. Doubled[k - 1] \in Nat
    BY <1>3, <1>6
  <1> QED
    BY <1>4, <1>5, <1>7

\* What a pause is after n failures in a row.
PauseAfter(n) ==
  IF n <= MaxFailures THEN Smaller(MaxBackoff, Doubled[n]) ELSE MaxBackoff

\* A thread in a pause has the one its failures call for, any other the one that
\* the next failure will.
Backoffs ==
  \A w \in Workers :
    /\ pc[w] = "backoff" => failures[w] # 0 /\ backoff[w] = PauseAfter(failures[w])
    /\ pc[w] # "backoff" => backoff[w] = PauseAfter(failures[w] + 1)

LEMMA PauseAfterFacts ==
  /\ PauseAfter(1) = InitialBackoff
  /\ \A n \in 1..MaxFailures :
       /\ PauseAfter(n) = Smaller(MaxBackoff, Doubled[n])
       /\ PauseAfter(n + 1) = Smaller(PauseAfter(n) * 2, MaxBackoff)
  <1> USE WatcherAssumption
  <1>1. PauseAfter(1) = InitialBackoff
    BY DoubledIs DEF PauseAfter, Smaller
  <1>2. ASSUME NEW n \in 1..MaxFailures
        PROVE  PauseAfter(n + 1) = Smaller(PauseAfter(n) * 2, MaxBackoff)
    <2>1. Doubled[n] \in Nat
      BY DoubledNat
    <2>2. CASE n = MaxFailures
      BY <2>1, <2>2, CountAssumption DEF PauseAfter, Smaller
    <2>3. CASE n # MaxFailures
      <3>1. n + 1 \in 1..MaxFailures /\ n + 1 # 1 /\ (n + 1) - 1 = n
        BY <2>3
      <3>2. Doubled[n + 1] = 2 * Doubled[n]
        BY <3>1, DoubledIs
      <3> QED
        BY <2>1, <3>1, <3>2 DEF PauseAfter, Smaller
    <2> QED
      BY <2>2, <2>3
  <1>3. \A n \in 1..MaxFailures : PauseAfter(n) = Smaller(MaxBackoff, Doubled[n])
    BY DEF PauseAfter
  <1> QED
    BY <1>1, <1>2, <1>3

LEMMA BackoffsStep == TypeOK /\ Backoffs /\ [Next]_vars => Backoffs'
  <1> SUFFICES ASSUME TypeOK, Backoffs, [Next]_vars PROVE Backoffs'
    OBVIOUS
  <1> USE WatcherAssumption DEF threadVars, mailVars, stopVars
  <1> DEFINE Right(w) ==
        /\ pc[w] = "backoff" => failures[w] # 0 /\ backoff[w] = PauseAfter(failures[w])
        /\ pc[w] # "backoff" => backoff[w] = PauseAfter(failures[w] + 1)
  <1>1. \A w \in Workers : Right(w)
    BY DEF Backoffs
  <1>2. ASSUME NEW w \in Workers, Right(w)',
               \A v \in Workers \ {w} : /\ pc'[v] = pc[v] /\ failures'[v] = failures[v]
                                       /\ backoff'[v] = backoff[v]
        PROVE  Backoffs'
    BY <1>1, <1>2 DEF Backoffs
  \* a step of a thread that is not in a pause, nor goes into one
  <1>3. ASSUME NEW w \in Workers, NEW place, Goto(w, place),
               pc[w] # "backoff", place # "backoff", UNCHANGED <<failures, backoff>>
        PROVE  Backoffs'
    <2>1. pc'[w] = place /\ \A v \in Workers \ {w} : pc'[v] = pc[v]
      BY <1>3 DEF Goto, TypeOK
    <2> QED
      BY <1>1, <1>2, <1>3, <2>1
  <1>4. ASSUME NEW w \in Workers, Break(w), pc[w] # "backoff"
        PROVE  Backoffs'
    <2>1. /\ pc'[w] = "backoff" /\ \A v \in Workers \ {w} : pc'[v] = pc[v]
          /\ failures'[w] = Smaller(failures[w] + 1, MaxFailures)
          /\ \A v \in Workers \ {w} : failures'[v] = failures[v]
          /\ backoff' = backoff
      BY <1>4 DEF Break, Goto, TypeOK
    <2>2. failures[w] \in 0..MaxFailures /\ backoff[w] = PauseAfter(failures[w] + 1)
      BY <1>1, <1>4 DEF TypeOK
    <2>3. failures'[w] # 0 /\ backoff[w] = PauseAfter(failures'[w])
      <3>1. CASE failures[w] < MaxFailures
        BY <2>1, <2>2, <3>1 DEF Smaller
      <3>2. CASE failures[w] = MaxFailures
        <4>1. failures'[w] = MaxFailures /\ MaxFailures \in 1..MaxFailures
          BY <2>1, <3>2 DEF Smaller
        <4>2. backoff[w] = MaxBackoff
          BY <2>2, <3>2 DEF PauseAfter
        <4>3. PauseAfter(MaxFailures) = MaxBackoff
          BY <4>1, CountAssumption, DoubledNat DEF PauseAfter, Smaller
        <4> QED
          BY <4>1, <4>2, <4>3
      <3> QED
        BY <2>2, <3>1, <3>2
    <2> QED
      BY <1>2, <2>1, <2>3
  <1>5. ASSUME NEW w \in Workers, BeginPass(w)
        PROVE  Goto(w, "pass")
    BY <1>5 DEF BeginPass
  <1>6. ASSUME NEW w \in IdleFolders, Loop(w) \/ EnterIdle(w) \/ LeaveIdle(w)
        PROVE  Backoffs'
    <2>1. pc[w] # "backoff" /\ UNCHANGED <<failures, backoff>>
      BY <1>6 DEF Loop, EnterIdle, LeaveIdle, WaitIsOver
    <2>2. \E place \in {"ended", "connect", "loop", "waiting", "fire"} : Goto(w, place)
      BY <1>6 DEF Loop, EnterIdle, LeaveIdle
    <2> QED
      BY <1>3, <2>1, <2>2
  <1>7. ASSUME NEW w \in IdleFolders, Connect(w)
        PROVE  Backoffs'
    <2>1. /\ pc'[w] = "pass" /\ \A v \in Workers \ {w} : pc'[v] = pc[v]
          /\ failures'[w] = 0 /\ backoff'[w] = InitialBackoff
          /\ \A v \in Workers \ {w} : failures'[v] = failures[v] /\ backoff'[v] = backoff[v]
      BY <1>5, <1>7 DEF Connect, Goto, TypeOK
    <2>2. failures'[w] + 1 = 1
      BY <2>1
    <2> QED
      BY <1>2, <2>1, <2>2, PauseAfterFacts
  <1>8. ASSUME NEW w \in IdleFolders, ConnectFails(w) \/ IdleFails(w)
        PROVE  Backoffs'
    BY <1>4, <1>8 DEF ConnectFails, IdleFails
  <1>9. ASSUME NEW w \in IdleFolders, Retry(w)
        PROVE  Backoffs'
    <2>1. /\ pc'[w] = "loop" /\ \A v \in Workers \ {w} : pc'[v] = pc[v]
          /\ failures' = failures /\ backoff'[w] = Smaller(backoff[w] * 2, MaxBackoff)
          /\ \A v \in Workers \ {w} : backoff'[v] = backoff[v]
      BY <1>9 DEF Retry, Goto, TypeOK
    <2>2. failures[w] \in 1..MaxFailures /\ backoff[w] = PauseAfter(failures[w])
      BY <1>1, <1>9 DEF Retry, TypeOK
    <2>3. backoff'[w] = PauseAfter(failures'[w] + 1)
      BY <2>1, <2>2, PauseAfterFacts
    <2> QED
      BY <1>2, <2>1, <2>3
  <1>10. ASSUME NEW w \in Workers, Pass(w) \/ PassFails(w)
         PROVE  Backoffs'
    BY <1>3, <1>10 DEF Pass, PassFails
  <1>11. CASE PollAgain
    BY <1>3, <1>11 DEF PollAgain
  <1>12. CASE PollWakes
    <2>1. /\ pc[Poller] # "backoff" /\ UNCHANGED <<failures, backoff>>
          /\ Goto(Poller, "ended") \/ Goto(Poller, "fire")
      BY <1>12 DEF PollWakes
    <2> QED
      BY <1>3, <2>1
  <1>13. CASE Arrive \/ Tick \/ Stop \/ (\E w \in IdleFolders : Report(w)) \/ UNCHANGED vars
    BY <1>13 DEF Arrive, Tick, Stop, Report, vars, Backoffs
  <1>14. ASSUME NEW w \in Workers, Fire(w)
         PROVE  Backoffs'
    BY <1>3, <1>5, <1>14 DEF Fire
  <1> QED
    BY <1>6, <1>7, <1>8, <1>9, <1>10, <1>11, <1>12, <1>13, <1>14 DEF Next, Watch, Poll

LEMMA InitBackoffs == Init => Backoffs
  <1> SUFFICES ASSUME Init PROVE Backoffs
    OBVIOUS
  <1>1. ASSUME NEW w \in Workers
        PROVE  pc[w] # "backoff" /\ failures[w] + 1 = 1 /\ backoff[w] = InitialBackoff
    BY <1>1 DEF Init
  <1> QED
    BY <1>1, PauseAfterFacts DEF Backoffs

-----------------------------------------------------------------------------

LEMMA WatcherInvStep == WatcherInv /\ [Next]_vars => WatcherInv'
  <1> SUFFICES ASSUME WatcherInv, [Next]_vars PROVE WatcherInv'
    OBVIOUS
  <1>1. TypeOK'
    BY TypeStep DEF WatcherInv
  <1>2. Fresh' /\ \A w \in Workers : Bound(w)'
    BY <1>1, TimelyStep, BoundIsTimely DEF WatcherInv
  <1>3. Waits' /\ Timely' /\ Alive'
    BY <1>2 DEF Waits, Timely, Alive, Bound, Fresh
  <1>4. Caught' /\ Sessions'
    BY CaughtStep, SessionsStep DEF WatcherInv
  <1> QED
    BY <1>1, <1>3, <1>4 DEF WatcherInv

\* The inductive invariant: what is left of a wait, who may still begin a pass
\* after stop, and where a thread has a session.
LEMMA WatcherCorrect == Spec => []WatcherInv
  BY InitWatcher, WatcherInvStep, PTL DEF Spec

\* The types, for every interval, pause and number of folders.
THEOREM WatcherTypes == Spec => []TypeOK
  <1>1. WatcherInv => TypeOK
    BY DEF WatcherInv
  <1> QED
    BY <1>1, WatcherCorrect, PTL

\* Mail that comes in is fetched within the wait of any thread that runs, if
\* that thread's session and pass do not fail (idle.py:47-58).
THEOREM FetchedInTimeTheorem == Spec => []FetchedInTime
  <1>1. WatcherInv => FetchedInTime
    BY DEF WatcherInv, Timely, FetchedInTime
  <1> QED
    BY <1>1, WatcherCorrect, PTL

\* A thread that was not connecting, nor past its look at stop, when stop was set
\* begins no pass after it (idle.py:40, 49 and 53, main.py:331).
THEOREM StopIsHeededTheorem == Spec => []StopIsHeeded
  <1>1. WatcherInv => StopIsHeeded
    BY DEF WatcherInv, Caught, StopIsHeeded
  <1> QED
    BY <1>1, WatcherCorrect, PTL

\* However sessions break, the next is opened after the last was closed
\* (idle.py:63-68).
THEOREM OneSessionTheorem == Spec => []OneSession
  <1>1. WatcherInv => OneSession
    BY DEF WatcherInv, Sessions
  <1> QED
    BY <1>1, WatcherCorrect, PTL

\* Any number of failures in a row is followed by the pause that doubles with
\* each, up to the maximum, and a session that came up resets it (idle.py:46, 61-62).
THEOREM PauseFollowsFailuresTheorem == Spec => []PauseFollowsFailures
  <1>1. Init => TypeOK /\ Backoffs
    BY InitWatcher, InitBackoffs DEF WatcherInv
  <1>2. TypeOK /\ Backoffs /\ [Next]_vars => (TypeOK /\ Backoffs)'
    BY TypeStep, BackoffsStep
  <1>3. TypeOK /\ Backoffs => PauseFollowsFailures
    <2> SUFFICES ASSUME TypeOK, Backoffs, NEW w \in Workers, pc[w] = "backoff"
                 PROVE  Pause(w) = Smaller(MaxBackoff, Doubled[failures[w]])
      BY DEF PauseFollowsFailures
    <2>1. failures[w] \in 1..MaxFailures /\ backoff[w] = PauseAfter(failures[w])
      BY WatcherAssumption DEF Backoffs, TypeOK
    <2> QED
      BY <2>1, PauseAfterFacts DEF Pause
  <1> QED
    BY <1>1, <1>2, <1>3, PTL DEF Spec

=============================================================================
