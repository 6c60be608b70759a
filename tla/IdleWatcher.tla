----------------------------- MODULE IdleWatcher -----------------------------
(***************************************************************************)
(* The threads that start the passes of MailSync: app/idle.py, the poll    *)
(* loop and lifespan of app/main.py.                                       *)
(*                                                                         *)
(* One watcher for each idle folder holds an IMAP session, waits in IDLE   *)
(* and starts a pass when the server reports something, when the wait runs *)
(* out, and whenever it has connected; a session that breaks is followed   *)
(* by a pause that doubles.  In poll mode one thread starts a pass each    *)
(* interval.  Time passes only while every thread waits: connections and   *)
(* passes are short beside the waits, and every call returns or raises.    *)
(***************************************************************************)
EXTENDS Integers, FiniteSets

CONSTANTS
  IdleFolders,     \* sync.idle_folders
  Poller,          \* the thread of the poll loop
  Intervals,       \* values of sync.interval_minutes
  MinRefresh,      \* 30 s
  MaxRefresh,      \* 20 min, under the 29 min that IMAP gives an IDLE
  InitialBackoff,  \* 5 s
  MaxBackoff,      \* 300 s
  MaxFailures,     \* failures in a row are counted up to this
  MaxAge           \* the age of mail is counted up to this

ASSUME WatcherAssumption ==
  /\ Poller \notin IdleFolders
  /\ Intervals \subseteq Nat
  /\ {MinRefresh, MaxRefresh, InitialBackoff, MaxBackoff} \subseteq Nat \ {0}
  /\ MinRefresh <= MaxRefresh /\ InitialBackoff <= MaxBackoff
  /\ MaxFailures \in Nat \ {0}
  /\ MaxAge \in Nat

VARIABLES
  mode,      \* sync.mode; anything but "idle" polls
  interval,  \* sync.interval_minutes
  stop,      \* _worker_stop
  pc,        \* where each thread is
  waited,    \* how long it has waited there
  told,      \* the server reported something in this IDLE
  backoff,   \* its local variable
  failures,  \* how often it failed since it was last connected
  sessions,  \* IMAP sessions it has open
  mail,      \* there is mail that no pass has fetched
  age,       \* for how long
  due,       \* due[w]: how soon after its arrival w is bound to fetch it
  caught,    \* threads that were past their look at stop when it was set
  late       \* threads that began a pass after stop was set

threadVars == <<pc, waited, told, backoff, failures, sessions>>
mailVars == <<mail, age, due>>
stopVars == <<stop, caught, late>>
vars == <<mode, interval, threadVars, mailVars, stopVars>>

Workers == IdleFolders \cup {Poller}
Never == -1

Smaller(x, y) == IF x < y THEN x ELSE y
Larger(x, y) == IF x > y THEN x ELSE y

\* mutant of Refresh: not cut down for IMAP's sake
Refresh_Uncapped == Larger(MinRefresh, interval)

Refresh == Larger(MinRefresh, Smaller(interval, MaxRefresh))

Started ==
  IF interval = 0 THEN {} ELSE IF mode = "idle" THEN IdleFolders ELSE {Poller}

\* how long a thread waits when nothing happens
Pause(w) ==
  IF pc[w] = "backoff" THEN backoff[w] ELSE IF w = Poller THEN interval ELSE Refresh

TypeOK ==
  /\ mode \in {"idle", "poll"}
  /\ interval \in Intervals
  /\ stop \in BOOLEAN
  /\ pc \in [Workers -> {"loop", "connect", "fire", "pass", "passed", "waiting", "backoff",
                      "ended"}]
  /\ \A w \in IdleFolders : pc[w] = "waiting" => waited[w] \in 0..MaxRefresh
  /\ waited \in [Workers -> Nat]
  /\ told \in [Workers -> BOOLEAN]
  /\ backoff \in [Workers -> InitialBackoff..MaxBackoff]
  /\ failures \in [Workers -> 0..MaxFailures]
  /\ sessions \in [Workers -> Nat]
  /\ mail \in BOOLEAN
  /\ age \in 0..MaxAge
  /\ due \in [Workers -> Nat \cup {Never}]
  /\ caught \subseteq Workers
  /\ late \subseteq Workers

\* lifespan starts the threads; the poll loop begins with a wait
Init ==
  /\ mode \in {"idle", "poll"}
  /\ interval \in Intervals
  /\ pc = [w \in Workers |-> IF w \notin Started THEN "ended"
                             ELSE IF w = Poller THEN "waiting" ELSE "loop"]
  /\ waited = [w \in Workers |-> 0]
  /\ told = [w \in Workers |-> FALSE]
  /\ backoff = [w \in Workers |-> InitialBackoff]
  /\ failures = [w \in Workers |-> 0]
  /\ sessions = [w \in Workers |-> 0]
  /\ mail = FALSE
  /\ age = 0
  /\ due = [w \in Workers |-> Never]
  /\ stop = FALSE
  /\ caught = {}
  /\ late = {}

-----------------------------------------------------------------------------
(* The watcher. *)

Goto(w, place) ==
  /\ pc' = [pc EXCEPT ![w] = place]
  /\ waited' = [waited EXCEPT ![w] = 0]
  /\ told' = [told EXCEPT ![w] = FALSE]

BeginPass(w) ==
  /\ Goto(w, "pass")
  /\ late' = IF stop THEN late \cup {w} ELSE late
  /\ UNCHANGED <<stop, caught>>

\* the exception handler: the pause begins, with the session still open
Break(w) ==
  /\ Goto(w, "backoff")
  /\ failures' = [failures EXCEPT ![w] = Smaller(@ + 1, MaxFailures)]
  /\ due' = [due EXCEPT ![w] = Never]
  /\ UNCHANGED <<mode, interval, backoff, mail, age, stopVars>>

\* mutant of Loop: stop is looked at in the inner loop only
Loop_Forever(w) ==
  /\ pc[w] = "loop"
  /\ Goto(w, "connect")
  /\ UNCHANGED <<mode, interval, backoff, failures, sessions, mailVars, stopVars>>

Loop(w) ==
  /\ pc[w] = "loop"
  /\ Goto(w, IF stop THEN "ended" ELSE "connect")
  /\ UNCHANGED <<mode, interval, backoff, failures, sessions, mailVars, stopVars>>

\* mutant of Connect: no pass to catch up
Connect_NoPass(w) ==
  /\ pc[w] = "connect"
  /\ sessions' = [sessions EXCEPT ![w] = @ + 1]
  /\ backoff' = [backoff EXCEPT ![w] = InitialBackoff]
  /\ failures' = [failures EXCEPT ![w] = 0]
  /\ Goto(w, "passed")
  /\ UNCHANGED <<mode, interval, mailVars, stopVars>>

\* mutant of Connect: the pause stays as long as it was
Connect_KeepsBackoff(w) ==
  /\ pc[w] = "connect"
  /\ sessions' = [sessions EXCEPT ![w] = @ + 1]
  /\ failures' = [failures EXCEPT ![w] = 0]
  /\ BeginPass(w)
  /\ UNCHANGED <<mode, interval, backoff, mailVars>>

\* connect and select_folder; then a pass catches up on what was missed
Connect(w) ==
  /\ pc[w] = "connect"
  /\ sessions' = [sessions EXCEPT ![w] = @ + 1]
  /\ backoff' = [backoff EXCEPT ![w] = InitialBackoff]
  /\ failures' = [failures EXCEPT ![w] = 0]
  /\ BeginPass(w)
  /\ UNCHANGED <<mode, interval, mailVars>>

\* connecting fails, or selecting the folder with the session open
ConnectFails(w) ==
  /\ pc[w] = "connect"
  /\ \/ UNCHANGED sessions
     \/ sessions' = [sessions EXCEPT ![w] = @ + 1]
  /\ Break(w)

\* logout, whether it raises or not
Logout(w) == sessions' = [sessions EXCEPT ![w] = 0]

\* back in the inner loop: out of it after stop, or into IDLE
EnterIdle(w) ==
  /\ w # Poller
  /\ pc[w] = "passed"
  /\ IF stop
       THEN Goto(w, "loop") /\ Logout(w)
       ELSE Goto(w, "waiting") /\ UNCHANGED sessions
  /\ UNCHANGED <<mode, interval, backoff, failures, mailVars, stopVars>>

WaitIsOver(w) == pc[w] = "waiting" /\ (told[w] \/ waited[w] = Pause(w))

\* mutant of LeaveIdle: stop is not looked at after the wait
LeaveIdle_NoCheck(w) ==
  /\ w # Poller
  /\ WaitIsOver(w)
  /\ Goto(w, "fire")
  /\ UNCHANGED <<mode, interval, backoff, failures, sessions, mailVars, stopVars>>

\* mutant of LeaveIdle: a pass only when something was reported
LeaveIdle_OnReport(w) ==
  /\ w # Poller
  /\ WaitIsOver(w)
  /\ IF stop
       THEN Goto(w, "loop") /\ Logout(w)
       ELSE Goto(w, IF told[w] THEN "fire" ELSE "passed") /\ UNCHANGED sessions
  /\ UNCHANGED <<mode, interval, backoff, failures, mailVars, stopVars>>

\* idle_check returns, idle_done, and another look at stop
LeaveIdle(w) ==
  /\ w # Poller
  /\ WaitIsOver(w)
  /\ IF stop
       THEN Goto(w, "loop") /\ Logout(w)
       ELSE Goto(w, "fire") /\ UNCHANGED sessions
  /\ UNCHANGED <<mode, interval, backoff, failures, mailVars, stopVars>>

\* the session breaks: idle, idle_check or idle_done raises
IdleFails(w) ==
  /\ w # Poller
  /\ \/ pc[w] = "passed" /\ ~stop
     \/ pc[w] = "waiting"
  /\ Break(w)
  /\ UNCHANGED sessions

\* mutant of Retry: the session is closed only on the way out
Retry_NoLogout(w) ==
  /\ pc[w] = "backoff"
  /\ stop \/ waited[w] = Pause(w)
  /\ backoff' = [backoff EXCEPT ![w] = Smaller(@ * 2, MaxBackoff)]
  /\ Goto(w, "loop")
  /\ UNCHANGED <<mode, interval, failures, sessions, mailVars, stopVars>>

\* the pause ends, or stop ends it; the next one will be twice as long
Retry(w) ==
  /\ pc[w] = "backoff"
  /\ stop \/ waited[w] = Pause(w)
  /\ backoff' = [backoff EXCEPT ![w] = Smaller(@ * 2, MaxBackoff)]
  /\ Logout(w)
  /\ Goto(w, "loop")
  /\ UNCHANGED <<mode, interval, failures, mailVars, stopVars>>

-----------------------------------------------------------------------------
(* The pass, and the poll loop. *)

\* the pass begins, whatever happened to stop since it was looked at
Fire(w) ==
  /\ pc[w] = "fire"
  /\ BeginPass(w)
  /\ UNCHANGED <<mode, interval, backoff, failures, sessions, mailVars>>

\* incremental fetches what has come in
Pass(w) ==
  /\ pc[w] = "pass"
  /\ mail' = FALSE
  /\ age' = 0
  /\ due' = [v \in Workers |-> Never]
  /\ Goto(w, "passed")
  /\ UNCHANGED <<mode, interval, backoff, failures, sessions, stopVars>>

\* it raises before: _run_incremental logs that and returns
PassFails(w) ==
  /\ pc[w] = "pass"
  /\ due' = [due EXCEPT ![w] = Never]
  /\ Goto(w, "passed")
  /\ UNCHANGED <<mode, interval, backoff, failures, sessions, mail, age, stopVars>>

\* mutant of PollAgain: an error ends the loop, which has no try of its own
PollAgain_Ends ==
  /\ pc[Poller] = "passed"
  /\ Goto(Poller, IF mail THEN "ended" ELSE "waiting")
  /\ UNCHANGED <<mode, interval, backoff, failures, sessions, mailVars, stopVars>>

PollAgain ==
  /\ pc[Poller] = "passed"
  /\ Goto(Poller, "waiting")
  /\ UNCHANGED <<mode, interval, backoff, failures, sessions, mailVars, stopVars>>

\* _worker_stop.wait returns at once when stop is set
PollWakes ==
  /\ pc[Poller] = "waiting"
  /\ stop \/ waited[Poller] = Pause(Poller)
  /\ Goto(Poller, IF stop THEN "ended" ELSE "fire")
  /\ UNCHANGED <<mode, interval, backoff, failures, sessions, mailVars, stopVars>>

-----------------------------------------------------------------------------
(* The rest of the world. *)

\* mail comes in, in a watched folder or in another
Arrive ==
  /\ ~mail
  /\ mail' = TRUE
  /\ due' = [w \in Workers |-> IF w \in Started /\ ~stop THEN Pause(w) ELSE Never]
  /\ UNCHANGED <<mode, interval, threadVars, age, stopVars>>

\* the server tells a watcher in IDLE: of new mail, or of anything else
Report(w) ==
  /\ pc[w] = "waiting"
  /\ ~told[w]
  /\ told' = [told EXCEPT ![w] = TRUE]
  /\ UNCHANGED <<mode, interval, pc, waited, backoff, failures, sessions, mailVars, stopVars>>

Waiting(w) == pc[w] \in {"waiting", "backoff"} /\ waited[w] < Pause(w) /\ ~told[w]

\* Time passes while the threads wait; stop wakes those that wait for it.
Tick ==
  /\ \A w \in Started : Waiting(w) \/ pc[w] = "ended"
  /\ \A w \in Started : stop => pc[w] # "backoff" /\ (w = Poller => pc[w] = "ended")
  /\ \E w \in Started : pc[w] # "ended"
  /\ waited' = [w \in Workers |-> IF Waiting(w) THEN waited[w] + 1 ELSE waited[w]]
  /\ age' = IF mail THEN Smaller(age + 1, MaxAge) ELSE 0
  /\ UNCHANGED <<mode, interval, pc, told, backoff, failures, sessions, mail, due, stopVars>>

\* the service shuts down: lifespan sets _worker_stop
Stop ==
  /\ ~stop
  /\ stop' = TRUE
  /\ caught' = {w \in Workers : pc[w] \in {"connect", "fire"}}
  /\ due' = [w \in Workers |-> Never]
  /\ UNCHANGED <<mode, interval, threadVars, mail, age, late>>

Watch(w) ==
  \/ Loop(w)
  \/ Connect(w) \/ ConnectFails(w)
  \/ EnterIdle(w) \/ LeaveIdle(w) \/ IdleFails(w)
  \/ Retry(w)
  \/ Fire(w) \/ Pass(w) \/ PassFails(w)

Poll == PollWakes \/ Fire(Poller) \/ Pass(Poller) \/ PassFails(Poller) \/ PollAgain

Next ==
  \/ \E w \in IdleFolders : Watch(w) \/ Report(w)
  \/ Poll
  \/ Arrive
  \/ Tick
  \/ Stop

\* The threads run and time goes on; connecting works now and then, and so
\* does fetching.
Fairness ==
  /\ \A w \in IdleFolders : WF_vars(Watch(w)) /\ SF_vars(Connect(w)) /\ SF_vars(Pass(w))
  /\ WF_vars(Poll) /\ SF_vars(Pass(Poller))
  /\ SF_vars(Tick)

Spec == Init /\ [][Next]_vars /\ Fairness

-----------------------------------------------------------------------------
(* Properties. *)

\* Mail is fetched within a refresh interval of its arrival, or, if it came
\* while the watcher paused after an error, by the end of that pause: "Sync
\* once on (re)connect to catch anything missed while down", reported or not,
\* in a watched folder or in another.  A failure in between lifts the bound.
FetchedInTime ==
  \A w \in Workers : due[w] # Never => age <= due[w]

Doubled[n \in 1..MaxFailures] == IF n = 1 THEN InitialBackoff ELSE 2 * Doubled[n - 1]

\* bound: failures are counted until the pause is at its longest
ASSUME CountAssumption == MaxBackoff <= Doubled[MaxFailures]

\* The nth failure in a row is followed by a pause of 5 s doubled n - 1 times,
\* up to 300 s, and a session that came up resets it.
PauseFollowsFailures ==
  \A w \in Workers : pc[w] = "backoff" =>
    Pause(w) = Smaller(MaxBackoff, Doubled[failures[w]])

\* A watcher has one session, and none when it has ended or connects again.
OneSession ==
  \A w \in Workers : sessions[w] <= IF pc[w] \in {"loop", "connect", "ended"} THEN 0 ELSE 1

\* After stop a pass is begun only by a thread that was connecting, or about to
\* begin it, when stop was set: nobody waits another time and begins one then.
StopIsHeeded == late \subseteq caught

\* Every thread starts passes for ever, until stop: the fairness that MailSync
\* asks of its workers.
KeepsFiring ==
  \A w \in Workers : w \in Started => []<>(stop \/ pc[w] = "pass")

\* Mail is fetched in the end, whatever fails and whatever is not reported.
MailIsFetched == Started # {} => [](mail => <>(~mail \/ stop))

\* After stop every thread ends.
Stops == stop ~> \A w \in Workers : pc[w] = "ended"

=============================================================================
