--------------------------- MODULE CppThreadsTimer ---------------------------
(***************************************************************************)
(* CppThreadsTimer: a timer made of a flag, a condition variable and a     *)
(* thread per start().  One caller (AshDriver or BootloaderPromptDriver)   *)
(* calls start() and stop() one after the other, while the threads it      *)
(* created run routine().  A step is one access to the state they share,   *)
(* started, the condition variable or the thread object.  The accesses to  *)
(* started are not synchronised in the code; they are taken to happen one  *)
(* after the other.  Starts are numbered, and a thread bears the number of *)
(* the start() that created it.  The names say Timer where DongleThreads   *)
(* has the same, so that one module can extend both.                       *)
(***************************************************************************)
EXTENDS Naturals

CONSTANT MaxStarts   \* bound: how many times start() is called

ASSUME TimerAssumption == MaxStarts \in Nat \ {0}

Starts == 1 .. MaxStarts

VARIABLES
  started,        \* the timer is running, or has expired and is not stopped
  waitingThread,  \* the start whose thread can be joined, or 0
  callback,       \* the start that callback belongs to, or 0
  routine,        \* where each thread is in routine()
  caller,         \* where the caller is in start() or stop()
  restarts,       \* stop() was called by start()
  starts,         \* history: how many times start() was called
  terminated      \* a joinable std::thread was overwritten: std::terminate()

timerVars == <<started, waitingThread, callback, routine, caller, restarts, starts, terminated>>

TimerTypeOK ==
  /\ started \in BOOLEAN
  /\ waitingThread \in 0 .. MaxStarts
  /\ callback \in 0 .. MaxStarts
  /\ routine \in [Starts -> {"none", "begin", "dozing", "waiting", "woken", "check",
                             "calling", "done"}]
  /\ caller \in {"idle", "clear", "notify", "join", "set", "assign", "spawn"}
  /\ restarts \in BOOLEAN
  /\ starts \in 0 .. MaxStarts
  /\ terminated \in BOOLEAN

TimerInit ==
  /\ started = FALSE
  /\ waitingThread = 0 /\ callback = 0
  /\ routine = [s \in Starts |-> "none"]
  /\ caller = "idle" /\ restarts = FALSE
  /\ starts = 0 /\ terminated = FALSE

-----------------------------------------------------------------------------
(* The caller.                                                               *)

CallerGoes(from, to) == caller = from /\ caller' = to

(* start() first stops a timer that was started.                             *)
StartCalled ==
  /\ ~terminated /\ starts < MaxStarts
  /\ starts' = starts + 1
  /\ CallerGoes("idle", IF started THEN "clear" ELSE "set")
  /\ restarts' = started
  /\ UNCHANGED <<started, waitingThread, callback, routine, terminated>>

(* stop() does nothing unless the timer was started.                         *)
StopCalled ==
  /\ ~terminated /\ started
  /\ CallerGoes("idle", "clear")
  /\ restarts' = FALSE
  /\ UNCHANGED <<started, waitingThread, callback, routine, starts, terminated>>

StopClears ==
  /\ CallerGoes("clear", "notify")
  /\ started' = FALSE
  /\ UNCHANGED <<waitingThread, callback, routine, restarts, starts, terminated>>

(* notify_one() wakes the thread that waits, if one does: cv_m is not held,  *)
(* and a thread that has read started but does not wait yet sleeps on.       *)
StopNotifies ==
  /\ CallerGoes("notify", "join")
  /\ routine' = [s \in Starts |-> IF routine[s] = "waiting" THEN "woken" ELSE routine[s]]
  /\ UNCHANGED <<started, waitingThread, callback, restarts, starts, terminated>>

(* Mutant: stop() does not wait for the end of the thread.                   *)
StopDetaches ==
  /\ CallerGoes("join", IF restarts THEN "set" ELSE "idle")
  /\ waitingThread' = 0
  /\ UNCHANGED <<started, callback, routine, restarts, starts, terminated>>

StopJoins ==
  /\ CallerGoes("join", IF restarts THEN "set" ELSE "idle")
  /\ waitingThread # 0 => routine[waitingThread] = "done"
  /\ waitingThread' = 0
  /\ UNCHANGED <<started, callback, routine, restarts, starts, terminated>>

(* Without a callback nothing is started; with a timeout of 0 the caller     *)
(* runs the callback itself, and nothing is started either.                  *)
StartsNothing ==
  /\ CallerGoes("set", "idle")
  /\ UNCHANGED <<started, waitingThread, callback, routine, restarts, starts, terminated>>

StartSets ==
  /\ CallerGoes("set", "assign")
  /\ started' = TRUE
  /\ UNCHANGED <<waitingThread, callback, routine, restarts, starts, terminated>>

StartAssigns ==
  /\ CallerGoes("assign", "spawn")
  /\ callback' = starts
  /\ UNCHANGED <<started, waitingThread, routine, restarts, starts, terminated>>

StartSpawns ==
  /\ CallerGoes("spawn", "idle")
  /\ IF waitingThread # 0
     THEN terminated' = TRUE /\ UNCHANGED <<waitingThread, routine>>
     ELSE /\ waitingThread' = starts
          /\ routine' = [routine EXCEPT ![starts] = "begin"]
          /\ UNCHANGED terminated
  /\ UNCHANGED <<started, callback, restarts, starts>>

-----------------------------------------------------------------------------
(* routine() in the thread of start s.                                       *)

Moves(s, from, to) ==
  /\ ~terminated /\ routine[s] = from
  /\ routine' = [routine EXCEPT ![s] = to]

unmoved == <<waitingThread, callback, caller, restarts, starts, terminated>>

(* wait_for() reads started before it waits and each time it is woken.       *)
ReadsStarted(s) ==
  /\ \/ Moves(s, "begin", IF started THEN "dozing" ELSE "check")
     \/ Moves(s, "woken", IF started THEN "dozing" ELSE "check")
  /\ UNCHANGED <<started, unmoved>>

FallsAsleep(s) ==
  /\ Moves(s, "dozing", "waiting")
  /\ UNCHANGED <<started, unmoved>>

(* Mutant: wait() instead of wait_for().                                     *)
NeverElapses(s) == FALSE /\ Moves(s, "waiting", "check") /\ UNCHANGED <<started, unmoved>>

Elapses(s) ==
  /\ Moves(s, "waiting", "check")
  /\ UNCHANGED <<started, unmoved>>

ChecksStarted(s) ==
  /\ Moves(s, "check", IF started THEN "calling" ELSE "done")
  /\ UNCHANGED <<started, unmoved>>

(* Mutant: a timer that has expired is no longer started.                    *)
CallsBackAndClears(s) ==
  /\ Moves(s, "calling", "done")
  /\ started' = FALSE
  /\ UNCHANGED unmoved

(* The callback, which does not start or stop this timer.                    *)
CallsBack(s) ==
  /\ Moves(s, "calling", "done")
  /\ UNCHANGED <<started, unmoved>>

Routine(s) ==
  ReadsStarted(s) \/ FallsAsleep(s) \/ Elapses(s) \/ ChecksStarted(s) \/ CallsBack(s)

-----------------------------------------------------------------------------
CallerSteps ==
  \/ StopClears \/ StopNotifies \/ StopJoins
  \/ StartsNothing \/ StartSets \/ StartAssigns \/ StartSpawns

TimerNext == StartCalled \/ StopCalled \/ CallerSteps \/ \E s \in Starts : Routine(s)

TimerSpec == TimerInit /\ [][TimerNext]_timerVars

(* Threads are scheduled and time passes; nobody has to call anything.       *)
TimerFairSpec ==
  /\ TimerSpec
  /\ WF_timerVars(CallerSteps)
  /\ \A s \in Starts : WF_timerVars(Routine(s))

-----------------------------------------------------------------------------
(* Properties.                                                               *)

Live(s) == routine[s] \notin {"none", "done"}

(* "Stop and reset the timer ... the callback associated with this timer     *)
(* will not be run" (CppThreadsTimer.h:43): once stop() has returned, or     *)
(* start() has stopped the timer, no thread of an earlier start is left that *)
(* could still call back.                                                    *)
NoStaleThread == \A s \in Starts : Live(s) => s = waitingThread

(* A thread never calls a callback that is not the one it was started with.  *)
OwnCallback == \A s \in Starts : routine[s] = "calling" => callback = s

(* start() never assigns to a thread object that can still be joined, which  *)
(* would end the process: started stays TRUE after the timer has expired, so *)
(* that the next start() joins its thread.                                   *)
NeverTerminates == ~terminated

(* stop() returns, and so does a start() that has to stop the timer: the     *)
(* notification may be lost, but the timeout then ends the wait.             *)
CallReturns == caller # "idle" ~> caller = "idle"

(* A timer that is started and not stopped calls back.                       *)
Fires == \A s \in Starts :
  routine[s] = "begin" ~> (routine[s] = "calling" \/ caller \in {"clear", "notify", "join"})

=============================================================================
