-------------------------------- MODULE Logger --------------------------------
(* src/utils/log.h: the threads of the program log messages and count       *)
(* statistics, a thread of the LogPrinter shows both on the screen, and a   *)
(* CHECK that fails ends the process.  dataChanged and the statistics are   *)
(* read and written without the lock.  UPDATE_STATS, after which            *)
(* MessageFragmentationLayer always counts, and the error rate are left out.*)
EXTENDS Integers, Sequences, FiniteSets, SequencesExt

CONSTANTS
  Thread,            \* the main loop and the tunnel thread
  NUM_LINES_LOGGED,
  MaxChanges         \* bound: messages and counts of one execution

ASSUME LoggerAssumption ==
  /\ IsFiniteSet(Thread)
  /\ NUM_LINES_LOGGED \in Nat \ {0}
  /\ MaxChanges \in Nat

VARIABLES
  log_queue_,    \* the messages, by their numbers
  stats,         \* how much has been counted
  changes,       \* how many messages and counts there were
  dataChanged,
  stop_thread_,
  screen,        \* what was printed last
  printer,       \* where log_thread is
  thread,        \* where each thread is in a macro or in exit
  fatal          \* the message of the CHECK that failed in a thread, 0 if none

dataVars == <<log_queue_, stats, changes>>
vars == <<dataVars, dataChanged, stop_thread_, screen, printer, thread, fatal>>

Init ==
  /\ log_queue_ = <<>>
  /\ stats = 0
  /\ changes = 0
  /\ dataChanged = FALSE
  /\ stop_thread_ = FALSE
  /\ screen = [messages |-> <<>>, stats |-> 0]
  /\ printer = "woken"
  /\ thread = [t \in Thread |-> "idle"]
  /\ fatal = [t \in Thread |-> 0]

-----------------------------------------------------------------------------
(* log_thread.  The other holders of the lock keep it for one step, so that *)
(* it is free whenever this thread does not hold it.                        *)

PrinterLocked ==
  printer \in {"testing", "releasing", "changed", "printing", "printed"}

AcquireLock ==
  /\ printer = "woken"
  /\ printer' = "testing"
  /\ UNCHANGED <<dataVars, dataChanged, stop_thread_, screen, thread, fatal>>

TestChanged ==
  /\ printer = "testing"
  /\ printer' = IF dataChanged THEN "changed" ELSE "releasing"
  /\ UNCHANGED <<dataVars, dataChanged, stop_thread_, screen, thread, fatal>>

\* A change between the test and the wait, and its notification, go by unseen.
Block ==
  /\ printer = "releasing"
  /\ printer' = "blocked"
  /\ UNCHANGED <<dataVars, dataChanged, stop_thread_, screen, thread, fatal>>

\* Faulty: a wait without a limit.
TimedOutNever == FALSE

\* 1500 milliseconds.
TimedOut == printer = "blocked"

\* The thread goes on, changed or not.
WaitTimesOut ==
  /\ TimedOut
  /\ printer' = "changed"
  /\ UNCHANGED <<dataVars, dataChanged, stop_thread_, screen, thread, fatal>>

\* Faulty: clears the flag after it has printed.
FlagAfterLate(step) == dataChanged /\ step # "printed"

\* dataChanged is cleared before anything else.
FlagAfter(step) == dataChanged /\ step # "changed"

\* Faulty: does not look whether it is to stop.
AfterClearOnwards == "printing"

AfterClear == IF stop_thread_ THEN "ended" ELSE "printing"

Clear ==
  /\ printer = "changed"
  /\ dataChanged' = FlagAfter("changed")
  /\ printer' = AfterClear
  /\ UNCHANGED <<dataVars, stop_thread_, screen, thread, fatal>>

\* Faulty: keeps a line too many.
LastLinesOneMore(queue) ==
  SubSeq(queue, Max({1, Len(queue) - NUM_LINES_LOGGED}), Len(queue))

LastLines(queue) ==
  SubSeq(queue, Max({1, Len(queue) - NUM_LINES_LOGGED + 1}), Len(queue))

\* What is shown is what was read into string_message.
PrintScreen ==
  /\ printer = "printing"
  /\ log_queue_' = LastLines(log_queue_)
  /\ screen' = [messages |-> LastLines(log_queue_), stats |-> stats]
  /\ printer' = "printed"
  /\ UNCHANGED <<stats, changes, dataChanged, stop_thread_, thread, fatal>>

\* The lock is released at the end of the turn.
EndTurn ==
  /\ printer = "printed"
  /\ dataChanged' = FlagAfter("printed")
  /\ printer' = "woken"
  /\ UNCHANGED <<dataVars, stop_thread_, screen, thread, fatal>>

LogThread ==
  AcquireLock \/ TestChanged \/ Block \/ WaitTimesOut \/ Clear \/ PrintScreen \/ EndTurn

-----------------------------------------------------------------------------
(* The macros LOG, INCREMENT_STATS and CHECK in the other threads *)

Exited == \E t \in Thread : thread[t] = "exited"

At(t, step) == thread[t] = step /\ ~Exited

Moves(t, step) == thread' = [thread EXCEPT ![t] = step]

NotifyAll == printer' = IF printer = "blocked" THEN "woken" ELSE printer

\* LogPrinter::log, for a CHECK that fails as well.
Log(t) ==
  /\ At(t, "idle") /\ changes < MaxChanges
  /\ ~PrinterLocked
  /\ log_queue_' = Append(log_queue_, changes + 1)
  /\ changes' = changes + 1
  /\ \/ UNCHANGED fatal
     \/ /\ \A other \in Thread : fatal[other] = 0
        /\ fatal' = [fatal EXCEPT ![t] = changes + 1]
  /\ NotifyAll
  /\ Moves(t, "changed")
  /\ UNCHANGED <<stats, dataChanged, stop_thread_, screen>>

\* No lock is taken.
Count(t) ==
  /\ At(t, "idle") /\ changes < MaxChanges
  /\ stats' = stats + 1
  /\ changes' = changes + 1
  /\ Moves(t, "changed")
  /\ UNCHANGED <<log_queue_, dataChanged, stop_thread_, screen, printer, fatal>>

SetChanged(t) ==
  /\ At(t, "changed")
  /\ dataChanged' = TRUE
  /\ Moves(t, "flagged")
  /\ UNCHANGED <<dataVars, stop_thread_, screen, printer, fatal>>

Notify(t) ==
  /\ At(t, "flagged")
  /\ NotifyAll
  /\ Moves(t, IF fatal[t] = 0 THEN "idle" ELSE "exiting")
  /\ UNCHANGED <<dataVars, dataChanged, stop_thread_, screen, fatal>>

\* exit destroys the LogPrinter: stop_thread_ is set under the lock,
StopThread(t) ==
  /\ At(t, "exiting")
  /\ ~PrinterLocked
  /\ stop_thread_' = TRUE
  /\ Moves(t, "stopping")
  /\ UNCHANGED <<dataVars, dataChanged, screen, printer, fatal>>

\* the thread is notified, though it does not wait for stop_thread_,
NotifyStop(t) ==
  /\ At(t, "stopping")
  /\ NotifyAll
  /\ Moves(t, "joining")
  /\ UNCHANGED <<dataVars, dataChanged, stop_thread_, screen, fatal>>

\* and joined.
Join(t) ==
  /\ At(t, "joining")
  /\ printer = "ended"
  /\ Moves(t, "exited")
  /\ UNCHANGED <<dataVars, dataChanged, stop_thread_, screen, printer, fatal>>

Continue(t) ==
  SetChanged(t) \/ Notify(t) \/ StopThread(t) \/ NotifyStop(t) \/ Join(t)

-----------------------------------------------------------------------------

Next == LogThread \/ \E t \in Thread : Log(t) \/ Count(t) \/ Continue(t)

Spec == Init /\ [][Next]_vars

\* The threads are scheduled, and none keeps log_thread from the lock for ever.
FairSpec == Spec /\ WF_vars(LogThread) /\ \A t \in Thread : SF_vars(Continue(t))

\* The screen shows no more lines than there is room for, and messages in the
\* order in which they were logged.
TypeOK ==
  /\ {log_queue_, screen.messages} \subseteq Seq(1..MaxChanges)
  /\ Len(screen.messages) <= NUM_LINES_LOGGED
  /\ \A i, j \in DOMAIN screen.messages : i < j => screen.messages[i] < screen.messages[j]
  /\ {stats, changes, screen.stats} \subseteq 0..MaxChanges
  /\ {dataChanged, stop_thread_} \subseteq BOOLEAN
  /\ printer \in {"woken", "testing", "releasing", "blocked", "changed", "printing", "printed",
                  "ended"}
  /\ thread \in [Thread -> {"idle", "changed", "flagged", "exiting", "stopping",
                            "joining", "exited"}]
  /\ fatal \in [Thread -> 0..MaxChanges]

Current == screen = [messages |-> LastLines(log_queue_), stats |-> stats]

\* While the screen is out of date, log_thread has been told or is about to be:
\* no order of the unlocked writes of dataChanged against the test, the clearing
\* and the printing loses the fact that something has changed.
StaleFlagged ==
  ~Current /\ printer # "ended" =>
    \/ dataChanged
    \/ printer = "printing"
    \/ \E t \in Thread : thread[t] = "changed"

\* When nothing changes any more, the screen comes to show the last state,
\* although a notification between the test and the wait is lost.
ScreenCatchesUp == <>[](Current \/ stop_thread_)

\* A CHECK that fails ends the process: log_thread, which does not wait for
\* stop_thread_, sees it all the same.
ExitEnds == \A t \in Thread : thread[t] = "exiting" ~> Exited

\* "Check a condition and quit if it evaluates to false with an error log"
\* (log.h:235): the message of the failed CHECK is on the screen at the end.
FatalShown ==
  \A t \in Thread : thread[t] = "exited" =>
    \E i \in DOMAIN screen.messages : screen.messages[i] = fatal[t]
=============================================================================
