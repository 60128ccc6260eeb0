----------------------------- MODULE LoggerProofs -----------------------------
(* Theorems about the logger, for every number of threads, of lines on the  *)
(* screen and of changes.                                                   *)
EXTENDS Logger, SequenceTheorems, TLAPS

Ordered(queue) == \A i, j \in DOMAIN queue : i < j => queue[i] < queue[j]

(* TypeOK says that the screen shows messages in their order, which is so   *)
(* because the queue is in order and its last message is not newer than the *)
(* number of changes.                                                       *)
QueueInOrder ==
  /\ Ordered(log_queue_)
  /\ \A i \in DOMAIN log_queue_ : log_queue_[i] <= changes
  /\ stats <= changes

LoggerInv == TypeOK /\ QueueInOrder /\ StaleFlagged

LEMMA SeqElements ==
  ASSUME NEW queue \in Seq(1..MaxChanges)
  PROVE  /\ Len(queue) \in Nat /\ DOMAIN queue = 1..Len(queue)
         /\ \A i \in 1..Len(queue) : queue[i] \in 1..MaxChanges /\ queue[i] \in Int
<1>1. Len(queue) \in Nat /\ DOMAIN queue = 1..Len(queue)
  BY LenProperties
<1>2. \A i \in 1..Len(queue) : queue[i] \in 1..MaxChanges
  BY ElementOfSeq
<1>3. QED
  BY <1>1, <1>2

\* Where the last lines begin.
LEMMA MaxWithOne ==
  ASSUME NEW k \in Int
  PROVE  Max({1, k}) = IF k > 1 THEN k ELSE 1
<1>1. \E x \in {1, k} : \A y \in {1, k} : x >= y
  OBVIOUS
<1>2. Max({1, k}) \in {1, k} /\ \A y \in {1, k} : Max({1, k}) >= y
  BY <1>1 DEF Max
<1>3. QED
  BY <1>2

\* The last lines are a part of the queue, in its order, and no more than there
\* is room for.
LEMMA LastLinesType ==
  ASSUME NEW queue \in Seq(1..MaxChanges)
  PROVE  /\ LastLines(queue) \in Seq(1..MaxChanges)
         /\ Len(LastLines(queue)) <= NUM_LINES_LOGGED
         /\ Ordered(queue) => Ordered(LastLines(queue))
         /\ \A i \in DOMAIN LastLines(queue) :
              \E j \in DOMAIN queue : LastLines(queue)[i] = queue[j]
<1> DEFINE first == Max({1, Len(queue) - NUM_LINES_LOGGED + 1})
           lines == LastLines(queue)
<1>1. NUM_LINES_LOGGED \in Nat \ {0} /\ Len(queue) \in Nat
  BY LoggerAssumption, LenProperties
<1>2. first = IF Len(queue) - NUM_LINES_LOGGED + 1 > 1
              THEN Len(queue) - NUM_LINES_LOGGED + 1 ELSE 1
  BY <1>1, MaxWithOne
<1>3. first \in 1..Len(queue) + 1 /\ Len(queue) - first + 1 <= NUM_LINES_LOGGED
  BY <1>1, <1>2
<1>4. /\ lines \in Seq(1..MaxChanges)
      /\ Len(lines) = Len(queue) - first + 1
      /\ \A i \in 1..Len(lines) : lines[i] = queue[first + i - 1]
  <2> HIDE DEF first
  <2>1. lines = SubSeq(queue, first, Len(queue))
    BY DEF first, LastLines
  <2>2. \A i \in first..Len(queue) : queue[i] \in 1..MaxChanges
    <3>1. \A i \in first..Len(queue) : i \in 1..Len(queue)
      BY <1>1, <1>3
    <3>2. QED
      BY <3>1, SeqElements
  <2>3. first \in Int /\ Len(queue) \in Int
    BY <1>1, <1>3
  <2>4. /\ lines \in Seq(1..MaxChanges)
        /\ Len(lines) = IF first <= Len(queue) THEN Len(queue) - first + 1 ELSE 0
        /\ \A i \in 1..Len(queue) - first + 1 : lines[i] = queue[first + i - 1]
    BY <2>1, <2>2, <2>3, SubSeqProperties
  <2>5. QED
    BY <1>1, <1>3, <2>4
<1>5. DOMAIN lines = 1..Len(lines) /\ DOMAIN queue = 1..Len(queue)
  BY <1>4, LenProperties
<1> HIDE DEF first, lines
<1>6. \A i \in 1..Len(lines) : first + i - 1 \in 1..Len(queue)
  BY <1>1, <1>3, <1>4
<1>7. Ordered(queue) => Ordered(lines)
  <2> SUFFICES ASSUME Ordered(queue), NEW i \in 1..Len(lines), NEW j \in 1..Len(lines), i < j
               PROVE  lines[i] < lines[j]
    BY <1>5 DEF Ordered
  <2>1. first + i - 1 < first + j - 1
    BY <1>1, <1>3, <1>4
  <2>2. QED
    BY <1>4, <1>5, <1>6, <2>1 DEF Ordered
<1>8. QED
  BY <1>3, <1>4, <1>5, <1>6, <1>7 DEF lines

\* A queue that was cut to its last lines is not cut any further.
LEMMA LastLinesAgain ==
  ASSUME NEW queue \in Seq(1..MaxChanges)
  PROVE  LastLines(LastLines(queue)) = LastLines(queue)
<1> DEFINE lines == LastLines(queue)
<1>1. lines \in Seq(1..MaxChanges) /\ Len(lines) <= NUM_LINES_LOGGED
  BY LastLinesType
<1>2. NUM_LINES_LOGGED \in Nat \ {0} /\ Len(lines) \in Nat
  BY <1>1, LoggerAssumption, LenProperties
<1> HIDE DEF lines
<1>3. Max({1, Len(lines) - NUM_LINES_LOGGED + 1}) = 1
  BY <1>1, <1>2, MaxWithOne
<1>4. SubSeq(lines, 1, Len(lines)) = lines
  BY <1>1, SubSeqFull
<1>5. QED
  BY <1>3, <1>4 DEF LastLines, lines

LEMMA LoggerInit == ASSUME Init PROVE LoggerInv
<1>1. <<>> \in Seq(1..MaxChanges) /\ Len(<<>>) = 0 /\ DOMAIN <<>> = {}
  OBVIOUS
<1>2. TypeOK
  <2>1. screen.messages = <<>> /\ screen.stats = 0
    BY DEF Init
  <2>2. /\ {log_queue_, screen.messages} \subseteq Seq(1..MaxChanges)
        /\ Len(screen.messages) <= NUM_LINES_LOGGED
        /\ DOMAIN screen.messages = {}
    BY <1>1, <2>1, LoggerAssumption DEF Init
  <2>3. {stats, changes, screen.stats} \subseteq 0..MaxChanges /\ 0 \in 0..MaxChanges
    BY <2>1, LoggerAssumption DEF Init
  <2>4. QED
    BY <2>2, <2>3 DEF Init, TypeOK
<1>3. QueueInOrder
  BY <1>1 DEF Init, QueueInOrder, Ordered
<1>4. StaleFlagged
  <2>1. Len(LastLines(<<>>)) = 0 /\ LastLines(<<>>) \in Seq(1..MaxChanges)
    <3>1. Max({1, Len(<<>>) - NUM_LINES_LOGGED + 1}) = 1
      BY <1>1, LoggerAssumption, MaxWithOne
    <3>2. QED
      BY <1>1, <3>1, SubSeqFull DEF LastLines
  <2>2. LastLines(<<>>) = <<>>
    BY <2>1, EmptySeq
  <2>3. QED
    BY <2>2 DEF Init, StaleFlagged, Current
<1>5. QED
  BY <1>2, <1>3, <1>4 DEF LoggerInv

\* Steps of log_thread that show nothing.
LEMMA WaitingInv ==
  ASSUME LoggerInv, AcquireLock \/ TestChanged \/ Block \/ WaitTimesOut \/ Clear \/ EndTurn
  PROVE  LoggerInv'
<1>1. UNCHANGED <<dataVars, stop_thread_, screen, thread, fatal>>
  BY DEF AcquireLock, TestChanged, Block, WaitTimesOut, Clear, EndTurn
<1>2. /\ printer' \in {"testing", "changed", "releasing", "blocked", "ended", "printing", "woken"}
      /\ dataChanged' \in BOOLEAN
      /\ printer # "ended" /\ printer # "printing"
      /\ dataChanged' = dataChanged \/ printer' \in {"ended", "printing"}
  <2>1. CASE Clear
    BY <2>1 DEF Clear, AfterClear, FlagAfter, LoggerInv, TypeOK
  <2>2. CASE EndTurn
    <3>1. dataChanged' = (dataChanged /\ "printed" # "changed")
      BY <2>2 DEF EndTurn, FlagAfter
    <3>2. QED
      BY <2>2, <3>1 DEF EndTurn, LoggerInv, TypeOK
  <2>3. CASE AcquireLock \/ TestChanged \/ Block \/ WaitTimesOut
    BY <2>3 DEF AcquireLock, TestChanged, Block, WaitTimesOut, TimedOut, LoggerInv, TypeOK
  <2>4. QED
    BY <2>1, <2>2, <2>3
<1>3. TypeOK' /\ QueueInOrder'
  BY <1>1, <1>2 DEF LoggerInv, TypeOK, QueueInOrder, Ordered, dataVars
<1>4. StaleFlagged'
  BY <1>1, <1>2 DEF LoggerInv, StaleFlagged, Current, dataVars
<1>5. QED
  BY <1>3, <1>4 DEF LoggerInv

LEMMA PrintScreenInv == ASSUME LoggerInv, PrintScreen PROVE LoggerInv'
<1>1. /\ log_queue_' = LastLines(log_queue_)
      /\ screen' = [messages |-> LastLines(log_queue_), stats |-> stats]
      /\ printer' = "printed"
      /\ UNCHANGED <<stats, changes, dataChanged, stop_thread_, thread, fatal>>
  BY DEF PrintScreen
<1>2. log_queue_ \in Seq(1..MaxChanges)
  BY DEF LoggerInv, TypeOK
<1>3. /\ LastLines(log_queue_) \in Seq(1..MaxChanges)
      /\ Len(LastLines(log_queue_)) <= NUM_LINES_LOGGED
      /\ Ordered(LastLines(log_queue_))
      /\ \A i \in DOMAIN LastLines(log_queue_) :
           \E j \in DOMAIN log_queue_ : LastLines(log_queue_)[i] = log_queue_[j]
  BY <1>2, LastLinesType DEF LoggerInv, QueueInOrder
<1>4. TypeOK'
  BY <1>1, <1>3 DEF LoggerInv, TypeOK, Ordered
<1>5. QueueInOrder'
  BY <1>1, <1>3 DEF LoggerInv, QueueInOrder, Ordered
<1>6. Current'
  BY <1>1, <1>2, LastLinesAgain DEF Current
<1>7. QED
  BY <1>4, <1>5, <1>6 DEF LoggerInv, StaleFlagged

LEMMA LogInv == ASSUME LoggerInv, NEW t \in Thread, Log(t) PROVE LoggerInv'
<1>1. /\ changes < MaxChanges
      /\ log_queue_' = Append(log_queue_, changes + 1)
      /\ changes' = changes + 1
      /\ thread' = [thread EXCEPT ![t] = "changed"]
      /\ UNCHANGED <<stats, dataChanged, stop_thread_, screen>>
      /\ fatal' = fatal \/ fatal' = [fatal EXCEPT ![t] = changes + 1]
      /\ printer' = IF printer = "blocked" THEN "woken" ELSE printer
  BY DEF Log, Moves, NotifyAll
<1>2. changes \in Nat /\ MaxChanges \in Nat /\ changes + 1 \in 1..MaxChanges
  BY <1>1, LoggerAssumption DEF LoggerInv, TypeOK
<1>3. /\ log_queue_ \in Seq(1..MaxChanges) /\ log_queue_' \in Seq(1..MaxChanges)
      /\ Len(log_queue_) \in Nat
      /\ DOMAIN log_queue_ = 1..Len(log_queue_)
      /\ DOMAIN log_queue_' = 1..Len(log_queue_) + 1
      /\ log_queue_'[Len(log_queue_) + 1] = changes + 1
      /\ \A i \in 1..Len(log_queue_) : log_queue_'[i] = log_queue_[i]
  BY <1>1, <1>2, AppendProperties, LenProperties DEF LoggerInv, TypeOK
<1>4. TypeOK'
  <2>1. fatal' \in [Thread -> 0..MaxChanges]
    <3>1. fatal \in [Thread -> 0..MaxChanges] /\ changes + 1 \in 0..MaxChanges
      BY <1>2 DEF LoggerInv, TypeOK
    <3>2. CASE fatal' = fatal
      BY <3>1, <3>2
    <3>3. CASE fatal' = [fatal EXCEPT ![t] = changes + 1]
      BY <3>1, <3>3
    <3>4. QED
      BY <1>1, <3>2, <3>3
  <2>2. {stats, changes, screen.stats}' \subseteq 0..MaxChanges
    BY <1>1, <1>2 DEF LoggerInv, TypeOK
  <2>3. {log_queue_, screen.messages}' \subseteq Seq(1..MaxChanges)
    BY <1>1, <1>3 DEF LoggerInv, TypeOK
  <2>4. QED
    BY <1>1, <2>1, <2>2, <2>3 DEF LoggerInv, TypeOK
<1>5. QueueInOrder'
  <2>1. \A i \in 1..Len(log_queue_) :
          log_queue_[i] <= changes /\ log_queue_[i] \in Int
    BY <1>3, SeqElements DEF LoggerInv, QueueInOrder
  <2>2. \A i \in 1..Len(log_queue_) + 1 : i = Len(log_queue_) + 1 \/ i \in 1..Len(log_queue_)
    BY <1>3
  <2>3. Ordered(log_queue_')
    <3> SUFFICES ASSUME NEW i \in 1..Len(log_queue_) + 1, NEW j \in 1..Len(log_queue_) + 1, i < j
                 PROVE  log_queue_'[i] < log_queue_'[j]
      BY <1>3 DEF Ordered
    <3>1. i \in 1..Len(log_queue_)
      BY <1>3
    <3>2. CASE j \in 1..Len(log_queue_)
      BY <1>3, <3>1, <3>2 DEF LoggerInv, QueueInOrder, Ordered
    <3>3. CASE j = Len(log_queue_) + 1
      BY <1>2, <1>3, <2>1, <3>1, <3>3
    <3>4. QED
      BY <2>2, <3>2, <3>3
  <2>4. \A i \in DOMAIN log_queue_' : log_queue_'[i] <= changes'
    BY <1>1, <1>2, <1>3, <2>1, <2>2
  <2>5. stats' <= changes'
    BY <1>1, <1>2 DEF LoggerInv, QueueInOrder, TypeOK
  <2>6. QED
    BY <2>3, <2>4, <2>5 DEF QueueInOrder, Ordered
<1>6. thread'[t] = "changed"
  BY <1>1 DEF LoggerInv, TypeOK
<1>7. QED
  BY <1>4, <1>5, <1>6 DEF LoggerInv, StaleFlagged

LEMMA CountInv == ASSUME LoggerInv, NEW t \in Thread, Count(t) PROVE LoggerInv'
<1>1. /\ changes < MaxChanges
      /\ stats' = stats + 1 /\ changes' = changes + 1
      /\ thread' = [thread EXCEPT ![t] = "changed"]
      /\ UNCHANGED <<log_queue_, dataChanged, stop_thread_, screen, printer, fatal>>
  BY DEF Count, Moves
<1>2. changes \in Nat /\ MaxChanges \in Nat /\ stats \in Nat /\ stats <= changes
  BY LoggerAssumption DEF LoggerInv, TypeOK, QueueInOrder
<1>3. TypeOK'
  BY <1>1, <1>2 DEF LoggerInv, TypeOK
<1>4. QueueInOrder'
  <2>1. \A i \in DOMAIN log_queue_ : log_queue_[i] \in Int
    BY SeqElements DEF LoggerInv, TypeOK
  <2>2. QED
    BY <1>1, <1>2, <2>1 DEF LoggerInv, QueueInOrder, Ordered
<1>5. thread'[t] = "changed"
  BY <1>1 DEF LoggerInv, TypeOK
<1>6. QED
  BY <1>3, <1>4, <1>5 DEF LoggerInv, StaleFlagged

\* The flag is set before a thread stops being one that has changed something.
LEMMA ContinueInv == ASSUME LoggerInv, NEW t \in Thread, Continue(t) PROVE LoggerInv'
<1>1. /\ UNCHANGED <<dataVars, screen, fatal>>
      /\ stop_thread_' \in BOOLEAN /\ dataChanged' \in BOOLEAN
      /\ printer' = printer \/ (printer = "blocked" /\ printer' = "woken")
      /\ \E step \in {"idle", "flagged", "exiting", "stopping", "joining", "exited"} :
           thread' = [thread EXCEPT ![t] = step]
      /\ dataChanged => dataChanged'
      /\ dataChanged' \/ thread[t] # "changed"
  <2>1. CASE SetChanged(t)
    BY <2>1 DEF SetChanged, Moves, LoggerInv, TypeOK
  <2>2. CASE Notify(t)
    BY <2>2 DEF Notify, Moves, NotifyAll, At, LoggerInv, TypeOK
  <2>3. CASE StopThread(t)
    BY <2>3 DEF StopThread, Moves, At, LoggerInv, TypeOK
  <2>4. CASE NotifyStop(t)
    BY <2>4 DEF NotifyStop, Moves, NotifyAll, At, LoggerInv, TypeOK
  <2>5. CASE Join(t)
    BY <2>5 DEF Join, Moves, At, LoggerInv, TypeOK
  <2>6. QED
    BY <2>1, <2>2, <2>3, <2>4, <2>5 DEF Continue
<1>2. TypeOK' /\ QueueInOrder'
  BY <1>1 DEF LoggerInv, TypeOK, QueueInOrder, Ordered, dataVars
<1>3. StaleFlagged'
  BY <1>1 DEF LoggerInv, TypeOK, StaleFlagged, Current, dataVars
<1>4. QED
  BY <1>2, <1>3 DEF LoggerInv

LEMMA LoggerStep == LoggerInv /\ [Next]_vars => LoggerInv'
<1> SUFFICES ASSUME LoggerInv, [Next]_vars PROVE LoggerInv'
  OBVIOUS
<1>1. CASE LogThread
  BY <1>1, WaitingInv, PrintScreenInv DEF LogThread
<1>2. ASSUME NEW t \in Thread, Log(t) \/ Count(t) \/ Continue(t) PROVE LoggerInv'
  BY <1>2, LogInv, CountInv, ContinueInv
<1>3. CASE UNCHANGED vars
  BY <1>3 DEF vars, dataVars, LoggerInv, TypeOK, QueueInOrder, Ordered, StaleFlagged, Current
<1>4. QED
  BY <1>1, <1>2, <1>3 DEF Next

\* The screen shows no more lines than there is room for, and messages in the
\* order in which they were logged, however many threads log.
THEOREM LoggerTypes == Spec => []TypeOK
<1>1. LoggerInv => TypeOK
  BY DEF LoggerInv
<1>2. QED
  BY <1>1, LoggerInit, LoggerStep, PTL DEF Spec

\* No change is forgotten, whatever the order of the unlocked writes of
\* dataChanged.
THEOREM NothingForgotten == Spec => []StaleFlagged
<1>1. LoggerInv => StaleFlagged
  BY DEF LoggerInv
<1>2. QED
  BY <1>1, LoggerInit, LoggerStep, PTL DEF Spec
=============================================================================
