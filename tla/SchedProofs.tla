---------------------------- MODULE SchedProofs ----------------------------
(***************************************************************************)
(* Proofs about the scheduler: the safety properties of Sched hold for any *)
(* number of tasks and ids, any delays and tick length, and any sequence   *)
(* of starts, kills, sleeps, ticks and keys; all but NeverLeftMasked in    *)
(* either build.                                                           *)
(*                                                                         *)
(* The inductive invariant SchedInv adds to the properties what the code   *)
(* relies on without saying so: the four system tasks stay in the list,    *)
(* the shell is always planned and awake, and only programs end.           *)
(***************************************************************************)
EXTENDS Sched, TLAPS

\* The system tasks are never removed; the killer is only told of programs.
SystemStays == /\ {First, Killer, Timer, Work} \subseteq tasks
               /\ to_kill \in Programs \cup {NoTask}

\* The shell is ready at every tick, and the boot code never sleeps.
ShellReady == Work \in plan /\ sleep[Work] = 0 /\ sleep[First] = 0

\* A task that ended is a program and is not planned.
DeadUnplanned == \A t \in Ids : pc[t] = "dead" => t \in Programs /\ t \notin plan

\* A program that has not ended has interrupts on whenever it is resumed, and
\* the count is 0 while it is current.
Unmasked == /\ \A t \in Programs \cup {Work} : pc[t] # "dead" => t \in ifl
            /\ cur \in Programs \cup {Work} /\ pc[cur] # "dead" => off_count = 0

SchedInv == /\ TypeOK
            /\ ListedPointers
            /\ DeadNeverRuns
            /\ SystemStays
            /\ ShellReady
            /\ DeadUnplanned
-----------------------------------------------------------------------------
\* The system tasks are ids, are no programs, and differ.
LEMMA SystemIds ==
  /\ {First, Killer, Timer, Work} \subseteq Ids
  /\ Programs \subseteq Ids
  /\ {First, Killer, Timer, Work} \cap Programs = {}
  /\ NoTask \notin Ids /\ Lost \notin Ids
  /\ First # Killer /\ First # Work /\ Killer # Work
BY SchedAssumption DEF First, Killer, Timer, Work, Ids, Programs, NoTask, Lost

\* all() leaves a count that is a natural number.
LEMMA CountNat == ASSUME NEW c \in Nat
                  PROVE  CountOn(c) \in Nat /\ CountOn(c + 1) = c
BY DEF CountOn

\* A tick makes every delay shorter, never negative.
LEMMA TickSleepType == ASSUME sleep \in [Ids -> Nat]
                       PROVE  TickSleep \in [Ids -> Nat]
BY SchedAssumption DEF TickSleep

\* A task that is awake stays awake through a tick.
LEMMA TickKeepsAwake == ASSUME NEW t \in Ids, sleep[t] = 0
                        PROVE  TickSleep[t] = 0
BY SchedAssumption DEF TickSleep

\* plan() picks a planned task or the first one.
LEMMA ChoicePlanned == ASSUME NEW t, IsChoice(t, TickSleep)
                       PROVE  t \in plan \cup {First}
BY DEF IsChoice, Candidates, Ready

-----------------------------------------------------------------------------
\* The boot leaves the scheduler in a state of these types.
LEMMA TypeInit == Init => TypeOK
<1> SUFFICES ASSUME Init PROVE TypeOK
  OBVIOUS
<1>1. pc \in [Ids -> {"boot", "idle", "entry", "loop", "start", "run", "sleep", "dead"}]
  BY DEF Init
<1>2. /\ tasks \in SUBSET Ids
      /\ plan \in SUBSET Ids
      /\ cur \in Ids /\ last_planned \in Ids
  BY SystemIds DEF Init
<1>3. /\ sleep \in [Ids -> Nat]
      /\ off_count \in Nat
      /\ starts \in 0 .. MaxStarts
  BY SchedAssumption DEF Init
<1>4. QED
  BY <1>1, <1>2, <1>3 DEF Init, TypeOK

\* Every step keeps the types.
LEMMA TypeStep == TypeOK /\ [Next]_vars => TypeOK'
<1> SUFFICES ASSUME TypeOK, [Next]_vars PROVE TypeOK'
  OBVIOUS
<1> USE SystemIds, SchedAssumption DEF TypeOK
<1>1. CASE BootEnd
  BY <1>1, CountNat, TickSleepType DEF SetIF, AfterSection, BootEnd, Runs, keyVars, segVars
<1>2. CASE WorkStart
  BY <1>2, CountNat, TickSleepType DEF SetIF, AfterSection, WorkStart, Runs, keyVars, segVars
<1>3. CASE Tick
  BY <1>3, CountNat, TickSleepType DEF SetIF, AfterSection, Tick, CountAfterTick, TickFlags, SetPrevious, keyVars, segVars
<1>4. ASSUME NEW t \in Programs \cup {Work}, Section(t)
      PROVE  TypeOK'
  BY <1>4, CountNat, TickSleepType DEF SetIF, AfterSection, Section, Runs, keyVars, segVars
<1>5. ASSUME NEW t \in Programs, NEW d \in SleepValues, SleepMksec(t, d)
      PROVE  TypeOK'
  BY <1>5, CountNat, TickSleepType DEF SetIF, AfterSection, SleepMksec, Runs, keyVars, segVars
<1>6. ASSUME NEW t \in Programs, SleepSwitch(t)
      PROVE  TypeOK'
  BY <1>6, CountNat, TickSleepType DEF SetIF, AfterSection, SleepSwitch, SwitchTo, SwitchFlags, SetPrevious, Runs, keyVars, segVars
<1>7. ASSUME NEW id \in Ids, TaskNewk(id)
      PROVE  TypeOK'
  BY <1>7, CountNat, TickSleepType DEF SetIF, AfterSection, TaskNewk, NewIds, Runs, keyVars, segVars
<1>8. ASSUME NEW t \in Programs, TaskKill(t)
      PROVE  TypeOK'
  BY <1>8, CountNat, TickSleepType DEF SetIF, AfterSection, TaskKill, Remove, Runs, keyVars, segVars
<1>9. ASSUME NEW t \in Programs, TaskKillMe(t)
      PROVE  TypeOK'
  BY <1>9, CountNat, TickSleepType DEF SetIF, AfterSection, TaskKillMe, SwitchTo, SwitchFlags, SetPrevious, Runs, keyVars, segVars
<1>10. CASE KillerRun
  BY <1>10, CountNat, TickSleepType DEF SetIF, AfterSection, KillerRun, Remove, SwitchTo, SwitchFlags, SetPrevious, Runs, KillerCount, keyVars, segVars
<1>11. CASE KeyComes
  BY <1>11, CountNat, TickSleepType DEF SetIF, AfterSection, KeyComes, keyVars, segVars
<1>12. CASE KeyPlain
  BY <1>12, CountNat, TickSleepType DEF SetIF, AfterSection, KeyPlain, keyVars, segVars
<1>13. CASE KeySwitch
  BY <1>13, CountNat, TickSleepType DEF SetIF, AfterSection, KeySwitch, KeyDeliverable, keyVars, segVars
<1>14. CASE KeyDone
  BY <1>14, CountNat, TickSleepType DEF SetIF, AfterSection, KeyDone, keyVars, segVars
<1>15. CASE UNCHANGED vars
  BY <1>15, CountNat, TickSleepType DEF SetIF, AfterSection, vars, keyVars, segVars
<1>16. QED
  BY <1>1, <1>2, <1>3, <1>4, <1>5, <1>6, <1>7, <1>8, <1>9, <1>10, <1>11, <1>12, <1>13, <1>14, <1>15 DEF Next

\* TypeOK: every variable of the scheduler has its type in every state.
THEOREM TypeCorrect == Spec => []TypeOK
BY TypeInit, TypeStep, PTL DEF Spec
-----------------------------------------------------------------------------
\* The boot establishes the inductive invariant.
LEMMA SchedInvInit == Init => SchedInv
<1> SUFFICES ASSUME Init PROVE SchedInv
  OBVIOUS
<1>1. TypeOK
  BY TypeInit
<1>2. \A t \in Ids : pc[t] # "dead"
  BY DEF Init
<1>3. QED
  BY <1>1, <1>2, SystemIds
     DEF Init, SchedInv, ListedPointers, DeadNeverRuns, SystemStays, ShellReady, DeadUnplanned

\* The system tasks stay: only programs are killed, by the shell or by the
\* killer, which is told of programs only.
LEMMA SystemStep == SchedInv /\ [Next]_vars => SystemStays'
<1> SUFFICES ASSUME SchedInv, [Next]_vars PROVE SystemStays'
  OBVIOUS
<1> USE SystemIds DEF SchedInv, SystemStays
<1>1. CASE BootEnd
  BY <1>1 DEF BootEnd, Runs, keyVars
<1>2. CASE WorkStart
  BY <1>2 DEF WorkStart, Runs, keyVars
<1>3. CASE Tick
  BY <1>3 DEF Tick, keyVars
<1>4. ASSUME NEW t \in Programs \cup {Work}, Section(t)
      PROVE  SystemStays'
  BY <1>4 DEF Section, Runs, keyVars
<1>5. ASSUME NEW t \in Programs, NEW d \in SleepValues, SleepMksec(t, d)
      PROVE  SystemStays'
  BY <1>5 DEF SleepMksec, Runs, keyVars
<1>6. ASSUME NEW t \in Programs, SleepSwitch(t)
      PROVE  SystemStays'
  BY <1>6 DEF SleepSwitch, SwitchTo, Runs, keyVars
<1>7. ASSUME NEW id \in Ids, TaskNewk(id)
      PROVE  SystemStays'
  BY <1>7 DEF TaskNewk, NewIds, Runs, keyVars
<1>8. ASSUME NEW t \in Programs, TaskKill(t)
      PROVE  SystemStays'
  BY <1>8 DEF TaskKill, Remove, Runs, keyVars
<1>9. ASSUME NEW t \in Programs, TaskKillMe(t)
      PROVE  SystemStays'
  BY <1>9 DEF TaskKillMe, SwitchTo, Runs, keyVars
<1>10. CASE KillerRun
  BY <1>10 DEF KillerRun, Remove, SwitchTo, Runs, keyVars
<1>11. CASE KeyComes
  BY <1>11 DEF KeyComes, keyVars
<1>12. CASE KeyPlain
  BY <1>12 DEF KeyPlain, keyVars
<1>13. CASE KeySwitch
  BY <1>13 DEF KeySwitch, KeyDeliverable, keyVars
<1>14. CASE KeyDone
  BY <1>14 DEF KeyDone, keyVars
<1>15. CASE UNCHANGED vars
  BY <1>15 DEF vars, keyVars
<1>16. QED
  BY <1>1, <1>2, <1>3, <1>4, <1>5, <1>6, <1>7, <1>8, <1>9, <1>10, <1>11, <1>12, <1>13, <1>14, <1>15 DEF Next

\* last_planned_task and the running task stay in the list: whoever is removed
\* is a program, is not running, and last_planned_task is reset.
LEMMA ListedStep == SchedInv /\ [Next]_vars => ListedPointers'
<1> SUFFICES ASSUME SchedInv, [Next]_vars PROVE ListedPointers'
  OBVIOUS
<1> USE SystemIds DEF SchedInv, TypeOK, SystemStays, ListedPointers
<1>1. CASE BootEnd
  BY <1>1 DEF BootEnd, Runs, keyVars
<1>2. CASE WorkStart
  BY <1>2 DEF WorkStart, Runs, keyVars
<1>3. CASE Tick
  BY <1>3 DEF Tick, keyVars
<1>4. ASSUME NEW t \in Programs \cup {Work}, Section(t)
      PROVE  ListedPointers'
  BY <1>4 DEF Section, Runs, keyVars
<1>5. ASSUME NEW t \in Programs, NEW d \in SleepValues, SleepMksec(t, d)
      PROVE  ListedPointers'
  BY <1>5 DEF SleepMksec, Runs, keyVars
<1>6. ASSUME NEW t \in Programs, SleepSwitch(t)
      PROVE  ListedPointers'
  BY <1>6 DEF SleepSwitch, SwitchTo, Runs, keyVars
<1>7. ASSUME NEW id \in Ids, TaskNewk(id)
      PROVE  ListedPointers'
  BY <1>7 DEF TaskNewk, NewIds, Runs, keyVars
<1>8. ASSUME NEW t \in Programs, TaskKill(t)
      PROVE  ListedPointers'
  BY <1>8 DEF TaskKill, Remove, Runs, keyVars
<1>9. ASSUME NEW t \in Programs, TaskKillMe(t)
      PROVE  ListedPointers'
  BY <1>9 DEF TaskKillMe, SwitchTo, Runs, keyVars
<1>10. CASE KillerRun
  BY <1>10 DEF KillerRun, Remove, SwitchTo, Runs, keyVars
<1>11. CASE KeyComes
  BY <1>11 DEF KeyComes, keyVars
<1>12. CASE KeyPlain
  BY <1>12 DEF KeyPlain, keyVars
<1>13. CASE KeySwitch
  BY <1>13 DEF KeySwitch, KeyDeliverable, keyVars
<1>14. CASE KeyDone
  BY <1>14 DEF KeyDone, keyVars
<1>15. CASE UNCHANGED vars
  BY <1>15 DEF vars, keyVars
<1>16. QED
  BY <1>1, <1>2, <1>3, <1>4, <1>5, <1>6, <1>7, <1>8, <1>9, <1>10, <1>11, <1>12, <1>13, <1>14, <1>15 DEF Next

\* The shell stays ready: it does not sleep, and is not killed.
LEMMA ShellStep == SchedInv /\ [Next]_vars => ShellReady'
<1> SUFFICES ASSUME SchedInv, [Next]_vars PROVE ShellReady'
  OBVIOUS
<1> USE SystemIds DEF SchedInv, TypeOK, SystemStays, ShellReady
<1>1. CASE BootEnd
  BY <1>1 DEF BootEnd, Runs, keyVars
<1>2. CASE WorkStart
  BY <1>2 DEF WorkStart, Runs, keyVars
<1>3. CASE Tick
  BY <1>3, TickKeepsAwake DEF Tick, keyVars
<1>4. ASSUME NEW t \in Programs \cup {Work}, Section(t)
      PROVE  ShellReady'
  BY <1>4 DEF Section, Runs, keyVars
<1>5. ASSUME NEW t \in Programs, NEW d \in SleepValues, SleepMksec(t, d)
      PROVE  ShellReady'
  BY <1>5 DEF SleepMksec, Runs, keyVars
<1>6. ASSUME NEW t \in Programs, SleepSwitch(t)
      PROVE  ShellReady'
  BY <1>6 DEF SleepSwitch, SwitchTo, Runs, keyVars
<1>7. ASSUME NEW id \in Ids, TaskNewk(id)
      PROVE  ShellReady'
  BY <1>7 DEF TaskNewk, NewIds, Runs, keyVars
<1>8. ASSUME NEW t \in Programs, TaskKill(t)
      PROVE  ShellReady'
  BY <1>8 DEF TaskKill, Remove, Runs, keyVars
<1>9. ASSUME NEW t \in Programs, TaskKillMe(t)
      PROVE  ShellReady'
  BY <1>9 DEF TaskKillMe, SwitchTo, Runs, keyVars
<1>10. CASE KillerRun
  BY <1>10 DEF KillerRun, Remove, SwitchTo, Runs, keyVars
<1>11. CASE KeyComes
  BY <1>11 DEF KeyComes, keyVars
<1>12. CASE KeyPlain
  BY <1>12 DEF KeyPlain, keyVars
<1>13. CASE KeySwitch
  BY <1>13 DEF KeySwitch, KeyDeliverable, keyVars
<1>14. CASE KeyDone
  BY <1>14 DEF KeyDone, keyVars
<1>15. CASE UNCHANGED vars
  BY <1>15 DEF vars, keyVars
<1>16. QED
  BY <1>1, <1>2, <1>3, <1>4, <1>5, <1>6, <1>7, <1>8, <1>9, <1>10, <1>11, <1>12, <1>13, <1>14, <1>15 DEF Next

\* A task that ended is never planned again: its id is free only after it left
\* the list, and a new task with that id has not ended.
LEMMA DeadUnplannedStep == SchedInv /\ [Next]_vars => DeadUnplanned'
<1> SUFFICES ASSUME SchedInv, [Next]_vars PROVE DeadUnplanned'
  OBVIOUS
<1> USE SystemIds DEF SchedInv, TypeOK, DeadUnplanned
<1>1. CASE BootEnd
  BY <1>1 DEF BootEnd, Runs, keyVars
<1>2. CASE WorkStart
  BY <1>2 DEF WorkStart, Runs, keyVars
<1>3. CASE Tick
  BY <1>3 DEF Tick, keyVars
<1>4. ASSUME NEW t \in Programs \cup {Work}, Section(t)
      PROVE  DeadUnplanned'
  BY <1>4 DEF Section, Runs, keyVars
<1>5. ASSUME NEW t \in Programs, NEW d \in SleepValues, SleepMksec(t, d)
      PROVE  DeadUnplanned'
  BY <1>5 DEF SleepMksec, Runs, keyVars
<1>6. ASSUME NEW t \in Programs, SleepSwitch(t)
      PROVE  DeadUnplanned'
  BY <1>6 DEF SleepSwitch, SwitchTo, Runs, keyVars
<1>7. ASSUME NEW id \in Ids, TaskNewk(id)
      PROVE  DeadUnplanned'
  BY <1>7 DEF TaskNewk, NewIds, Runs, keyVars
<1>8. ASSUME NEW t \in Programs, TaskKill(t)
      PROVE  DeadUnplanned'
  BY <1>8 DEF TaskKill, Remove, Runs, keyVars
<1>9. ASSUME NEW t \in Programs, TaskKillMe(t)
      PROVE  DeadUnplanned'
  BY <1>9 DEF TaskKillMe, SwitchTo, Runs, keyVars
<1>10. CASE KillerRun
  BY <1>10 DEF KillerRun, Remove, SwitchTo, Runs, keyVars
<1>11. CASE KeyComes
  BY <1>11 DEF KeyComes, keyVars
<1>12. CASE KeyPlain
  BY <1>12 DEF KeyPlain, keyVars
<1>13. CASE KeySwitch
  BY <1>13 DEF KeySwitch, KeyDeliverable, keyVars
<1>14. CASE KeyDone
  BY <1>14 DEF KeyDone, keyVars
<1>15. CASE UNCHANGED vars
  BY <1>15 DEF vars, keyVars
<1>16. QED
  BY <1>1, <1>2, <1>3, <1>4, <1>5, <1>6, <1>7, <1>8, <1>9, <1>10, <1>11, <1>12, <1>13, <1>14, <1>15 DEF Next

\* No step resumes a task that ended: a tick picks a planned task or the first
\* one, and every switch goes to the killer or to the first task.
LEMMA DeadNeverRunsStep == SchedInv /\ [Next]_vars => DeadNeverRuns'
<1> SUFFICES ASSUME SchedInv, [Next]_vars PROVE DeadNeverRuns'
  OBVIOUS
<1> USE SystemIds DEF SchedInv, TypeOK, DeadUnplanned, DeadNeverRuns
<1>1. CASE BootEnd
  BY <1>1 DEF BootEnd, Runs, keyVars
<1>2. CASE WorkStart
  BY <1>2 DEF WorkStart, Runs, keyVars
<1>3. CASE Tick
  BY <1>3, ChoicePlanned DEF Tick, keyVars
<1>4. ASSUME NEW t \in Programs \cup {Work}, Section(t)
      PROVE  DeadNeverRuns'
  BY <1>4 DEF Section, Runs, keyVars
<1>5. ASSUME NEW t \in Programs, NEW d \in SleepValues, SleepMksec(t, d)
      PROVE  DeadNeverRuns'
  BY <1>5 DEF SleepMksec, Runs, keyVars
<1>6. ASSUME NEW t \in Programs, SleepSwitch(t)
      PROVE  DeadNeverRuns'
  BY <1>6 DEF SleepSwitch, SwitchTo, Runs, keyVars
<1>7. ASSUME NEW id \in Ids, TaskNewk(id)
      PROVE  DeadNeverRuns'
  BY <1>7 DEF TaskNewk, NewIds, Runs, keyVars
<1>8. ASSUME NEW t \in Programs, TaskKill(t)
      PROVE  DeadNeverRuns'
  BY <1>8 DEF TaskKill, Remove, Runs, keyVars
<1>9. ASSUME NEW t \in Programs, TaskKillMe(t)
      PROVE  DeadNeverRuns'
  BY <1>9 DEF TaskKillMe, SwitchTo, Runs, keyVars
<1>10. CASE KillerRun
  BY <1>10 DEF KillerRun, Remove, SwitchTo, Runs, keyVars
<1>11. CASE KeyComes
  BY <1>11 DEF KeyComes, keyVars
<1>12. CASE KeyPlain
  BY <1>12 DEF KeyPlain, keyVars
<1>13. CASE KeySwitch
  BY <1>13 DEF KeySwitch, KeyDeliverable, keyVars
<1>14. CASE KeyDone
  BY <1>14 DEF KeyDone, keyVars
<1>15. CASE UNCHANGED vars
  BY <1>15 DEF vars, keyVars
<1>16. QED
  BY <1>1, <1>2, <1>3, <1>4, <1>5, <1>6, <1>7, <1>8, <1>9, <1>10, <1>11, <1>12, <1>13, <1>14, <1>15 DEF Next

\* The inductive invariant holds in every reachable state.
LEMMA SchedInvCorrect == Spec => []SchedInv
<1>1. SchedInv /\ [Next]_vars => SchedInv'
  BY TypeStep, SystemStep, ListedStep, ShellStep, DeadUnplannedStep, DeadNeverRunsStep
     DEF SchedInv
<1>2. QED
  BY <1>1, SchedInvInit, PTL DEF Spec

\* ListedPointers: plan() never walks from, and never runs, a task whose struct
\* has been released.
THEOREM PointersListed == Spec => []ListedPointers
BY SchedInvCorrect, PTL DEF SchedInv

\* DeadNeverRuns: the code after task_kill_me is never resumed.
THEOREM DeadStaysDead == Spec => []DeadNeverRuns
BY SchedInvCorrect, PTL DEF SchedInv

\* OnlyAwakeDispatched: plan() never hands the processor to a sleeping task. Its
\* search does end at last_planned_task whether that sleeps or not, but either
\* that is the shell, or the search meets the shell before.
THEOREM AwakeDispatched == Spec => OnlyAwakeDispatched
<1>1. SchedInv /\ [Next]_vars =>
        [Tick => cur' \in plan \cup {First} /\ sleep'[cur'] = 0]_vars
  <2> SUFFICES ASSUME SchedInv, Tick
               PROVE  cur' \in plan \cup {First} /\ sleep'[cur'] = 0
    OBVIOUS
  <2> USE SystemIds DEF SchedInv, TypeOK, SystemStays, ShellReady, ListedPointers
  <2>1. sleep' = TickSleep /\ TickSleep[Work] = 0 /\ TickSleep[First] = 0
    BY TickKeepsAwake DEF Tick
  <2>2. PICK t \in tasks : IsChoice(t, TickSleep) /\ cur' = t
    BY DEF Tick
  <2>3. t \in plan \cup {First}
    BY <2>2, ChoicePlanned
  <2>4. CASE t \in Candidates(TickSleep)
    BY <2>1, <2>2, <2>3, <2>4 DEF Candidates, Ready
  <2>5. CASE Candidates(TickSleep) = {}
    <3>1. last_planned = Work
      BY <2>1, <2>5 DEF Candidates, Ready
    <3>2. QED
      BY <2>1, <2>2, <2>3, <2>5, <3>1 DEF IsChoice
  <2>6. QED
    BY <2>2, <2>4, <2>5 DEF IsChoice
<1>2. QED
  BY <1>1, SchedInvCorrect, PTL DEF Spec, OnlyAwakeDispatched

-----------------------------------------------------------------------------
\* In the build of the repository a program that has not ended always has
\* interrupts on when it is resumed, and runs at count 0: every count that is
\* not given back is left on a switch to the killer or to the first task, and
\* the next tick, before any program runs, forgets it.
LEMMA UnmaskedStep ==
  CountInRegister /\ SchedInv /\ Unmasked /\ [Next]_vars => Unmasked'
<1> SUFFICES ASSUME CountInRegister, SchedInv, Unmasked, [Next]_vars PROVE Unmasked'
  OBVIOUS
<1> USE SystemIds, CountNat DEF SchedInv, TypeOK, Unmasked, SetIF, AfterSection
<1>1. CASE BootEnd
  BY <1>1 DEF BootEnd, Runs, keyVars
<1>2. CASE WorkStart
  BY <1>2 DEF WorkStart, Runs, CountOn, keyVars
<1>3. CASE Tick
  BY <1>3 DEF Tick, CountAfterTick, keyVars
<1>4. ASSUME NEW t \in Programs \cup {Work}, Section(t)
      PROVE  Unmasked'
  BY <1>4 DEF Section, Runs, keyVars
<1>5. ASSUME NEW t \in Programs, NEW d \in SleepValues, SleepMksec(t, d)
      PROVE  Unmasked'
  BY <1>5 DEF SleepMksec, Runs, keyVars
<1>6. ASSUME NEW t \in Programs, SleepSwitch(t)
      PROVE  Unmasked'
  BY <1>6 DEF SleepSwitch, SwitchTo, Runs, keyVars
<1>7. ASSUME NEW id \in Ids, TaskNewk(id)
      PROVE  Unmasked'
  BY <1>7 DEF TaskNewk, NewIds, Runs, keyVars
<1>8. ASSUME NEW t \in Programs, TaskKill(t)
      PROVE  Unmasked'
  BY <1>8 DEF TaskKill, Remove, Runs, keyVars
<1>9. ASSUME NEW t \in Programs, TaskKillMe(t)
      PROVE  Unmasked'
  BY <1>9 DEF TaskKillMe, SwitchTo, Runs, keyVars
<1>10. CASE KillerRun
  BY <1>10 DEF KillerRun, Remove, SwitchTo, Runs, KillerCount, keyVars
<1>11. CASE KeyComes
  BY <1>11 DEF KeyComes, keyVars
<1>12. CASE KeyPlain
  BY <1>12 DEF KeyPlain, keyVars
<1>13. CASE KeySwitch
  BY <1>13 DEF KeySwitch, KeyDeliverable, keyVars
<1>14. CASE KeyDone
  BY <1>14 DEF KeyDone, keyVars
<1>15. CASE UNCHANGED vars
  BY <1>15 DEF vars, keyVars
<1>16. QED
  BY <1>1, <1>2, <1>3, <1>4, <1>5, <1>6, <1>7, <1>8, <1>9, <1>10, <1>11, <1>12, <1>13, <1>14, <1>15 DEF Next

\* NeverLeftMasked: in the build of the repository no program is left running
\* with interrupts off.
THEOREM NotLeftMasked == CountInRegister => (Spec => []NeverLeftMasked)
<1> SUFFICES ASSUME CountInRegister PROVE Spec => []NeverLeftMasked
  OBVIOUS
<1>1. Init => Unmasked
  BY SystemIds DEF Init, Unmasked
<1>2. SchedInv /\ Unmasked /\ [Next]_vars => Unmasked'
  BY UnmaskedStep
<1>3. Unmasked => NeverLeftMasked
  BY DEF Unmasked, NeverLeftMasked, Runs
<1>4. QED
  BY <1>1, <1>2, <1>3, SchedInvCorrect, PTL DEF Spec
-----------------------------------------------------------------------------
\* Besides BusyIsRunning: the timer task is never the one that is resumed, for
\* nothing makes it planned.
BusyInv == BusyIsRunning /\ cur # Timer /\ Timer \notin plan

\* The processor and the hands of task_set_previous leave one flag set, that of
\* the task switched to, whatever back link the task that leaves had before.
LEMMA SwitchOneBusy ==
  ASSUME NEW t, NEW u, t # u, busy = {t}, SwitchFlags(t, u)
  PROVE  busy' = {u}
BY DEF SwitchFlags, SetPrevious

\* A tick leaves only the flag of the task plan(0) chose, also when that is the
\* task the tick interrupted.
LEMMA TickOneBusy ==
  ASSUME NEW t, t # Timer, cur # Timer, busy = {cur}, TickFlags(t)
  PROVE  busy' = {t}
BY DEF TickFlags, SetPrevious

\* Every step keeps the flags right.
LEMMA BusyStep == SchedInv /\ BusyInv /\ [Next]_vars => BusyInv'
<1> SUFFICES ASSUME SchedInv, BusyInv, [Next]_vars PROVE BusyInv'
  OBVIOUS
<1>0. /\ Timer # First /\ Timer # Killer /\ Timer # Work /\ First # Killer
      /\ \A t \in Programs : t # Timer /\ t # First /\ t # Killer /\ t # Work
  BY SchedAssumption DEF First, Killer, Timer, Work, Programs
<1> USE <1>0 DEF SchedInv, BusyInv, BusyIsRunning
<1>1. CASE BootEnd
  BY <1>1 DEF BootEnd, segVars
<1>2. CASE WorkStart
  BY <1>2 DEF WorkStart, segVars
<1>3. CASE Tick
  <2>1. PICK t \in tasks : IsChoice(t, TickSleep) /\ cur' = t /\ TickFlags(t)
    BY <1>3 DEF Tick
  <2>2. t # Timer
    BY <2>1, ChoicePlanned
  <2>3. QED
    BY <1>3, <2>1, <2>2, TickOneBusy DEF Tick
<1>4. ASSUME NEW t \in Programs \cup {Work}, Section(t)
      PROVE  BusyInv'
  BY <1>4 DEF Section, segVars
<1>5. ASSUME NEW t \in Programs, NEW d \in SleepValues, SleepMksec(t, d)
      PROVE  BusyInv'
  BY <1>5 DEF SleepMksec, segVars
<1>6. ASSUME NEW t \in Programs, SleepSwitch(t)
      PROVE  BusyInv'
  BY <1>6, SwitchOneBusy DEF SleepSwitch, SwitchTo, Runs
<1>7. ASSUME NEW id \in Ids, TaskNewk(id)
      PROVE  BusyInv'
  BY <1>7 DEF TaskNewk, NewIds, SystemStays, Timer
<1>8. ASSUME NEW t \in Programs, TaskKill(t)
      PROVE  BusyInv'
  BY <1>8 DEF TaskKill, Remove, Runs
<1>9. ASSUME NEW t \in Programs, TaskKillMe(t)
      PROVE  BusyInv'
  BY <1>9, SwitchOneBusy DEF TaskKillMe, SwitchTo, Runs
<1>10. CASE KillerRun
  BY <1>10, SwitchOneBusy DEF KillerRun, Remove, SwitchTo, Runs
<1>11. CASE KeyComes
  BY <1>11 DEF KeyComes, segVars
<1>12. CASE KeyPlain
  BY <1>12 DEF KeyPlain, segVars
<1>13. CASE KeySwitch
  BY <1>13 DEF KeySwitch, segVars
<1>14. CASE KeyDone
  BY <1>14 DEF KeyDone, segVars
<1>15. CASE UNCHANGED vars
  BY <1>15 DEF vars, segVars
<1>16. QED
  BY <1>1, <1>2, <1>3, <1>4, <1>5, <1>6, <1>7, <1>8, <1>9, <1>10, <1>11, <1>12, <1>13, <1>14, <1>15 DEF Next

\* BusyIsRunning: the running task and no other is marked busy, so no iret of a
\* switch ever faults.
THEOREM OneBusy == Spec => []BusyIsRunning
<1>1. Init => BusyInv
  BY DEF Init, BusyInv, BusyIsRunning, First, Timer, Work
<1>2. BusyInv => BusyIsRunning
  BY DEF BusyInv
<1>3. QED
  BY <1>1, <1>2, BusyStep, SchedInvCorrect, PTL DEF Spec
-----------------------------------------------------------------------------
\* While the killer runs, the id it was told is that of a program that ended; and
\* it runs only when task_kill_me switched to it, for nothing makes it planned.
KillerTold == /\ cur = Killer /\ to_kill \in tasks => pc[to_kill] = "dead"
              /\ Killer \notin plan

\* Every step keeps that: no task starts, and so none gets the id told, between the
\* switch to the killer and its kill.
LEMMA KillerToldStep == SchedInv /\ KillerTold /\ [Next]_vars => KillerTold'
<1> SUFFICES ASSUME SchedInv, KillerTold, [Next]_vars PROVE KillerTold'
  OBVIOUS
<1>0. Killer # First /\ Killer # Work /\ Killer \notin Programs /\ Programs \subseteq Ids
  BY SystemIds
<1> USE <1>0 DEF SchedInv, TypeOK, KillerTold
<1>1. CASE BootEnd
  BY <1>1 DEF BootEnd, Runs
<1>2. CASE WorkStart
  BY <1>2 DEF WorkStart, Runs
<1>3. CASE Tick
  BY <1>3, ChoicePlanned DEF Tick
<1>4. ASSUME NEW t \in Programs \cup {Work}, Section(t)
      PROVE  KillerTold'
  BY <1>4 DEF Section, Runs
<1>5. ASSUME NEW t \in Programs, NEW d \in SleepValues, SleepMksec(t, d)
      PROVE  KillerTold'
  BY <1>5 DEF SleepMksec, Runs
<1>6. ASSUME NEW t \in Programs, SleepSwitch(t)
      PROVE  KillerTold'
  BY <1>6 DEF SleepSwitch, SwitchTo, Runs
<1>7. ASSUME NEW id \in Ids, TaskNewk(id)
      PROVE  KillerTold'
  <2>1. cur' = Work /\ plan' = plan \cup {id} /\ id \in NewIds
    BY <1>7 DEF TaskNewk, Runs
  <2>2. Killer < id
    BY <2>1 DEF NewIds, SystemStays
  <2>3. id # Killer
    BY <2>2 DEF Killer, Ids
  <2>4. QED
    BY <2>1, <2>3
<1>8. ASSUME NEW t \in Programs, TaskKill(t)
      PROVE  KillerTold'
  BY <1>8 DEF TaskKill, Remove, Runs
<1>9. ASSUME NEW t \in Programs, TaskKillMe(t)
      PROVE  KillerTold'
  BY <1>9 DEF TaskKillMe, SwitchTo, Runs
<1>10. CASE KillerRun
  BY <1>10 DEF KillerRun, Remove, SwitchTo, Runs
<1>11. CASE KeyComes
  BY <1>11 DEF KeyComes
<1>12. CASE KeyPlain
  BY <1>12 DEF KeyPlain
<1>13. CASE KeySwitch
  BY <1>13 DEF KeySwitch
<1>14. CASE KeyDone
  BY <1>14 DEF KeyDone
<1>15. CASE UNCHANGED vars
  BY <1>15 DEF vars
<1>16. QED
  BY <1>1, <1>2, <1>3, <1>4, <1>5, <1>6, <1>7, <1>8, <1>9, <1>10, <1>11, <1>12, <1>13, <1>14, <1>15 DEF Next

\* Only the two ways to kill take a task off the list.
LEMMA WhoLeaves ==
  ASSUME SchedInv, [Next]_vars, NEW t \in tasks \ tasks'
  PROVE  cur = Work \/ (cur = Killer /\ t = to_kill)
<1>1. TaskKill(t) \/ (KillerRun /\ t = to_kill)
  BY DEF vars, Next, BootEnd, WorkStart, Tick, Section, SleepMksec, SleepSwitch, TaskNewk,
         TaskKill, TaskKillMe, KillerRun, KeyComes, KeyPlain, KeySwitch, KeyDone, Remove
<1>2. QED
  BY <1>1 DEF TaskKill, KillerRun, Runs

\* KillsOnlyDead: the killer never ends a program that goes on.
THEOREM KillerSpares == Spec => KillsOnlyDead
<1>1. Init => KillerTold
  BY SystemIds DEF Init, KillerTold
<1>2. SchedInv /\ KillerTold /\ [Next]_vars =>
        [\A t \in tasks \ tasks' : cur = Killer => pc[t] = "dead"]_vars
  BY WhoLeaves, SystemIds DEF KillerTold
<1>3. QED
  BY <1>1, <1>2, KillerToldStep, SchedInvCorrect, PTL DEF Spec, KillsOnlyDead
=============================================================================
