------------------------------- MODULE Sched -------------------------------
(***************************************************************************)
(* Tasks, the scheduler, and the interrupt counter of the kernel           *)
(* (src/gluKe/task.c, plan.c, int.c) with the keyboard interrupt.          *)
(*                                                                         *)
(* One processor runs the current task.  one() clears its interrupt flag   *)
(* and counts in off_count, which all tasks share; all() counts back and   *)
(* sets the flag at 0.  The flag itself is saved with each task.  While it *)
(* is set the timer interrupt may switch to the timer task, whose handler  *)
(* plan(0) picks the next task to return to: one step, for the timer task  *)
(* runs with interrupts off.  Code between one() and all() is likewise one *)
(* step; a call that passes a point with the flag set is split there.      *)
(*                                                                         *)
(* The count after a tick depends on the build.  int_handle_timer loops    *)
(* around an iret that the compiler does not know to run other code.  The  *)
(* image in the repository keeps off_count in a register across it and     *)
(* writes the old value back at the next tick; a compiler that reloads the *)
(* variable leaves the count as it is.                                     *)
(***************************************************************************)
EXTENDS Integers, FiniteSets

CONSTANTS MaxId,          \* bound on task ids
          MaxTasks,       \* tasks the GDT has descriptors for
          MaxStarts,      \* bound on the tasks started
          SleepValues,    \* the delays tasks ask for, in microseconds
          MksecPerTick,   \* timer_cur_mksec_per_tick
          CountInRegister,\* the build: is off_count kept across the iret?
          SwitchKeys      \* may keys be CTRL+Fx?

First == 1    \* the boot code, idle when nothing is ready
Killer == 2   \* tentry_killer
Timer == 3    \* int_handle_timer
Work == 4     \* the shell: always ready, kills and starts tasks
Ids == 1 .. MaxId
Programs == 5 .. MaxId

ASSUME SchedAssumption ==
  /\ MaxId \in Nat /\ MaxId >= Work
  /\ MaxTasks \in Nat
  /\ MaxStarts \in Nat
  /\ MksecPerTick \in Nat \ {0}
  /\ SleepValues \in SUBSET (Nat \ {0})
  /\ CountInRegister \in BOOLEAN
  /\ SwitchKeys \in BOOLEAN

VARIABLES tasks,        \* the ids in the list of tasks, in list order
          plan,         \* the tasks with t->plan set
          sleep,        \* t->sleep_mksec
          pc,           \* where each task is
          ifl,          \* the tasks whose saved EFLAGS have IF set
          cur,          \* the task that runs
          last_planned, \* last_planned_task
          to_kill,      \* killer_task_id_to_kill
          off_count,
          kbd,          \* is a keyboard interrupt waiting in the PIC?
          isr,          \* the task a keyboard interrupt in service runs on
          busy,         \* the tasks whose descriptor has the busy flag
          prev_task,    \* the back link in each task's TSS
          starts        \* tasks started so far

vars == <<tasks, plan, sleep, pc, ifl, cur, last_planned, to_kill, off_count,
          kbd, isr, busy, prev_task, starts>>
keyVars == <<kbd, isr>>
segVars == <<busy, prev_task>>

NoTask == 0
Lost == -1    \* the interrupted task is gone and will not finish the handler

(***************************************************************************)
(* The interrupt counter.  CountOn is the count after all(); all() sets IF *)
(* exactly when that is 0.                                                 *)
(***************************************************************************)
CountOn(c) == IF c > 0 THEN c - 1 ELSE 0

SetIF(t, on) == IF on THEN ifl \cup {t} ELSE ifl \ {t}

\* Task t went through one() and all() at count c.
AfterSection(t, c) == SetIF(t, CountOn(c + 1) = 0)

(***************************************************************************)
(* plan(): tick the sleepers, then search the loop from the task after     *)
(* last_planned_task for one that is planned and awake, ending at          *)
(* last_planned_task itself; that one is taken if it is planned, awake or  *)
(* not, else the first task.                                               *)
(***************************************************************************)
\* Faulty variant: a delay shorter than a tick is not rounded down to 0.
TickSleepNoRound == [t \in Ids |-> IF t \in tasks /\ sleep[t] >= MksecPerTick
                                    THEN sleep[t] - MksecPerTick ELSE sleep[t]]

TickSleep == [t \in Ids |-> IF t \in tasks
                              THEN IF sleep[t] <= MksecPerTick
                                     THEN 0 ELSE sleep[t] - MksecPerTick
                              ELSE sleep[t]]

Ready(t, s) == t \in plan /\ s[t] = 0

\* Faulty variant: the search always begins at the first task.
AheadFromFirst(t, u) == Cardinality({v \in tasks : v < u})

\* How many tasks the loop passes on its way from t to u.  New ids are one more
\* than the largest and go to the end of the list, so it is in id order.
Ahead(t, u) == Cardinality({v \in tasks : IF t < u THEN t < v /\ v < u
                                                   ELSE t < v \/ v < u})

\* Faulty variant: sleeping tasks are searched as well.
CandidatesAsleep(s) == {t \in tasks \ {last_planned} : t \in plan}

Candidates(s) == {t \in tasks \ {last_planned} : Ready(t, s)}

IsChoice(t, s) ==
  \/ /\ t \in Candidates(s)
     /\ \A u \in Candidates(s) : Ahead(last_planned, t) <= Ahead(last_planned, u)
  \/ /\ Candidates(s) = {}
     /\ t = IF last_planned \in plan THEN last_planned ELSE First

(***************************************************************************)
(* The processor's side of a switch.  iret with the NT flag goes to the    *)
(* task of the back link, whose descriptor must have the busy flag, and    *)
(* clears the flag of the task it leaves; a task gate does the opposite.   *)
(* task_set_previous makes both fit by hand: the flag of the old back link *)
(* is cleared before that of the new one is set, for they may be the same. *)
(* A selector stands for its task: a back link is read only right after    *)
(* the processor wrote it, or leads to the killer or the first task.       *)
(***************************************************************************)
\* Faulty variant: the new flag is set before the old one is cleared.
SetPreviousSwapped(flags, old, new) == (flags \cup {new}) \ {old}

\* The busy flags after task_set_previous with back link old, towards new.
SetPrevious(flags, old, new) == (flags \ {old}) \cup {new}

\* task_switch(u) in task t, with the iret.
SwitchFlags(t, u) ==
  /\ busy' = SetPrevious(busy, prev_task[t], u) \ {t}
  /\ prev_task' = [prev_task EXCEPT ![t] = u]

\* The task gate of the timer links back to the interrupted task; plan(0)
\* changes the link to u, and the iret goes there.
TickFlags(u) ==
  /\ busy' = SetPrevious(busy \cup {Timer}, cur, u) \ {Timer}
  /\ prev_task' = [prev_task EXCEPT ![Timer] = u]

(***************************************************************************)
(* Initially the kernel has started the work task; the boot code, as the   *)
(* first task, is about to make itself not planned.                        *)
(***************************************************************************)
Init == /\ tasks = {First, Killer, Timer, Work}
        /\ plan = {First, Work}
        /\ sleep = [t \in Ids |-> 0]
        /\ pc = [t \in Ids |-> CASE t = First -> "boot"
                                 [] t = Killer -> "entry"
                                 [] t = Work -> "start"
                                 [] OTHER -> "run"]
        /\ ifl = Ids
        /\ cur = First
        /\ last_planned = First
        /\ to_kill = NoTask
        /\ off_count = 0
        /\ kbd = FALSE
        /\ isr = NoTask
        /\ busy = {First}
        /\ prev_task = [t \in Ids |-> NoTask]
        /\ starts = 0

\* Task t executes its own code: it is current and not in the keyboard handler.
Runs(t) == cur = t /\ isr # t

\* entry32 ends: task_set_planned(first_task_id,0), then loops for ever.
BootEnd ==
  /\ Runs(First)
  /\ pc[First] = "boot"
  /\ plan' = plan \ {First}
  /\ pc' = [pc EXCEPT ![First] = "idle"]
  /\ UNCHANGED <<tasks, sleep, ifl, cur, last_planned, to_kill, off_count, keyVars, segVars, starts>>

\* The shell begins with an all() that matches no one().
WorkStart ==
  /\ Runs(Work)
  /\ pc[Work] = "start"
  /\ pc' = [pc EXCEPT ![Work] = "run"]
  /\ ifl' = IF CountOn(off_count) = 0 THEN ifl \cup {Work} ELSE ifl
  /\ off_count' = CountOn(off_count)
  /\ UNCHANGED <<tasks, plan, sleep, cur, last_planned, to_kill, keyVars, segVars, starts>>

(***************************************************************************)
(* The timer interrupt, taken through a task gate.                         *)
(***************************************************************************)
\* Faulty variant: the count is what the interrupted tasks left.
CountReloaded == off_count

CountAfterTick == IF CountInRegister THEN 0 ELSE off_count

Tick ==
  /\ cur \in ifl
  /\ sleep' = TickSleep
  /\ \E t \in tasks : /\ IsChoice(t, TickSleep)
                     /\ cur' = t
                     /\ last_planned' = t
                     /\ TickFlags(t)
  /\ off_count' = CountAfterTick
  /\ UNCHANGED <<tasks, plan, pc, ifl, to_kill, keyVars, starts>>

(***************************************************************************)
(* Any kernel call of a program or the shell that does its work between    *)
(* one() and all().                                                        *)
(***************************************************************************)
Section(t) ==
  /\ Runs(t)
  /\ pc[t] = "run"
  /\ ifl' = AfterSection(t, off_count)
  /\ off_count' = CountOn(off_count + 1)
  /\ UNCHANGED <<tasks, plan, sleep, pc, cur, last_planned, to_kill, keyVars, segVars, starts>>

(***************************************************************************)
(* sleep_mksec: the delay is set between one() and all(); then, with       *)
(* interrupts on, the task switches to the first task.                     *)
(***************************************************************************)
SleepMksec(t, d) ==
  /\ Runs(t)
  /\ pc[t] = "run"
  /\ sleep' = [sleep EXCEPT ![t] = d]
  /\ pc' = [pc EXCEPT ![t] = "sleep"]
  /\ ifl' = AfterSection(t, off_count)
  /\ off_count' = CountOn(off_count + 1)
  /\ UNCHANGED <<tasks, plan, cur, last_planned, to_kill, keyVars, segVars, starts>>

\* task_switch from t at count c: int_off, then int_on_iret before the switch.
SwitchTo(t, u, c) ==
  /\ off_count' = CountOn(c + 1)
  /\ ifl' = AfterSection(t, c)
  /\ SwitchFlags(t, u)
  /\ cur' = u

SleepSwitch(t) ==
  /\ Runs(t)
  /\ pc[t] = "sleep"
  /\ SwitchTo(t, First, off_count)
  /\ pc' = [pc EXCEPT ![t] = "run"]
  /\ UNCHANGED <<tasks, plan, sleep, last_planned, to_kill, keyVars, starts>>

(***************************************************************************)
(* task_newk, as the shell's start command uses it.  init_task_struct      *)
(* fails when the GDT is full.  The new task begins with IF set.           *)
(***************************************************************************)
NewIds == {i \in Ids : i - 1 \in tasks /\ \A u \in tasks : u < i}

DescriptorFree == Cardinality(tasks) < MaxTasks

TaskNewk(id) ==
  /\ Runs(Work)
  /\ pc[Work] = "run"
  /\ DescriptorFree
  /\ id \in NewIds
  /\ starts < MaxStarts
  /\ tasks' = tasks \cup {id}
  /\ plan' = plan \cup {id}
  /\ sleep' = [sleep EXCEPT ![id] = 0]
  /\ prev_task' = [prev_task EXCEPT ![id] = NoTask]
  /\ pc' = [pc EXCEPT ![id] = "run"]
  /\ ifl' = AfterSection(Work, off_count) \cup {id}
  /\ off_count' = CountOn(off_count + 1)
  /\ starts' = starts + 1
  /\ UNCHANGED <<cur, last_planned, to_kill, keyVars, busy>>

(***************************************************************************)
(* task_kill: the task leaves the list, and the next search of plan() will *)
(* start from the first task.  If a keyboard interrupt ran on its stack,   *)
(* the rest of the handler is lost with it.                                *)
(***************************************************************************)
\* Faulty variant: last_planned_task is not reset.
RemoveKeepsPlanned(t) ==
  /\ tasks' = tasks \ {t}
  /\ plan' = plan \ {t}
  /\ last_planned' = last_planned
  /\ isr' = IF isr = t THEN Lost ELSE isr

Remove(t) ==
  /\ tasks' = tasks \ {t}
  /\ plan' = plan \ {t}
  /\ last_planned' = First
  /\ isr' = IF isr = t THEN Lost ELSE isr

TaskKill(t) ==
  /\ Runs(Work)
  /\ pc[Work] = "run"
  /\ t \in tasks
  /\ Remove(t)
  /\ ifl' = AfterSection(Work, off_count)
  /\ off_count' = CountOn(off_count + 1)
  /\ busy' = busy \ {t}
  /\ UNCHANGED <<sleep, pc, cur, to_kill, kbd, prev_task, starts>>

(***************************************************************************)
(* task_kill_me: stop being planned, tell the killer, switch to it.  The   *)
(* one() is never matched by an all().                                     *)
(***************************************************************************)
\* Faulty variant: the task stays planned.
TaskKillMePlanned(t) ==
  /\ Runs(t)
  /\ pc[t] = "run"
  /\ to_kill' = t
  /\ pc' = [pc EXCEPT ![t] = "dead"]
  /\ SwitchTo(t, Killer, off_count + 1)
  /\ UNCHANGED <<tasks, plan, sleep, last_planned, keyVars, starts>>

\* Faulty variant: the killer is planned, instead of switched to only.
TaskKillMePlansKiller(t) ==
  /\ Runs(t)
  /\ pc[t] = "run"
  /\ plan' = (plan \ {t}) \cup {Killer}
  /\ to_kill' = t
  /\ pc' = [pc EXCEPT ![t] = "dead"]
  /\ SwitchTo(t, Killer, off_count + 1)
  /\ UNCHANGED <<tasks, sleep, last_planned, keyVars, starts>>

TaskKillMe(t) ==
  /\ Runs(t)
  /\ pc[t] = "run"
  /\ plan' = plan \ {t}
  /\ to_kill' = t
  /\ pc' = [pc EXCEPT ![t] = "dead"]
  /\ SwitchTo(t, Killer, off_count + 1)
  /\ UNCHANGED <<tasks, sleep, last_planned, keyVars, starts>>

(***************************************************************************)
(* tentry_killer: one(), once; then kill and switch to the first task, for *)
(* ever.  The task starts with IF set, so that a tick may come before its  *)
(* one(); plan() never picks it, it then waits for the next task_kill_me.  *)
(***************************************************************************)
KillerCount == IF pc[Killer] = "entry" THEN off_count + 1 ELSE off_count

KillerRun ==
  /\ Runs(Killer)
  /\ IF to_kill \in tasks THEN Remove(to_kill)
                          ELSE UNCHANGED <<tasks, plan, last_planned, isr>>
  /\ pc' = [pc EXCEPT ![Killer] = "loop"]
  /\ SwitchTo(Killer, First, KillerCount)
  /\ UNCHANGED <<sleep, to_kill, kbd, starts>>

(***************************************************************************)
(* The keyboard interrupt.  Its handler runs on the stack of the current   *)
(* task with IF clear, but switch_to_term calls one() and all(): a CTRL+Fx *)
(* key sets IF again (at count 0) before int_complete has told the PIC,    *)
(* which delivers no further key until then.                               *)
(***************************************************************************)
KeyComes == /\ ~kbd
            /\ kbd' = TRUE
            /\ UNCHANGED <<tasks, plan, sleep, pc, ifl, cur, last_planned,
                           to_kill, off_count, isr, segVars, starts>>

KeyDeliverable == kbd /\ isr = NoTask /\ cur \in ifl

KeyPlain == /\ KeyDeliverable
            /\ kbd' = FALSE
            /\ UNCHANGED <<tasks, plan, sleep, pc, ifl, cur, last_planned,
                           to_kill, off_count, isr, segVars, starts>>

KeySwitch == /\ SwitchKeys
             /\ KeyDeliverable
             /\ kbd' = FALSE
             /\ isr' = cur
             /\ ifl' = AfterSection(cur, off_count)
             /\ off_count' = CountOn(off_count + 1)
             /\ UNCHANGED <<tasks, plan, sleep, pc, cur, last_planned, to_kill, segVars, starts>>

\* The rest of the handler: int_complete, and iret to the interrupted code.
KeyDone == /\ isr = cur
           /\ isr' = NoTask
           /\ ifl' = ifl \cup {cur}
           /\ UNCHANGED <<tasks, plan, sleep, pc, cur, last_planned, to_kill,
                          off_count, kbd, segVars, starts>>

Next == \/ BootEnd
        \/ WorkStart
        \/ Tick
        \/ \E t \in Programs \cup {Work} : Section(t)
        \/ \E t \in Programs, d \in SleepValues : SleepMksec(t, d)
        \/ \E t \in Programs : SleepSwitch(t)
        \/ \E id \in Ids : TaskNewk(id)
        \/ \E t \in Programs : TaskKill(t)
        \/ \E t \in Programs : TaskKillMe(t)
        \/ KillerRun
        \/ KeyComes
        \/ KeyPlain
        \/ KeySwitch
        \/ KeyDone

Spec == Init /\ [][Next]_vars

(***************************************************************************)
(* The PIC holds an interrupt until it is delivered, so one that can be    *)
(* delivered again and again is: strong fairness.  A task that is given    *)
(* the processor again and again gets through a bounded stretch of code.   *)
(* Nothing is assumed of the calls programs choose to make, nor of keys.   *)
(***************************************************************************)
Fairness == /\ SF_vars(Tick)
            /\ SF_vars(KeyPlain \/ KeySwitch)
            /\ SF_vars(KeyDone)
            /\ SF_vars(KillerRun)
            /\ \A t \in Programs : SF_vars(SleepSwitch(t))
            /\ WF_vars(BootEnd)
            /\ WF_vars(WorkStart)

FairSpec == Spec /\ Fairness
-----------------------------------------------------------------------------
\* The types of the variables.
TypeOK == /\ tasks \in SUBSET Ids
          /\ plan \in SUBSET Ids
          /\ sleep \in [Ids -> Nat]
          /\ pc \in [Ids -> {"boot", "idle", "entry", "loop", "start", "run", "sleep", "dead"}]
          /\ ifl \in SUBSET Ids
          /\ cur \in Ids
          /\ last_planned \in Ids
          /\ to_kill \in Ids \cup {NoTask}
          /\ off_count \in Nat
          /\ kbd \in BOOLEAN
          /\ isr \in Ids \cup {NoTask, Lost}
          /\ busy \in SUBSET Ids
          /\ prev_task \in [Ids -> Ids \cup {NoTask}]
          /\ starts \in 0 .. MaxStarts

\* last_planned_task and the running task are in the list.  plan() walks the
\* list until it meets last_planned_task again: were it the struct of a killed
\* task, a search that finds nothing would never end.
ListedPointers == last_planned \in tasks /\ cur \in tasks

\* A task that called task_kill_me never runs again, though its struct stays in
\* the list until the killer gets to it: nothing resumes the code after the call.
DeadNeverRuns == pc[cur] # "dead"

\* In the shipped build no program runs its own code with interrupts off, in
\* spite of the counts that task_kill_me and the killer never give back: the
\* next tick, which comes before any program runs, restores the count.
NeverLeftMasked ==
  \A t \in tasks \cap (Programs \cup {Work}) :
    Runs(t) /\ pc[t] # "dead" => t \in ifl /\ off_count = 0

\* Exactly the running task is marked busy.  The iret that ends a switch faults
\* when the task it goes to is not, and the kernel dies; the flags are set and
\* cleared by hand, by way of back links that may be those of an older switch.
BusyIsRunning == busy = {cur}

\* plan() dispatches only awake tasks, although its search may end at a sleeping
\* last_planned_task: the shell is always ready, so the search never gets there.
OnlyAwakeDispatched ==
  [][Tick => cur' \in plan \cup {First} /\ sleep'[cur'] = 0]_vars

\* The killer ends only a program that called task_kill_me, though it is told of it
\* by an id in a variable that stays as it is, and ids are used again: a new program
\* with an old id is not killed in place of the one that had it.
KillsOnlyDead ==
  [][\A t \in tasks \ tasks' : cur = Killer => pc[t] = "dead"]_vars

\* A task that is planned and awake gets the processor, or dies first; the
\* restart of the search at every kill delays it only finitely often, for
\* finitely many tasks are started.
ReadyRuns ==
  \A t \in Programs :
    (t \in tasks /\ Ready(t, sleep)) ~> (cur = t \/ t \notin plan \/ sleep[t] # 0)

\* A sleeping task wakes up and is given the processor, or is killed.
SleeperWakes ==
  \A t \in Programs :
    (t \in tasks /\ sleep[t] # 0) ~> ((cur = t /\ sleep[t] = 0) \/ t \notin plan)

\* Every key that reaches the PIC is taken by the handler.
KeysServed == kbd ~> ~kbd

\* As long as no key switches terminals, every key is served.
PlainKeysServed == [](isr = NoTask) => KeysServed

\* A program that ended itself leaves the list of tasks, the one the "tasks"
\* command prints.
DeadRemoved == \A t \in Programs : (t \in tasks /\ pc[t] = "dead") ~>
                                     (t \notin tasks \/ pc[t] # "dead")
=============================================================================
