------------------------------- MODULE TaskWdt -------------------------------
(***************************************************************************)
(* The task watchdog, api/wise/wise_task_wdt.c.  Tasks subscribe, and reset *)
(* the watchdog from time to time; a window of expire_dur_tick ticks starts *)
(* again whenever all of them have done so since it started.  The thread    *)
(* task_wdt looks at the window at least every Poll ticks and whenever the  *)
(* semaphore is released; a window that ends with a task that has not reset *)
(* is reported, and the thread stops feeding the hardware watchdog.         *)
(*                                                                         *)
(* ktime() is a u32: the clock counts modulo Ticks, and the time that is   *)
(* left is read as a signed number.  The thread runs at the highest        *)
(* priority: time does not pass while it is ready.                         *)
(***************************************************************************)
EXTENDS Integers

CONSTANTS Watched,  \* the tasks that may subscribe
          Ticks,    \* the values of the clock, 2^32 in the code
          Timeout,  \* wise_task_wdt_init's timeout_s, in ticks
          Slack,    \* a window ends this early: 10 ms in the code
          Poll      \* the longest wait for the semaphore: 1 s in the code

ASSUME TimeAssumption ==
  Ticks \in Nat \ {0} /\ Timeout \in Nat /\ Slack \in Nat /\ Poll \in Nat \ {0}

VARIABLES
  started,      \* wise_task_wdt_init has run
  now,          \* ktime()
  expire_tick,
  entries,      \* per task: no entry, has_reset FALSE ("due"), has_reset TRUE ("reset")
  sem,          \* the semaphore's count
  thread,       \* where task_wdt is
  waited,       \* for how long it has been waiting
  silent        \* for how long a subscribed task has not reset

wdt == <<started, now, expire_tick, entries, sem, thread, waited, silent>>

WdtInit ==
  /\ started = FALSE
  /\ now = 0
  /\ expire_tick = 0
  /\ entries = [t \in Watched |-> "none"]
  /\ sem = 0
  /\ thread = "off"
  /\ waited = 0
  /\ silent = [t \in Watched |-> 0]

(* expire_dur_tick, a u32 computed from the timeout by init. *)
expire_dur_tick == IF started THEN Timeout % Ticks ELSE 0

(* (int32_t)x *)
Signed(x) == IF x < Ticks \div 2 THEN x ELSE x - Ticks

all_reset(es) == \A t \in Watched : es[t] # "due"

(* Mutant: has_reset stays set. *)
task_wdt_timer_feed_Keeps(es) == es

task_wdt_timer_feed(es) == [t \in Watched |-> IF es[t] = "none" THEN "none" ELSE "due"]

task_wdt_expire_update == (now + expire_dur_tick) % Ticks

(* Mutant: the window goes on. *)
task_wdt_check_feed_KeepsWindow(es) ==
  IF all_reset(es)
  THEN /\ entries' = task_wdt_timer_feed(es)
       /\ sem' = IF started THEN 1 ELSE sem
       /\ UNCHANGED expire_tick
  ELSE entries' = es /\ UNCHANGED <<expire_tick, sem>>

(* With the entries es: a new window if all have reset, and the thread is  *)
(* woken.  The semaphore counts to 1, and there is none before init.       *)
task_wdt_check_feed(es) ==
  IF all_reset(es)
  THEN /\ entries' = task_wdt_timer_feed(es)
       /\ expire_tick' = task_wdt_expire_update
       /\ sem' = IF started THEN 1 ELSE sem
  ELSE entries' = es /\ UNCHANGED <<expire_tick, sem>>

wise_task_wdt_init ==
  /\ ~started
  /\ started' = TRUE
  /\ expire_tick' = (now + (Timeout % Ticks)) % Ticks
  /\ sem' = 0
  /\ thread' = "check"
  /\ UNCHANGED <<now, entries, waited, silent>>

(* A task that is subscribed already gets WISE_FAIL and nothing changes. *)
wise_task_wdt_add(t) ==
  /\ entries[t] = "none"
  /\ task_wdt_check_feed([entries EXCEPT ![t] = "reset"])
  /\ silent' = [silent EXCEPT ![t] = 0]
  /\ UNCHANGED <<started, now, thread, waited>>

(* A task unsubscribes by its ID.  With NULL, which is looked for in the   *)
(* list as it is, the call fails and changes nothing.                      *)
wise_task_wdt_delete(t) ==
  /\ entries[t] # "none"
  /\ task_wdt_check_feed([entries EXCEPT ![t] = "none"])
  /\ silent' = [silent EXCEPT ![t] = 0]
  /\ UNCHANGED <<started, now, thread, waited>>

wise_task_wdt_reset(t) ==
  /\ entries[t] # "none"
  /\ task_wdt_check_feed([entries EXCEPT ![t] = "reset"])
  /\ silent' = [silent EXCEPT ![t] = 0]
  /\ UNCHANGED <<started, now, thread, waited>>

(* task_wdt, with interrupts off: the window is looked at, and one that    *)
(* ends starts again.                                                      *)
Expired == Signed((expire_tick - now) % Ticks) <= Slack

task_wdt_end ==
  /\ thread = "check"
  /\ Expired
  /\ all_reset(entries)
  /\ expire_tick' = task_wdt_expire_update
  /\ entries' = task_wdt_timer_feed(entries)
  /\ thread' = "wait"
  /\ waited' = 0
  /\ UNCHANGED <<started, now, sem, silent>>

(* A task has not reset: it is reported, and the thread sleeps for ever.   *)
task_wdt_alarm ==
  /\ thread = "check"
  /\ Expired
  /\ ~all_reset(entries)
  /\ expire_tick' = task_wdt_expire_update
  /\ thread' = "alarm"
  /\ UNCHANGED <<started, now, entries, sem, waited, silent>>

task_wdt_early ==
  /\ thread = "check"
  /\ ~Expired
  /\ thread' = "wait"
  /\ waited' = 0
  /\ UNCHANGED <<started, now, expire_tick, entries, sem, silent>>

(* osSemaphoreAcquire returns: released, or timed out. *)
task_wdt_wake ==
  /\ thread = "wait"
  /\ sem = 1 \/ waited = Poll
  /\ sem' = 0
  /\ thread' = "check"
  /\ UNCHANGED <<started, now, expire_tick, entries, waited, silent>>

(* Time passes (external).  After the alarm the hardware watchdog resets   *)
(* the chip.                                                               *)
Tick ==
  /\ thread = "off" \/ (thread = "wait" /\ sem = 0 /\ waited < Poll)
  /\ now' = (now + 1) % Ticks
  /\ waited' = IF thread = "wait" THEN waited + 1 ELSE waited
  /\ silent' = [t \in Watched |-> IF started /\ entries[t] # "none"
                                THEN silent[t] + 1 ELSE 0]
  /\ UNCHANGED <<started, expire_tick, entries, sem, thread>>

WdtNext ==
  \/ wise_task_wdt_init
  \/ \E t \in Watched :
       \/ wise_task_wdt_add(t) \/ wise_task_wdt_reset(t)
       \/ wise_task_wdt_delete(t)
  \/ task_wdt_end \/ task_wdt_alarm \/ task_wdt_early \/ task_wdt_wake
  \/ Tick

WdtSpec == WdtInit /\ [][WdtNext]_wdt

-----------------------------------------------------------------------------
(* Properties *)

(* task_wdt_err_report: when the watchdog triggers, some subscribed task has *)
(* not reset for the timeout, less the slack.                              *)
(* Tasks that reset more often than that never see it trigger, however     *)
(* their calls, and those of tasks that come and go, interleave, and       *)
(* whenever the clock wraps.                                               *)
AlarmJustified ==
  [][(thread # "alarm" /\ thread' = "alarm") =>
       \E t \in Watched : entries[t] = "due" /\ silent[t] >= Timeout - Slack]_wdt

(* The other way round: a task that hangs is found.  It has its last reset *)
(* in one window, which the other tasks may still end in time, and the     *)
(* next window ends with the alarm; the thread sees the end of each at the *)
(* first poll that is not too early.                                       *)
HungTaskFound ==
  thread # "alarm" =>
    \A t \in Watched : silent[t] <= 2 * Poll * ((Timeout - Slack + Poll - 1) \div Poll)
=============================================================================
