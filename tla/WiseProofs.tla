----------------------------- MODULE WiseProofs -----------------------------
(***************************************************************************)
(* Safety of the services of api/wise: the event loop and the watchdog.    *)
(*                                                                         *)
(* The event loop, for every number of tasks and of set-ups and tear-downs: *)
(* no handle is used after its object is gone, and between the calls of    *)
(* init and deinit the loop is there with all its parts or not at all.     *)
(*                                                                         *)
(* The watchdog, for every set of watched tasks, every range of the clock  *)
(* that wraps and every timeout in InRange: a task that hangs is found in  *)
(* time, and an alarm names a task that was silent for a whole window.     *)
(***************************************************************************)
EXTENDS EventLoop, TaskWdt, TLAPS

-----------------------------------------------------------------------------

(* The types of the variables, and the queue a sender is about to use. *)
Typed ==
  /\ use \in Uses
  /\ s_event_init_flag \in BOOLEAN /\ s_event_handler_cb \in BOOLEAN
  /\ s_event_queue \in Handles \cup {NULL}
  /\ s_event_thread \in Handles \cup {NULL}
  /\ queues \in [Handles -> Seq(Events) \cup {NULL}]
  /\ threads \in [Handles -> {"test", "get", "user", NULL}]
  /\ evt \in [Handles -> Events]
  /\ pc \in [Tasks -> {"idle", "flag", "queue", "thread", "cb", "terminate",
                       "delete", "clear", "clear_cb", "clear_flag", "put"}]
  /\ h \in [Tasks -> Handles \cup {NULL}]
  /\ cb \in [Tasks -> BOOLEAN]
  /\ asked \in BOOLEAN
  /\ mark \in {"no", "in", "lost"}
  /\ stale \in BOOLEAN
  /\ \A t \in Tasks : pc[t] = "put" => h[t] \in Handles

Controls(t) == InInit(t) \/ InDeinit(t)

(* There is a queue, and there is a thread, but for the steps of a set-up  *)
(* or a tear-down at which it is not there yet or any more.                *)
Clearing(t) == pc[t] \in {"clear", "clear_cb", "clear_flag"}
QueueUp == s_event_init_flag /\ \A t \in Tasks : pc[t] # "queue" /\ ~Clearing(t)
ThreadUp ==
  /\ s_event_init_flag
  /\ \A t \in Tasks : pc[t] \notin {"queue", "thread", "delete"} /\ ~Clearing(t)

(* One task at a time sets up or tears down, and how far it is says what   *)
(* there is of the loop.                                                   *)
Phases ==
  /\ \A s, t \in Tasks : Controls(s) /\ Controls(t) => s = t
  /\ \A t \in Tasks : Controls(t) => (s_event_init_flag <=> pc[t] # "flag")
  /\ \A q \in Handles : queues[q] # NULL => QueueUp /\ q = s_event_queue
  /\ QueueUp => s_event_queue \in Handles /\ queues[s_event_queue] # NULL
  /\ \A i \in Handles : threads[i] # NULL => ThreadUp /\ i = s_event_thread
  /\ ThreadUp => s_event_thread \in Handles /\ threads[s_event_thread] # NULL
  /\ (~QueueUp /\ \A t \in Tasks : pc[t] # "clear") => s_event_queue = NULL

(* A sender has the handle of the queue that is there. *)
Senders ==
  /\ ~stale
  /\ \A t \in Tasks : pc[t] = "put" =>
       /\ QueueUp /\ h[t] = s_event_queue
       /\ \A s \in Tasks : ~InDeinit(s)

LoopInv ==
  /\ Typed
  /\ Only({"early", "teardown"}) => Phases
  /\ Only({"early"}) => Senders

-----------------------------------------------------------------------------
(* A queue that exists is not the NULL pointer. *)
LEMMA QueueNotNull == /\ \A q \in Seq(Events) : q # NULL
                      /\ <<>> \in Seq(Events)
  BY LoopAssumption

(* osMessageQueuePut puts one event at the end, or leaves the queue as it  *)
(* is when it is full.                                                     *)
LEMMA PutOrFull ==
  ASSUME Typed, NEW t \in Tasks, send_put(t)
  PROVE  /\ h[t] \in Handles /\ queues[h[t]] \in Seq(Events)
         /\ \E s \in Seq(Events) : queues' = [queues EXCEPT ![h[t]] = s]
         /\ mark' \in {mark, "in"}
<1>1. h[t] \in Handles /\ queues[h[t]] \in Seq(Events)
  BY DEF Typed, send_put
<1>2. \/ queues' = queues /\ mark' = mark
      \/ \E e \in Events : /\ queues' = [queues EXCEPT ![h[t]] = Append(@, e)]
                           /\ mark' \in {mark, "in"}
  BY DEF send_put, Events
<1>3. CASE queues' = queues /\ mark' = mark
  <2>1. queues' = [queues EXCEPT ![h[t]] = queues[h[t]]]
    BY <1>1, <1>3 DEF Typed
  <2> QED
    BY <1>1, <1>3, <2>1
<1>4. ASSUME NEW e \in Events,
             queues' = [queues EXCEPT ![h[t]] = Append(@, e)], mark' \in {mark, "in"}
      PROVE  \E s \in Seq(Events) : queues' = [queues EXCEPT ![h[t]] = s]
  <2>1. Append(queues[h[t]], e) \in Seq(Events)
    BY <1>1
  <2> QED
    BY <1>4, <2>1
<1> QED
  BY <1>1, <1>2, <1>3, <1>4

(* Every step keeps the types. *)
LEMMA TypedStep ==
  ASSUME Typed, [Next]_vars
  PROVE  Typed'
<1> USE LoopAssumption
<1>1. ASSUME NEW t \in Tasks, init_test(t) PROVE Typed'
  BY <1>1
  DEF init_test, MayControl, Typed, Events, globals, objects, locals, ghosts, Goto
<1>2. ASSUME NEW t \in Tasks, init_flag(t) PROVE Typed'
  BY <1>2 DEF init_flag, Typed, Events, globals, objects, locals, ghosts, Goto
<1>3. ASSUME NEW t \in Tasks, init_queue(t) PROVE Typed'
  BY <1>3 DEF init_queue, Typed, Events, globals, objects, locals, ghosts, Goto
<1>4. ASSUME NEW t \in Tasks, init_queue_fails(t) PROVE Typed'
  BY <1>4 DEF init_queue_fails, Typed, Events, globals, objects, locals, ghosts, Goto
<1>5. ASSUME NEW t \in Tasks, init_thread(t) PROVE Typed'
  BY <1>5 DEF init_thread, Typed, Events, globals, objects, locals, ghosts, Goto
<1>6. ASSUME NEW t \in Tasks, init_thread_fails(t) PROVE Typed'
  BY <1>6 DEF init_thread_fails, Typed, Events, globals, objects, locals, ghosts, Goto
<1>7. ASSUME NEW t \in Tasks, init_cb(t) PROVE Typed'
  BY <1>7 DEF init_cb, Typed, Events, globals, objects, locals, ghosts, Goto
<1>8. ASSUME NEW t \in Tasks, wise_event_loop_set_cb(t) PROVE Typed'
  BY <1>8
  DEF wise_event_loop_set_cb, MayControl, Typed, Events, globals, objects, locals,
      ghosts,
      Goto
<1>9. ASSUME NEW t \in Tasks, deinit_test(t) PROVE Typed'
  BY <1>9
  DEF deinit_test, MayControl, Typed, Events, globals, objects, locals, ghosts, Goto
<1>10. ASSUME NEW t \in Tasks, deinit_terminate(t) PROVE Typed'
  BY <1>10 DEF deinit_terminate, Typed, Events, globals, objects, locals, ghosts, Goto
<1>11. ASSUME NEW t \in Tasks, deinit_delete(t) PROVE Typed'
  BY <1>11 DEF deinit_delete, Typed, Events, globals, objects, locals, ghosts, Goto
<1>12. ASSUME NEW t \in Tasks, deinit_clear(t) PROVE Typed'
  BY <1>12 DEF deinit_clear, Typed, Events, globals, objects, locals, ghosts, Goto
<1>21. ASSUME NEW t \in Tasks, deinit_clear_cb(t) PROVE Typed'
  BY <1>21 DEF deinit_clear_cb, Typed, Events, globals, objects, locals, ghosts, Goto
<1>22. ASSUME NEW t \in Tasks, deinit_clear_flag(t) PROVE Typed'
  BY <1>22 DEF deinit_clear_flag, Typed, Events, globals, objects, locals, ghosts, Goto
<1>13. ASSUME NEW t \in Tasks, send_test(t) PROVE Typed'
  BY <1>13 DEF send_test, Typed, Events, globals, objects, locals, ghosts, Goto
<1>14. ASSUME NEW t \in Tasks, send_put(t) PROVE Typed'
  <2>1. PICK s \in Seq(Events) : queues' = [queues EXCEPT ![h[t]] = s]
    BY <1>14, PutOrFull
  <2>2. queues' \in [Handles -> Seq(Events) \cup {NULL}]
    BY <2>1 DEF Typed
  <2>3. mark' \in {"no", "in", "lost"}
    BY <1>14, PutOrFull DEF Typed
  <2> QED
    BY <1>14, <2>2, <2>3 DEF Typed, send_put, globals, Goto
<1>15. ASSUME NEW t \in Tasks, send_stale(t) PROVE Typed'
  BY <1>15 DEF send_stale, Typed, Events, globals, objects, locals, ghosts, Goto
<1>16. ASSUME NEW i \in Handles, loop_test(i) PROVE Typed'
  BY <1>16 DEF loop_test, Typed, Events, globals, objects, locals, ghosts, Goto
<1>17. ASSUME NEW i \in Handles, loop_get(i) PROVE Typed'
  BY <1>17 DEF loop_get, Typed, Events, globals, objects, locals, ghosts, Goto
<1>18. ASSUME NEW i \in Handles, loop_user(i) PROVE Typed'
  BY <1>18 DEF loop_user, Typed, Events, globals, objects, locals, ghosts, Goto
<1>19. ASSUME NEW i \in Handles, loop_user_deinit(i) PROVE Typed'
  BY <1>19 DEF loop_user_deinit, Typed, Events, globals, objects, locals, ghosts, Goto
<1>20. CASE UNCHANGED vars
  BY <1>20 DEF vars, globals, objects, locals, ghosts, Typed, Events
<1> QED
  BY <1>1, <1>2, <1>3, <1>4, <1>5, <1>6, <1>7, <1>8, <1>9, <1>10, <1>11, <1>12, <1>13,
     <1>14, <1>15, <1>16, <1>17, <1>18, <1>19, <1>20, <1>21, <1>22
  DEF Next, call, loop

(* A set-up or a tear-down by one task at a time goes from phase to phase. *)
LEMMA PhasesStep ==
  ASSUME Typed, Only({"early", "teardown"}), Phases, [Next]_vars
  PROVE  Phases'
<1> USE LoopAssumption
<1>a. "race" \notin use /\ "nomem" \notin use /\ "self" \notin use
  BY DEF Only
<1>1. ASSUME NEW t \in Tasks, init_test(t) PROVE Phases'
  BY <1>1, <1>a
  DEF init_test, MayControl, Typed, Phases, QueueUp, ThreadUp, Clearing, Controls,
      InInit,
      InDeinit, globals, objects, locals, ghosts, Goto
<1>2. ASSUME NEW t \in Tasks, init_flag(t) PROVE Phases'
  BY <1>2, <1>a
  DEF init_flag, Typed, Phases, QueueUp, ThreadUp, Clearing, Controls, InInit, InDeinit,
      globals, objects, locals, ghosts, Goto
<1>3. ASSUME NEW t \in Tasks, init_queue(t) PROVE Phases'
  <2>1. PICK q \in Handles : /\ queues[q] = NULL
                             /\ queues' = [queues EXCEPT ![q] = <<>>]
                             /\ s_event_queue' = q
    BY <1>3 DEF init_queue
  <2>2. \A p \in Handles : queues'[p] # NULL <=> (p = q \/ queues[p] # NULL)
    BY <2>1, QueueNotNull DEF Typed
  <2> QED
    BY <1>3, <1>a, <2>1, <2>2
    DEF init_queue, Typed, Phases, QueueUp, ThreadUp, Clearing, Controls, InInit,
        InDeinit,
        globals, objects, locals, ghosts, Goto
<1>4. ASSUME NEW t \in Tasks, init_queue_fails(t) PROVE Phases'
  BY <1>4, <1>a
  DEF init_queue_fails, Typed, Phases, QueueUp, ThreadUp, Clearing, Controls, InInit,
      InDeinit,
      globals, objects, locals, ghosts, Goto
<1>5. ASSUME NEW t \in Tasks, init_thread(t) PROVE Phases'
  BY <1>5, <1>a
  DEF init_thread, Typed, Phases, QueueUp, ThreadUp, Clearing, Controls, InInit,
      InDeinit,
      globals, objects, locals, ghosts, Goto
<1>6. ASSUME NEW t \in Tasks, init_thread_fails(t) PROVE Phases'
  BY <1>6, <1>a
  DEF init_thread_fails, Typed, Phases, QueueUp, ThreadUp, Clearing, Controls, InInit,
      InDeinit,
      globals, objects, locals, ghosts, Goto
<1>7. ASSUME NEW t \in Tasks, init_cb(t) PROVE Phases'
  BY <1>7, <1>a
  DEF init_cb, Typed, Phases, QueueUp, ThreadUp, Clearing, Controls, InInit, InDeinit,
      globals,
      objects, ghosts, Goto
<1>8. ASSUME NEW t \in Tasks, wise_event_loop_set_cb(t) PROVE Phases'
  BY <1>8, <1>a
  DEF wise_event_loop_set_cb, MayControl, Typed, Phases, QueueUp, ThreadUp, Clearing,
      Controls,
      InInit, InDeinit, globals, objects, locals, ghosts, Goto
<1>9. ASSUME NEW t \in Tasks, deinit_test(t) PROVE Phases'
  BY <1>9, <1>a
  DEF deinit_test, MayControl, Typed, Phases, QueueUp, ThreadUp, Clearing, Controls,
      InInit,
      InDeinit, globals, objects, locals, ghosts, Goto
<1>10. ASSUME NEW t \in Tasks, deinit_terminate(t) PROVE Phases'
  BY <1>10, <1>a
  DEF deinit_terminate, Typed, Phases, QueueUp, ThreadUp, Clearing, Controls, InInit,
      InDeinit,
      globals, objects, locals, ghosts, Goto
<1>11. ASSUME NEW t \in Tasks, deinit_delete(t) PROVE Phases'
  BY <1>11, <1>a
  DEF deinit_delete, Typed, Phases, QueueUp, ThreadUp, Clearing, Controls, InInit,
      InDeinit,
      globals, objects, locals, ghosts, Goto
<1>12. ASSUME NEW t \in Tasks, deinit_clear(t) PROVE Phases'
  BY <1>12, <1>a
  DEF deinit_clear, Typed, Phases, QueueUp, ThreadUp, Clearing, Controls, InInit,
      InDeinit,
      globals, objects, locals, ghosts, Goto
<1>21. ASSUME NEW t \in Tasks, deinit_clear_cb(t) PROVE Phases'
  BY <1>21, <1>a
  DEF deinit_clear_cb, Typed, Phases, QueueUp, ThreadUp, Clearing, Controls, InInit,
      InDeinit,
      globals, objects, locals, ghosts, Goto
<1>22. ASSUME NEW t \in Tasks, deinit_clear_flag(t) PROVE Phases'
  BY <1>22, <1>a
  DEF deinit_clear_flag, Typed, Phases, QueueUp, ThreadUp, Clearing, Controls, InInit,
      InDeinit,
      globals, objects, locals, ghosts, Goto
<1>13. ASSUME NEW t \in Tasks, send_test(t) PROVE Phases'
  BY <1>13, <1>a
  DEF send_test, Typed, Phases, QueueUp, ThreadUp, Clearing, Controls, InInit, InDeinit,
      globals, objects, locals, ghosts, Goto
<1>14. ASSUME NEW t \in Tasks, send_put(t) PROVE Phases'
  <2>1. \A q \in Handles : queues'[q] # NULL <=> queues[q] # NULL
    BY <1>14, PutOrFull, QueueNotNull DEF Typed
  <2> QED
    BY <1>14, <1>a, <2>1
    DEF send_put, Typed, Phases, QueueUp, ThreadUp, Clearing, Controls, InInit,
        InDeinit,
        globals, objects, locals, ghosts, Goto
<1>15. ASSUME NEW t \in Tasks, send_stale(t) PROVE Phases'
  BY <1>15, <1>a
  DEF send_stale, Typed, Phases, QueueUp, ThreadUp, Clearing, Controls, InInit,
      InDeinit,
      globals, objects, locals, ghosts, Goto
<1>16. ASSUME NEW i \in Handles, loop_test(i) PROVE Phases'
  BY <1>16, <1>a
  DEF loop_test, Typed, Phases, QueueUp, ThreadUp, Clearing, Controls, InInit, InDeinit,
      globals, objects, locals, ghosts, Goto
<1>17. ASSUME NEW i \in Handles, loop_get(i) PROVE Phases'
  <2>1. queues[s_event_queue] \in Seq(Events) /\ s_event_queue \in Handles
    BY <1>17 DEF loop_get, Typed
  <2>2. Tail(queues[s_event_queue]) \in Seq(Events)
    BY <1>17, <2>1 DEF loop_get
  <2>3. queues' = [queues EXCEPT ![s_event_queue] = Tail(queues[s_event_queue])]
    BY <1>17 DEF loop_get
  <2>4. \A q \in Handles : queues'[q] # NULL <=> queues[q] # NULL
    BY <2>1, <2>2, <2>3, QueueNotNull DEF Typed
  <2>5. \A j \in Handles : threads'[j] # NULL <=> threads[j] # NULL
    BY <1>17 DEF loop_get, Typed
  <2> QED
    BY <1>17, <1>a, <2>4, <2>5
    DEF loop_get, Typed, Phases, QueueUp, ThreadUp, Clearing, Controls, InInit,
        InDeinit,
        globals, objects, locals, ghosts, Goto
<1>18. ASSUME NEW i \in Handles, loop_user(i) PROVE Phases'
  BY <1>18, <1>a
  DEF loop_user, Typed, Phases, QueueUp, ThreadUp, Clearing, Controls, InInit, InDeinit,
      globals, objects, locals, ghosts, Goto
<1>19. ASSUME NEW i \in Handles, loop_user_deinit(i) PROVE Phases'
  BY <1>19, <1>a
  DEF loop_user_deinit, Typed, Phases, QueueUp, ThreadUp, Clearing, Controls, InInit,
      InDeinit,
      globals, objects, locals, ghosts, Goto
<1>20. CASE UNCHANGED vars
  BY <1>20
  DEF vars, globals, objects, locals, ghosts, Typed, Phases, QueueUp, ThreadUp,
      Clearing, Controls,
      InInit, InDeinit
<1> QED
  BY <1>1, <1>2, <1>3, <1>4, <1>5, <1>6, <1>7, <1>8, <1>9, <1>10, <1>11, <1>12, <1>13,
     <1>14, <1>15, <1>16, <1>17, <1>18, <1>19, <1>20, <1>21, <1>22
  DEF Next, call, loop

(* Without a tear-down during a call, senders keep a queue that is there. *)
LEMMA SendersStep ==
  ASSUME Typed, Only({"early"}), Phases, Senders, [Next]_vars
  PROVE  Senders'
<1> USE LoopAssumption
<1>a. {"race", "nomem", "self", "teardown"} \cap use = {}
  BY DEF Only
<1>1. ASSUME NEW t \in Tasks, init_test(t) PROVE Senders'
  BY <1>1, <1>a
  DEF init_test, MayControl, Senders, Typed, Phases, QueueUp, ThreadUp, Clearing,
      Controls,
      InInit, InDeinit, globals, objects, locals, ghosts, Goto
<1>2. ASSUME NEW t \in Tasks, init_flag(t) PROVE Senders'
  BY <1>2, <1>a
  DEF init_flag, Senders, Typed, Phases, QueueUp, ThreadUp, Clearing, Controls, InInit,
      InDeinit, globals, objects, locals, ghosts, Goto
<1>3. ASSUME NEW t \in Tasks, init_queue(t) PROVE Senders'
  BY <1>3, <1>a
  DEF init_queue, Senders, Typed, Phases, QueueUp, ThreadUp, Clearing, Controls, InInit,
      InDeinit, globals, objects, locals, ghosts, Goto
<1>4. ASSUME NEW t \in Tasks, init_queue_fails(t) PROVE Senders'
  BY <1>4, <1>a
  DEF init_queue_fails, Senders, Typed, Phases, QueueUp, ThreadUp, Clearing, Controls,
      InInit,
      InDeinit, globals, objects, locals, ghosts, Goto
<1>5. ASSUME NEW t \in Tasks, init_thread(t) PROVE Senders'
  BY <1>5, <1>a
  DEF init_thread, Senders, Typed, Phases, QueueUp, ThreadUp, Clearing, Controls,
      InInit,
      InDeinit, globals, objects, locals, ghosts, Goto
<1>6. ASSUME NEW t \in Tasks, init_thread_fails(t) PROVE Senders'
  BY <1>6, <1>a
  DEF init_thread_fails, Senders, Typed, Phases, QueueUp, ThreadUp, Clearing,
      Controls, InInit,
      InDeinit, globals, objects, locals, ghosts, Goto
<1>7. ASSUME NEW t \in Tasks, init_cb(t) PROVE Senders'
  BY <1>7, <1>a
  DEF init_cb, Senders, Typed, Phases, QueueUp, ThreadUp, Clearing, Controls, InInit,
      InDeinit,
      globals, objects, locals, ghosts, Goto
<1>8. ASSUME NEW t \in Tasks, wise_event_loop_set_cb(t) PROVE Senders'
  BY <1>8, <1>a
  DEF wise_event_loop_set_cb, MayControl, Senders, Typed, Phases, QueueUp, ThreadUp,
      Clearing,
      Controls, InInit, InDeinit, globals, objects, locals, ghosts, Goto
<1>9. ASSUME NEW t \in Tasks, deinit_test(t) PROVE Senders'
  BY <1>9, <1>a
  DEF deinit_test, MayControl, Senders, Typed, Phases, QueueUp, ThreadUp, Clearing,
      Controls,
      InInit, InDeinit, globals, objects, locals, ghosts, Goto
<1>10. ASSUME NEW t \in Tasks, deinit_terminate(t) PROVE Senders'
  BY <1>10, <1>a
  DEF deinit_terminate, Senders, Typed, Phases, QueueUp, ThreadUp, Clearing, Controls,
      InInit,
      InDeinit, globals, objects, locals, ghosts, Goto
<1>11. ASSUME NEW t \in Tasks, deinit_delete(t) PROVE Senders'
  BY <1>11, <1>a
  DEF deinit_delete, Senders, Typed, Phases, QueueUp, ThreadUp, Clearing, Controls,
      InInit,
      InDeinit, globals, objects, locals, ghosts, Goto
<1>12. ASSUME NEW t \in Tasks, deinit_clear(t) PROVE Senders'
  BY <1>12, <1>a
  DEF deinit_clear, Senders, Typed, Phases, QueueUp, ThreadUp, Clearing, Controls,
      InInit,
      InDeinit, globals, objects, locals, ghosts, Goto
<1>21. ASSUME NEW t \in Tasks, deinit_clear_cb(t) PROVE Senders'
  BY <1>21, <1>a
  DEF deinit_clear_cb, Senders, Typed, Phases, QueueUp, ThreadUp, Clearing, Controls,
      InInit,
      InDeinit, globals, objects, locals, ghosts, Goto
<1>22. ASSUME NEW t \in Tasks, deinit_clear_flag(t) PROVE Senders'
  BY <1>22, <1>a
  DEF deinit_clear_flag, Senders, Typed, Phases, QueueUp, ThreadUp, Clearing,
      Controls, InInit,
      InDeinit, globals, objects, locals, ghosts, Goto
<1>13. ASSUME NEW t \in Tasks, send_test(t) PROVE Senders'
  BY <1>13, <1>a
  DEF send_test, Senders, Typed, Phases, QueueUp, ThreadUp, Clearing, Controls, InInit,
      InDeinit, globals, objects, locals, ghosts, Goto
<1>14. ASSUME NEW t \in Tasks, send_put(t) PROVE Senders'
  BY <1>14, <1>a
  DEF send_put, Senders, Typed, Phases, QueueUp, ThreadUp, Clearing, Controls, InInit,
      InDeinit,
      globals, objects, locals, ghosts, Goto
<1>15. ASSUME NEW t \in Tasks, send_stale(t) PROVE Senders'
  BY <1>15, <1>a
  DEF send_stale, Senders, Typed, Phases, QueueUp, ThreadUp, Clearing, Controls, InInit,
      InDeinit, globals, objects, locals, ghosts, Goto
<1>16. ASSUME NEW i \in Handles, loop_test(i) PROVE Senders'
  BY <1>16, <1>a
  DEF loop_test, Senders, Typed, Phases, QueueUp, ThreadUp, Clearing, Controls, InInit,
      InDeinit, globals, objects, locals, ghosts, Goto
<1>17. ASSUME NEW i \in Handles, loop_get(i) PROVE Senders'
  BY <1>17, <1>a
  DEF loop_get, Senders, Typed, Phases, QueueUp, ThreadUp, Clearing, Controls, InInit,
      InDeinit,
      globals, objects, locals, ghosts, Goto
<1>18. ASSUME NEW i \in Handles, loop_user(i) PROVE Senders'
  BY <1>18, <1>a
  DEF loop_user, Senders, Typed, Phases, QueueUp, ThreadUp, Clearing, Controls, InInit,
      InDeinit, globals, objects, locals, ghosts, Goto
<1>19. ASSUME NEW i \in Handles, loop_user_deinit(i) PROVE Senders'
  BY <1>19, <1>a
  DEF loop_user_deinit, Senders, Typed, Phases, QueueUp, ThreadUp, Clearing, Controls,
      InInit,
      InDeinit, globals, objects, locals, ghosts, Goto
<1>20. CASE UNCHANGED vars
  BY <1>20
  DEF vars, globals, objects, locals, ghosts, Senders, Typed, Phases, QueueUp,
      ThreadUp, Clearing,
      Controls, InInit, InDeinit
<1> QED
  BY <1>1, <1>2, <1>3, <1>4, <1>5, <1>6, <1>7, <1>8, <1>9, <1>10, <1>11, <1>12, <1>13,
     <1>14, <1>15, <1>16, <1>17, <1>18, <1>19, <1>20, <1>21, <1>22
  DEF Next, call, loop

-----------------------------------------------------------------------------
(* The invariant holds at first and is kept by every step. *)
LEMMA LoopInvInit == Init => LoopInv
<1> SUFFICES ASSUME Init PROVE LoopInv
  OBVIOUS
<1> USE LoopAssumption
<1>1. Typed
  BY DEF Init, Typed, Events
<1>2. Phases
  BY DEF Init, Phases, QueueUp, ThreadUp, Clearing, Controls, InInit, InDeinit
<1>3. Senders
  BY DEF Init, Senders
<1> QED
  BY <1>1, <1>2, <1>3 DEF LoopInv

(* Every step of the calls and of the loop's thread keeps the invariant. *)
LEMMA LoopInvStep == LoopInv /\ [Next]_vars => LoopInv'
<1> SUFFICES ASSUME LoopInv, [Next]_vars PROVE LoopInv'
  OBVIOUS
<1>1. use' = use
  BY DEF Next, call, loop, vars, init_test, init_flag, init_queue, init_queue_fails,
         init_thread, init_thread_fails, init_cb, wise_event_loop_set_cb, deinit_test,
         deinit_terminate, deinit_delete, deinit_clear, deinit_clear_cb,
         deinit_clear_flag, send_test, send_put, send_stale,
         loop_test, loop_get, loop_user, loop_user_deinit
<1>2. Typed'
  BY TypedStep DEF LoopInv
<1>3. Only({"early", "teardown"})' => Phases'
  BY <1>1, PhasesStep DEF LoopInv, Only
<1>4. Only({"early"})' => Senders'
  <2>1. Only({"early"}) => Only({"early", "teardown"})
    BY DEF Only
  <2> QED
    BY <1>1, <2>1, SendersStep DEF LoopInv, Only
<1> QED
  BY <1>2, <1>3, <1>4 DEF LoopInv

(* The inductive invariant of the event loop of event_loop.c. *)
THEOREM LoopInvariant == Spec => []LoopInv
  BY LoopInvInit, LoopInvStep, PTL DEF Spec

(* NoStaleHandle holds for every number of tasks, handles and set-ups:     *)
(* osMessageQueuePut, osMessageQueueDelete and osThreadTerminate of        *)
(* event_loop.c never get a handle whose object is gone, when deinit does  *)
(* not overlap a send or another init and every creation succeeds.         *)
THEOREM HandlesValid == Spec => []NoStaleHandle
<1>1. LoopInv => NoStaleHandle
  BY DEF LoopInv, Senders, NoStaleHandle
<1> QED
  BY <1>1, LoopInvariant, PTL

(* AllOrNothing holds for every number of tasks, handles and set-ups, also *)
(* when wise_event_loop_deinit is called while others send.                *)
THEOREM LoopWhole == Spec => []AllOrNothing
<1>1. LoopInv => AllOrNothing
  <2> SUFFICES ASSUME LoopInv, Only({"early", "teardown"}),
                      \A t \in Tasks : ~InInit(t) /\ ~InDeinit(t)
               PROVE  /\ {q \in Handles : queues[q] # NULL} =
                           IF s_event_init_flag THEN {s_event_queue} ELSE {}
                      /\ {i \in Handles : threads[i] # NULL} =
                           IF s_event_init_flag THEN {s_event_thread} ELSE {}
    BY DEF AllOrNothing
  <2>1. QueueUp <=> s_event_init_flag
    BY DEF QueueUp, Clearing, InInit, InDeinit
  <2>2. ThreadUp <=> s_event_init_flag
    BY DEF ThreadUp, Clearing, InInit, InDeinit
  <2>3. Phases
    BY DEF LoopInv
  <2> QED
    BY <2>1, <2>2, <2>3 DEF Phases
<1> QED
  BY <1>1, LoopInvariant, PTL

-----------------------------------------------------------------------------

(* The timeouts for which the arithmetic of task_wdt on the u32 clock is   *)
(* exact: longer than the slack, and less than half of the clock's range.  *)
InRange == Slack < Timeout /\ Timeout < Ticks \div 2 /\ Poll <= Ticks \div 2

(* How long the window has lasted. *)
Elapsed == (now + Timeout - expire_tick) % Ticks

(* The age at which the thread sees the end of a window at the latest. *)
Latest == Poll * ((Timeout - Slack + Poll - 1) \div Poll)

WdtTyped ==
  /\ started \in BOOLEAN
  /\ now \in 0..(Ticks - 1) /\ expire_tick \in 0..(Ticks - 1)
  /\ entries \in [Watched -> {"none", "due", "reset"}]
  /\ sem \in 0..1
  /\ thread \in {"off", "check", "wait", "alarm"}
  /\ waited \in 0..Poll
  /\ silent \in [Watched -> Nat]
  /\ started <=> thread # "off"

Watching == thread \in {"check", "wait"}

(* The thread looks at a window when it starts and then every Poll ticks,  *)
(* until it is over: a release of the semaphore comes with a new window.   *)
Polled ==
  /\ Watching /\ sem = 1 => Elapsed = 0
  /\ thread = "check" => Elapsed <= Latest /\ \E k \in Nat : Elapsed = k * Poll
  /\ thread = "wait" /\ sem = 0 =>
       \E k \in Nat : k * Poll < Timeout - Slack /\ Elapsed = k * Poll + waited

(* A task that is not due has reset in this window; one that is has not,   *)
(* and had in the window before.                                           *)
Ages ==
  /\ thread = "off" => \A t \in Watched : silent[t] = 0
  /\ Watching => \A t \in Watched :
       /\ entries[t] = "none" => silent[t] = 0
       /\ entries[t] = "reset" => silent[t] <= Elapsed
       /\ entries[t] = "due" => Elapsed <= silent[t] /\ silent[t] <= Elapsed + Latest

WdtInv == WdtTyped /\ Polled /\ Ages

(* One addition or subtraction on the clock. *)
Wrap(a) == IF a < 0 THEN a + Ticks ELSE IF a < Ticks THEN a ELSE a - Ticks

(* The remainder of a sum or difference of two times of the clock. *)
LEMMA Wraps ==
  ASSUME NEW a \in (-Ticks)..(2 * Ticks - 1)
  PROVE  a % Ticks = Wrap(a)
<1>1. CASE a < 0
  BY <1>1, TimeAssumption DEF Wrap
<1>2. CASE a >= 0 /\ a < Ticks
  BY <1>2, TimeAssumption DEF Wrap
<1>3. CASE a >= Ticks
  BY <1>3, TimeAssumption DEF Wrap
<1> QED
  BY <1>1, <1>2, <1>3, TimeAssumption

(* Half of the clock's range. *)
LEMMA HalfRange == Ticks \div 2 \in Nat /\ 2 * (Ticks \div 2) <= Ticks
  BY TimeAssumption

(* A poll that finds the window not over is followed by one that is not    *)
(* later than Latest.                                                      *)
LEMMA PollsInWindow ==
  ASSUME InRange
  PROVE  /\ Latest \in Nat
         /\ Latest < Timeout - Slack + Poll
         /\ \A k \in Nat : k * Poll < Timeout - Slack => k * Poll + Poll <= Latest
         /\ 2 * Poll * ((Timeout - Slack + Poll - 1) \div Poll) = 2 * Latest
<1> DEFINE d == Timeout - Slack + Poll - 1
           q == d \div Poll
<1>1. Poll \in Nat \ {0} /\ d \in Nat
  BY TimeAssumption DEF InRange
<1>2. q \in Int
  BY <1>1
<1>3. q * Poll <= d
  BY <1>1
<1>4. d < q * Poll + Poll
  BY <1>1
<1>5. q * Poll \in Int /\ q * Poll = Latest
  BY <1>1, <1>2 DEF Latest
<1>6. 2 * Poll * q = 2 * (q * Poll)
  BY <1>1, <1>2
<1>7. ASSUME NEW k \in Nat, k * Poll < Timeout - Slack
      PROVE  k * Poll + Poll <= q * Poll
  <2>1. k * Poll \in Nat
    BY <1>1
  <2>2. k * Poll < q * Poll
    BY <1>1, <1>4, <1>5, <1>7, <2>1, TimeAssumption
  <2>3. k < q
    BY <1>1, <1>2, <2>2
  <2>4. (k + 1) * Poll <= q * Poll
    BY <1>1, <1>2, <2>3
  <2>5. (k + 1) * Poll = k * Poll + Poll
    BY <1>1
  <2> QED
    BY <2>4, <2>5
<1>8. Latest >= 0
  <2>1. 0 * Poll < Timeout - Slack
    BY <1>1, TimeAssumption DEF InRange
  <2> QED
    BY <1>1, <1>5, <1>7, <2>1
<1>9. /\ Latest \in Nat /\ Latest < Timeout - Slack + Poll
      /\ \A k \in Nat : k * Poll < Timeout - Slack => k * Poll + Poll <= Latest
  <2> HIDE DEF q
  <2> QED
    BY <1>1, <1>3, <1>5, <1>7, <1>8, TimeAssumption
<1> QED
  BY <1>5, <1>6, <1>9

(* A window that starts now. *)
LEMMA NewWindow ==
  ASSUME InRange, WdtTyped, now' = now,
         expire_tick' = (now + (Timeout % Ticks)) % Ticks
  PROVE  expire_tick' \in 0..(Ticks - 1) /\ Elapsed' = 0
<1>1. Timeout \in 0..(Ticks - 1) /\ Timeout % Ticks = Timeout
  BY HalfRange, TimeAssumption DEF InRange
<1>2. now + Timeout \in (-Ticks)..(2 * Ticks - 1)
  BY <1>1, TimeAssumption DEF WdtTyped
<1>3. expire_tick' = Wrap(now + Timeout)
  BY <1>1, <1>2, Wraps
<1>4. expire_tick' \in 0..(Ticks - 1) /\ now + Timeout - expire_tick' \in {0, Ticks}
  BY <1>1, <1>3, TimeAssumption DEF WdtTyped, Wrap
<1>5. now + Timeout - expire_tick' \in (-Ticks)..(2 * Ticks - 1)
  BY <1>4, TimeAssumption
<1>6. Elapsed' = Wrap(now + Timeout - expire_tick')
  BY <1>5, Wraps DEF Elapsed
<1> QED
  BY <1>4, <1>6, TimeAssumption DEF Wrap

(* What Elapsed is, without the remainder. *)
LEMMA ElapsedForm ==
  ASSUME InRange, WdtTyped
  PROVE  Elapsed \in 0..(Ticks - 1) /\ Elapsed = Wrap(now + Timeout - expire_tick)
<1>1. now + Timeout - expire_tick \in (-Ticks)..(2 * Ticks - 1)
  BY HalfRange, TimeAssumption DEF InRange, WdtTyped
<1>2. Elapsed = Wrap(now + Timeout - expire_tick)
  BY <1>1, Wraps DEF Elapsed
<1> QED
  BY <1>1, <1>2, TimeAssumption DEF Wrap, WdtTyped

(* The clock ticks. *)
LEMMA WindowGrows ==
  ASSUME InRange, WdtTyped, Elapsed < Latest,
         now' = (now + 1) % Ticks, expire_tick' = expire_tick
  PROVE  now' \in 0..(Ticks - 1) /\ Elapsed' = Elapsed + 1
<1>1. Latest \in Nat /\ Latest < Ticks
  BY PollsInWindow, HalfRange, TimeAssumption DEF InRange
<1>2. now + 1 \in (-Ticks)..(2 * Ticks - 1)
  BY TimeAssumption DEF WdtTyped
<1>3. now' = Wrap(now + 1)
  BY <1>2, Wraps
<1>4. now' \in 0..(Ticks - 1) /\ now' - now \in {1, 1 - Ticks}
  BY <1>3, TimeAssumption DEF WdtTyped, Wrap
<1>5. now' + Timeout - expire_tick \in (-Ticks)..(2 * Ticks - 1)
  BY <1>4, HalfRange, TimeAssumption DEF InRange, WdtTyped
<1>6. Elapsed' = Wrap(now' + Timeout - expire_tick)
  BY <1>5, Wraps DEF Elapsed
<1>7. Elapsed + 1 \in 0..(Ticks - 1) /\ Elapsed = Wrap(now + Timeout - expire_tick)
  BY <1>1, ElapsedForm, TimeAssumption
<1>8. Wrap(now' + Timeout - expire_tick) = Wrap(now + Timeout - expire_tick) + 1
  BY <1>4, <1>5, <1>7, HalfRange, TimeAssumption DEF InRange, WdtTyped, Wrap
<1> QED
  BY <1>4, <1>6, <1>7, <1>8

(* The test of task_wdt, on the signed difference, sees the age of the     *)
(* window, whether the clock has wrapped or not.                           *)
LEMMA ExpiredExact ==
  ASSUME InRange, WdtTyped, Elapsed <= Latest
  PROVE  Expired <=> Elapsed >= Timeout - Slack
<1>1. Elapsed \in Nat /\ Elapsed < Timeout - Slack + Poll
  BY PollsInWindow, ElapsedForm, TimeAssumption
<1>2. expire_tick - now \in (-Ticks)..(2 * Ticks - 1)
  BY TimeAssumption DEF WdtTyped
<1>3. (expire_tick - now) % Ticks = Wrap(expire_tick - now)
  BY <1>2, Wraps
<1>4. Wrap(expire_tick - now) \in {Timeout - Elapsed, Timeout - Elapsed + Ticks}
  BY <1>1, ElapsedForm, HalfRange, TimeAssumption DEF InRange, WdtTyped, Wrap
<1>5. Wrap(expire_tick - now) \in 0..(Ticks - 1)
  BY TimeAssumption DEF WdtTyped, Wrap
<1>6. Signed(Wrap(expire_tick - now)) = Timeout - Elapsed
  BY <1>1, <1>4, <1>5, HalfRange, TimeAssumption DEF InRange, Signed
<1> QED
  BY <1>1, <1>3, <1>6, TimeAssumption DEF Expired

(* Before task_wdt_start nothing is watched. *)
LEMMA WdtInvInit == ASSUME InRange, WdtInit PROVE WdtInv
<1>1. now \in 0..(Ticks - 1) /\ expire_tick \in 0..(Ticks - 1) /\ waited \in 0..Poll
  BY TimeAssumption DEF WdtInit
<1>2. started \in BOOLEAN /\ (started <=> thread # "off")
  BY DEF WdtInit
<1>3. WdtTyped
  BY <1>1, <1>2 DEF WdtInit, WdtTyped
<1> QED
  BY <1>3 DEF WdtInit, WdtInv, Polled, Ages, Watching

(* While the thread watches, no window is older than Latest. *)
LEMMA NotLate ==
  ASSUME InRange, WdtTyped, Polled, Watching
  PROVE  Elapsed <= Latest
<1>1. CASE thread = "check"
  BY <1>1 DEF Polled
<1>2. CASE thread = "wait" /\ sem = 0
  <2>1. PICK k \in Nat : k * Poll < Timeout - Slack /\ Elapsed = k * Poll + waited
    BY <1>2 DEF Polled
  <2>2. k * Poll \in Nat /\ k * Poll + Poll <= Latest
    BY <2>1, PollsInWindow, TimeAssumption
  <2> QED
    BY <2>1, <2>2, PollsInWindow, TimeAssumption DEF WdtTyped
<1>3. CASE sem = 1
  BY <1>3, PollsInWindow DEF Polled
<1> QED
  BY <1>1, <1>2, <1>3 DEF Watching, WdtTyped

(* task_wdt_check_feed, called by a task that has reset, or has gone. *)
LEMMA FeedStep ==
  ASSUME InRange, WdtInv, NEW t \in Watched, NEW e \in {"none", "reset"},
         task_wdt_check_feed([entries EXCEPT ![t] = e]),
         silent' = [silent EXCEPT ![t] = 0],
         UNCHANGED <<started, now, thread, waited>>
  PROVE  WdtInv'
<1> DEFINE es == [entries EXCEPT ![t] = e]
<1>1. /\ es \in [Watched -> {"none", "due", "reset"}]
      /\ silent' \in [Watched -> Nat]
      /\ \A u \in Watched : u # t => es[u] = entries[u] /\ silent'[u] = silent[u]
      /\ es[t] = e /\ silent'[t] = 0
  BY DEF WdtInv, WdtTyped
<1>2. CASE all_reset(es)
  <2>1. /\ entries' = task_wdt_timer_feed(es)
        /\ expire_tick' = task_wdt_expire_update
        /\ sem' = IF started THEN 1 ELSE sem
    BY <1>2 DEF task_wdt_check_feed
  <2>2. /\ entries' \in [Watched -> {"none", "due", "reset"}]
        /\ \A u \in Watched : entries'[u] = IF es[u] = "none" THEN "none" ELSE "due"
        /\ \A u \in Watched : es[u] # "due"
    BY <1>1, <1>2, <2>1 DEF task_wdt_timer_feed, all_reset
  <2>3. expire_tick' \in 0..(Ticks - 1)
    BY <2>1, TimeAssumption
    DEF WdtInv, WdtTyped, task_wdt_expire_update, expire_dur_tick
  <2>4. WdtTyped'
    <3>1. sem' \in 0..1
      BY <2>1 DEF WdtInv, WdtTyped
    <3> QED
      BY <1>1, <2>2, <2>3, <3>1 DEF WdtInv, WdtTyped
  <2>5. ASSUME Watching PROVE Elapsed' = 0 /\ sem' = 1
    BY <2>1, <2>5, NewWindow
    DEF WdtInv, WdtTyped, Watching, task_wdt_expire_update, expire_dur_tick
  <2>6. Polled'
    <3>1. 0 = 0 * Poll
      BY TimeAssumption
    <3> QED
      BY <2>5, <3>1, PollsInWindow DEF Polled, Watching
  <2>7. Ages'
    <3>1. ASSUME thread = "off", NEW u \in Watched PROVE silent'[u] = 0
      BY <1>1, <3>1 DEF WdtInv, Ages
    <3>2. ASSUME Watching, NEW u \in Watched
          PROVE  /\ entries'[u] = "none" => silent'[u] = 0
                 /\ silent'[u] \in Nat /\ silent'[u] <= Latest
                 /\ entries'[u] \in {"none", "due"}
      <4>1. Elapsed <= Latest /\ Elapsed \in Nat /\ Latest \in Nat
        BY <3>2, NotLate, ElapsedForm, PollsInWindow, TimeAssumption DEF WdtInv
      <4>2. CASE u = t
        BY <1>1, <2>2, <4>1, <4>2
      <4>3. CASE u # t
        BY <1>1, <2>2, <3>2, <4>1, <4>3 DEF WdtInv, Ages, WdtTyped
      <4> QED
        BY <4>2, <4>3
    <3>3. (thread = "off")' = (thread = "off") /\ Watching' = Watching
      BY DEF Watching
    <3> QED
      BY <2>5, <3>1, <3>2, <3>3, PollsInWindow DEF Ages
  <2> QED
    BY <2>4, <2>6, <2>7 DEF WdtInv
<1>3. CASE ~all_reset(es)
  <2>1. entries' = es /\ UNCHANGED <<expire_tick, sem>>
    BY <1>3 DEF task_wdt_check_feed
  <2>2. WdtTyped'
    BY <1>1, <2>1 DEF WdtInv, WdtTyped
  <2>3. Elapsed' = Elapsed /\ Elapsed \in Nat
    BY <2>1, ElapsedForm, TimeAssumption DEF WdtInv, Elapsed
  <2>4. Polled'
    BY <2>1, <2>3 DEF WdtInv, Polled, Watching
  <2>5. Ages'
    BY <1>1, <2>1, <2>3 DEF WdtInv, Ages, Watching
  <2> QED
    BY <2>2, <2>4, <2>5 DEF WdtInv
<1> QED
  BY <1>2, <1>3

(* Every step keeps the invariant of the watchdog. *)
LEMMA WdtInvStep ==
  ASSUME InRange, WdtInv, [WdtNext]_wdt
  PROVE  WdtInv'
<1>e. Elapsed \in Nat /\ Latest \in Nat /\ 0 = 0 * Poll
  BY ElapsedForm, PollsInWindow, TimeAssumption DEF WdtInv
<1>1. ASSUME wise_task_wdt_init PROVE WdtInv'
  <2>1. expire_tick' \in 0..(Ticks - 1) /\ Elapsed' = 0
    BY <1>1, NewWindow DEF wise_task_wdt_init, WdtInv
  <2>2. WdtTyped'
    BY <1>1, <2>1 DEF wise_task_wdt_init, WdtInv, WdtTyped
  <2>3. thread = "off"
    BY <1>1 DEF wise_task_wdt_init, WdtInv, WdtTyped
  <2>4. Polled'
    BY <1>1, <1>e, <2>1 DEF wise_task_wdt_init, Polled, Watching
  <2>5. Ages'
    BY <1>1, <1>e, <2>1, <2>3 DEF wise_task_wdt_init, WdtInv, Ages, Watching
  <2> QED
    BY <2>2, <2>4, <2>5 DEF WdtInv
<1>2. ASSUME NEW t \in Watched, wise_task_wdt_add(t) PROVE WdtInv'
  BY <1>2, FeedStep DEF wise_task_wdt_add
<1>3. ASSUME NEW t \in Watched, wise_task_wdt_delete(t) PROVE WdtInv'
  BY <1>3, FeedStep DEF wise_task_wdt_delete
<1>4. ASSUME NEW t \in Watched, wise_task_wdt_reset(t) PROVE WdtInv'
  BY <1>4, FeedStep DEF wise_task_wdt_reset
<1>5. ASSUME task_wdt_end PROVE WdtInv'
  <2>1. started /\ expire_tick' = (now + (Timeout % Ticks)) % Ticks /\ now' = now
    BY <1>5 DEF task_wdt_end, WdtInv, WdtTyped, task_wdt_expire_update, expire_dur_tick
  <2>2. expire_tick' \in 0..(Ticks - 1) /\ Elapsed' = 0
    BY <2>1, NewWindow DEF WdtInv
  <2>3. /\ entries' \in [Watched -> {"none", "due", "reset"}]
        /\ \A u \in Watched : entries[u] # "due"
        /\ \A u \in Watched : entries'[u] = IF entries[u] = "none" THEN "none" ELSE "due"
    BY <1>5 DEF task_wdt_end, WdtInv, WdtTyped, task_wdt_timer_feed, all_reset
  <2>4. WdtTyped'
    BY <1>5, <2>2, <2>3, TimeAssumption DEF task_wdt_end, WdtInv, WdtTyped
  <2>5. Polled'
    <3>1. 0 * Poll < Timeout - Slack
      BY <1>e, TimeAssumption DEF InRange
    <3> QED
      BY <1>5, <1>e, <2>2, <3>1 DEF task_wdt_end, Polled, Watching
  <2>6. Ages'
    <3>1. Elapsed <= Latest /\ Watching
      BY <1>5, NotLate DEF task_wdt_end, WdtInv, Watching
    <3>2. \A u \in Watched : /\ entries'[u] \in {"none", "due"}
                             /\ silent'[u] = silent[u]
                             /\ entries'[u] = "none" => silent[u] = 0
                             /\ silent[u] \in Nat /\ silent[u] <= Latest
      BY <1>5, <1>e, <2>3, <3>1 DEF task_wdt_end, WdtInv, WdtTyped, Ages
    <3> QED
      BY <1>5, <1>e, <2>2, <3>2 DEF task_wdt_end, Ages, Watching
  <2> QED
    BY <2>4, <2>5, <2>6 DEF WdtInv
<1>6. ASSUME task_wdt_alarm PROVE WdtInv'
  <2>1. expire_tick' \in 0..(Ticks - 1)
    BY <1>6, TimeAssumption
    DEF task_wdt_alarm, WdtInv, WdtTyped, task_wdt_expire_update, expire_dur_tick
  <2>2. WdtTyped'
    BY <1>6, <2>1 DEF task_wdt_alarm, WdtInv, WdtTyped
  <2> QED
    BY <1>6, <2>2 DEF task_wdt_alarm, WdtInv, Polled, Ages, Watching
<1>7. ASSUME task_wdt_early PROVE WdtInv'
  <2>1. WdtTyped'
    BY <1>7, TimeAssumption DEF task_wdt_early, WdtInv, WdtTyped
  <2>2. Elapsed' = Elapsed
    BY <1>7 DEF task_wdt_early, Elapsed
  <2>3. Elapsed < Timeout - Slack
    BY <1>7, <1>e, ExpiredExact, NotLate, TimeAssumption
    DEF task_wdt_early, WdtInv, Watching
  <2>4. PICK k \in Nat : Elapsed = k * Poll
    BY <1>7 DEF task_wdt_early, WdtInv, Polled
  <2>5. Polled'
    BY <1>7, <1>e, <2>2, <2>3, <2>4 DEF task_wdt_early, WdtInv, Polled, Watching
  <2>6. Ages'
    BY <1>7, <2>2 DEF task_wdt_early, WdtInv, Ages, Watching
  <2> QED
    BY <2>1, <2>5, <2>6 DEF WdtInv
<1>8. ASSUME task_wdt_wake PROVE WdtInv'
  <2>1. WdtTyped'
    BY <1>8 DEF task_wdt_wake, WdtInv, WdtTyped
  <2>2. Elapsed' = Elapsed
    BY <1>8 DEF task_wdt_wake, Elapsed
  <2>3. Elapsed <= Latest
    BY <1>8, NotLate DEF task_wdt_wake, WdtInv, Watching
  <2>4. \E k \in Nat : Elapsed = k * Poll
    <3>1. CASE sem = 1
      BY <1>8, <1>e, <3>1 DEF task_wdt_wake, WdtInv, Polled, Watching
    <3>2. CASE sem = 0
      <4>1. PICK k \in Nat : Elapsed = k * Poll + Poll
        BY <1>8, <3>2 DEF task_wdt_wake, WdtInv, Polled
      <4>2. k * Poll + Poll = (k + 1) * Poll /\ k + 1 \in Nat
        BY TimeAssumption
      <4> QED
        BY <4>1, <4>2
    <3> QED
      BY <3>1, <3>2 DEF WdtInv, WdtTyped
  <2>5. Polled'
    BY <1>8, <2>2, <2>3, <2>4 DEF task_wdt_wake, Polled, Watching
  <2>6. Ages'
    BY <1>8, <2>2 DEF task_wdt_wake, WdtInv, Ages, Watching
  <2> QED
    BY <2>1, <2>5, <2>6 DEF WdtInv
<1>9. ASSUME Tick PROVE WdtInv'
  <2>1. CASE thread = "off"
    <3>1. now' \in 0..(Ticks - 1)
      BY <1>9, TimeAssumption DEF Tick, WdtInv, WdtTyped
    <3>2. WdtTyped' /\ \A u \in Watched : silent'[u] = 0
      BY <1>9, <2>1, <3>1 DEF Tick, WdtInv, WdtTyped
    <3> QED
      BY <1>9, <2>1, <3>2 DEF Tick, WdtInv, Polled, Ages, Watching
  <2>2. CASE thread = "wait" /\ sem = 0 /\ waited < Poll
    <3>1. PICK k \in Nat : k * Poll < Timeout - Slack /\ Elapsed = k * Poll + waited
      BY <2>2 DEF WdtInv, Polled
    <3>2. k * Poll \in Nat /\ Elapsed < Latest
      BY <2>2, <3>1, <1>e, PollsInWindow, TimeAssumption DEF WdtInv, WdtTyped
    <3>3. now' \in 0..(Ticks - 1) /\ Elapsed' = Elapsed + 1
      BY <1>9, <3>2, WindowGrows DEF Tick, WdtInv
    <3>4. started /\ waited' = waited + 1 /\ thread' = "wait"
      BY <1>9, <2>2 DEF Tick, WdtInv, WdtTyped
    <3>5. /\ silent' \in [Watched -> Nat]
          /\ \A u \in Watched :
               silent'[u] = IF entries[u] # "none" THEN silent[u] + 1 ELSE 0
      BY <1>9, <3>4 DEF Tick, WdtInv, WdtTyped
    <3>6. WdtTyped'
      BY <1>9, <2>2, <3>3, <3>4, <3>5, TimeAssumption DEF Tick, WdtInv, WdtTyped
    <3>7. Polled'
      <4>1. Elapsed' = k * Poll + waited'
        BY <3>1, <3>2, <3>3, <3>4 DEF WdtInv, WdtTyped
      <4> QED
        BY <1>9, <2>2, <3>1, <3>4, <4>1 DEF Tick, Polled, Watching
    <3>8. Ages'
      BY <1>9, <1>e, <2>2, <3>3, <3>4, <3>5 DEF Tick, WdtInv, WdtTyped, Ages, Watching
    <3> QED
      BY <3>6, <3>7, <3>8 DEF WdtInv
  <2> QED
    BY <1>9, <2>1, <2>2 DEF Tick
<1>10. CASE UNCHANGED wdt
  BY <1>10 DEF wdt, WdtInv, WdtTyped, Polled, Ages, Watching, Elapsed
<1> QED
  BY <1>1, <1>2, <1>3, <1>4, <1>5, <1>6, <1>7, <1>8, <1>9, <1>10 DEF WdtNext

(* The inductive invariant of the task watchdog of wise_task_wdt.c. *)
THEOREM WdtInvariant ==
  ASSUME InRange
  PROVE  WdtSpec => []WdtInv
<1>1. WdtInit => WdtInv
  BY WdtInvInit
<1>2. WdtInv /\ [WdtNext]_wdt => WdtInv'
  BY WdtInvStep
<1> QED
  BY <1>1, <1>2, PTL DEF WdtSpec

(* HungTaskFound for every number of tasks and all timeouts in the range:  *)
(* with any interleaving of wise_task_wdt_add, _reset and _delete, a task  *)
(* that stops resetting is found before its second window has been polled  *)
(* to the end.                                                             *)
THEOREM HangsFound ==
  ASSUME InRange
  PROVE  WdtSpec => []HungTaskFound
<1>1. WdtInv => HungTaskFound
  <2> SUFFICES ASSUME WdtInv, thread # "alarm", NEW t \in Watched
               PROVE  silent[t] <= 2 * Latest
    BY PollsInWindow DEF HungTaskFound
  <2>1. Latest \in Nat /\ Elapsed \in Nat /\ silent[t] \in Nat
    BY PollsInWindow, ElapsedForm, TimeAssumption DEF WdtInv, WdtTyped
  <2>2. CASE thread = "off"
    BY <2>1, <2>2 DEF WdtInv, Ages
  <2>3. CASE Watching
    BY <2>1, <2>3, NotLate DEF WdtInv, WdtTyped, Ages
  <2> QED
    BY <2>2, <2>3 DEF WdtInv, WdtTyped, Watching
<1> QED
  BY <1>1, WdtInvariant, PTL

(* AlarmJustified for every number of tasks and all timeouts in the range: *)
(* task_wdt reports only when some subscribed task has not reset for the   *)
(* timeout, less the slack, wherever the clock wraps.                      *)
THEOREM AlarmsJustified ==
  ASSUME InRange
  PROVE  WdtSpec => AlarmJustified
<1> DEFINE Justified == (thread # "alarm" /\ thread' = "alarm") =>
             \E t \in Watched : entries[t] = "due" /\ silent[t] >= Timeout - Slack
<1>1. WdtInv /\ [WdtNext]_wdt => [Justified]_wdt
  <2> SUFFICES ASSUME WdtInv, WdtNext, thread # "alarm", thread' = "alarm"
               PROVE  \E t \in Watched : entries[t] = "due" /\ silent[t] >= Timeout - Slack
    OBVIOUS
  <2>1. task_wdt_alarm
    BY DEF WdtNext, wise_task_wdt_init, wise_task_wdt_add, wise_task_wdt_reset,
           wise_task_wdt_delete, task_wdt_end, task_wdt_early, task_wdt_wake, Tick
  <2>2. Elapsed >= Timeout - Slack
    BY <2>1, ExpiredExact, NotLate DEF task_wdt_alarm, WdtInv, Watching
  <2>3. PICK t \in Watched : entries[t] = "due"
    BY <2>1 DEF task_wdt_alarm, all_reset
  <2>4. Elapsed <= silent[t] /\ silent[t] \in Nat /\ Elapsed \in Nat
    BY <2>1, <2>3, ElapsedForm, TimeAssumption
    DEF task_wdt_alarm, WdtInv, WdtTyped, Ages, Watching
  <2> QED
    BY <2>2, <2>3, <2>4, TimeAssumption
<1> QED
  BY <1>1, WdtInvariant, PTL DEF WdtSpec, AlarmJustified

=============================================================================
