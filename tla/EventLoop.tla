----------------------------- MODULE EventLoop -----------------------------
(***************************************************************************)
(* The event loop, api/wise/event_loop.c: a queue of Wi-Fi and network     *)
(* events, a thread that passes them to the callback the application has   *)
(* registered, and the calls that set the loop up and tear it down while   *)
(* the other tasks send.                                                   *)
(*                                                                         *)
(* A call can be interrupted between any two accesses to the variables of  *)
(* the loop.  Of the events one is followed, "mark"; the others are alike. *)
(***************************************************************************)
EXTENDS Naturals, Sequences

CONSTANTS Tasks, Handles, NULL,
          QueueLen,    \* 16 in the code
          Uses         \* the ways the loop is used, see below

(***************************************************************************)
(*   "early"     events are sent before wise_event_loop_init has returned; *)
(*   "teardown"  wise_event_loop_deinit is called while others send;       *)
(*   "race"      two tasks call init or deinit at the same time;           *)
(*   "nomem"     a queue or a thread may not be created;                   *)
(*   "self"      the callback calls wise_event_loop_deinit.                *)
(* A behaviour has one use, chosen at its start.                           *)
(***************************************************************************)
Oddities == {"early", "teardown", "race", "nomem", "self"}

Events == {"plain", "mark"}

ASSUME LoopAssumption ==
  /\ Handles # {}
  /\ NULL \notin Handles \cup Seq(Events) \cup {"test", "get", "user"}
  /\ QueueLen \in Nat \ {0}
  /\ Uses \subseteq SUBSET Oddities

VARIABLES
  use,
  s_event_init_flag, s_event_queue, s_event_thread,
  s_event_handler_cb,    \* whether a callback is registered, FALSE for NULL
  queues,                \* the contents of every queue that exists, else NULL
  threads,               \* where every thread that exists is, else NULL
  evt,                   \* the event a thread works on
  pc, h, cb,             \* where each task is, the queue it has read and
                         \* whether the callback it passes to init is not NULL
  asked,                 \* the application's last word: it wants the events
  mark,                  \* the marked event: no, in (accepted), lost (it was
                         \* asked for, and no callback was called)
  stale                  \* a queue or thread was used that did not exist; the
                         \* model then goes on as if the call had failed

globals == <<s_event_init_flag, s_event_queue, s_event_thread, s_event_handler_cb>>
objects == <<queues, threads, evt>>
locals == <<h, cb>>
ghosts == <<asked, mark, stale>>
vars == <<use, globals, objects, pc, locals, ghosts>>

Init ==
  /\ use \in Uses
  /\ s_event_init_flag = FALSE
  /\ s_event_queue = NULL
  /\ s_event_thread = NULL
  /\ s_event_handler_cb = FALSE
  /\ queues = [q \in Handles |-> NULL]
  /\ threads = [i \in Handles |-> NULL]
  /\ evt = [i \in Handles |-> "plain"]
  /\ pc = [t \in Tasks |-> "idle"]
  /\ h = [t \in Tasks |-> NULL]
  /\ cb = [t \in Tasks |-> FALSE]
  /\ asked = FALSE
  /\ mark = "no"
  /\ stale = FALSE

Goto(t, l) == pc' = [pc EXCEPT ![t] = l]

InInit(t) == pc[t] \in {"flag", "queue", "thread", "cb"}
InDeinit(t) == pc[t] \in {"terminate", "delete", "clear", "clear_cb", "clear_flag"}

(* A task may begin to set up or tear down. *)
MayControl(t) ==
  /\ pc[t] = "idle"
  /\ "race" \in use \/ \A s \in Tasks : ~InInit(s) /\ ~InDeinit(s)

-----------------------------------------------------------------------------
(* wise_event_loop_init *)

(* The test of the flag; WISE_FAIL leaves everything as it is.  The        *)
(* callback that is passed may be NULL.                                    *)
init_test(t) ==
  /\ MayControl(t)
  /\ ~s_event_init_flag
  /\ \E c \in BOOLEAN : cb' = [cb EXCEPT ![t] = c] /\ asked' = c
  /\ Goto(t, "flag")
  /\ UNCHANGED <<use, globals, objects, h, mark, stale>>

init_flag(t) ==
  /\ pc[t] = "flag"
  /\ s_event_init_flag' = TRUE
  /\ Goto(t, "queue")
  /\ UNCHANGED <<use, s_event_queue, s_event_thread, s_event_handler_cb, objects, locals, ghosts>>

init_queue(t) ==
  /\ pc[t] = "queue"
  /\ \E q \in Handles :
       /\ queues[q] = NULL
       /\ queues' = [queues EXCEPT ![q] = <<>>]
       /\ s_event_queue' = q
  /\ Goto(t, "thread")
  /\ UNCHANGED <<use, s_event_init_flag, s_event_thread, s_event_handler_cb,
                 threads, evt, locals, ghosts>>

(* osMessageQueueNew fails: WISE_ERR_NO_MEM, and the flag stays. *)
init_queue_fails(t) ==
  /\ pc[t] = "queue"
  /\ "nomem" \in use \/ \A q \in Handles : queues[q] # NULL
  /\ s_event_queue' = NULL
  /\ cb' = [cb EXCEPT ![t] = FALSE]
  /\ Goto(t, "idle")
  /\ UNCHANGED <<use, s_event_init_flag, s_event_thread, s_event_handler_cb,
                 objects, h, ghosts>>

init_thread(t) ==
  /\ pc[t] = "thread"
  /\ \E i \in Handles :
       /\ threads[i] = NULL
       /\ threads' = [threads EXCEPT ![i] = "test"]
       /\ s_event_thread' = i
  /\ Goto(t, "cb")
  /\ UNCHANGED <<use, s_event_init_flag, s_event_queue, s_event_handler_cb,
                 queues, evt, locals, ghosts>>

(* osThreadNew fails. *)
init_thread_fails(t) ==
  /\ pc[t] = "thread"
  /\ "nomem" \in use \/ \A i \in Handles : threads[i] # NULL
  /\ s_event_thread' = NULL
  /\ cb' = [cb EXCEPT ![t] = FALSE]
  /\ Goto(t, "idle")
  /\ UNCHANGED <<use, s_event_init_flag, s_event_queue, s_event_handler_cb,
                 objects, h, ghosts>>

(* The callback, last; the thread may already run. *)
init_cb(t) ==
  /\ pc[t] = "cb"
  /\ s_event_handler_cb' = cb[t]
  /\ cb' = [cb EXCEPT ![t] = FALSE]
  /\ Goto(t, "idle")
  /\ UNCHANGED <<use, s_event_init_flag, s_event_queue, s_event_thread, objects, h, ghosts>>

(* wise_event_loop_set_cb with another callback, or with NULL: the         *)
(* application does not want the events.                                   *)
wise_event_loop_set_cb(t) ==
  /\ MayControl(t)
  /\ \E c \in BOOLEAN : s_event_handler_cb' = c /\ asked' = c
  /\ UNCHANGED <<use, s_event_init_flag, s_event_queue, s_event_thread, objects, pc,
                 locals, mark, stale>>

-----------------------------------------------------------------------------
(* wise_event_loop_deinit *)

deinit_test(t) ==
  /\ MayControl(t)
  /\ "teardown" \in use \/ \A s \in Tasks : pc[s] # "put"
  /\ s_event_init_flag
  /\ Goto(t, "terminate")
  /\ UNCHANGED <<use, globals, objects, locals, ghosts>>

(* osThreadTerminate, if there is a handle: with it goes the event that    *)
(* the thread worked on.                                                   *)
deinit_terminate(t) ==
  LET i == s_event_thread
      known == i # NULL
      lives == known /\ threads[i] # NULL
  IN  /\ pc[t] = "terminate"
      /\ stale' = (stale \/ (known /\ ~lives))
      /\ threads' = IF lives THEN [threads EXCEPT ![i] = NULL] ELSE threads
      /\ evt' = IF lives THEN [evt EXCEPT ![i] = "plain"] ELSE evt
      /\ mark' = IF lives /\ evt[i] = "mark" THEN "no" ELSE mark
      /\ Goto(t, "delete")
      /\ UNCHANGED <<use, globals, queues, locals, asked>>

(* Mutant: the queue is not deleted. *)
deinit_delete_Missing(t) ==
  /\ pc[t] = "delete"
  /\ Goto(t, "clear")
  /\ UNCHANGED <<use, globals, objects, locals, ghosts>>

(* osMessageQueueDelete, if there is a handle. *)
deinit_delete(t) ==
  LET q == s_event_queue
      known == q # NULL
      lives == known /\ queues[q] # NULL
  IN  /\ pc[t] = "delete"
      /\ stale' = (stale \/ (known /\ ~lives))
      /\ queues' = IF lives THEN [queues EXCEPT ![q] = NULL] ELSE queues
      /\ mark' = IF lives /\ \E n \in DOMAIN queues[q] : queues[q][n] = "mark"
                   THEN "no" ELSE mark
      /\ Goto(t, "clear")
      /\ UNCHANGED <<use, globals, threads, evt, locals, asked>>

(* Mutant: the handle of the queue is kept. *)
deinit_clear_KeepsQueue(t) ==
  /\ pc[t] = "clear"
  /\ Goto(t, "clear_cb")
  /\ UNCHANGED <<use, globals, objects, locals, ghosts>>

(* The variables are cleared one by one, but not the thread's handle. *)
deinit_clear(t) ==
  /\ pc[t] = "clear"
  /\ s_event_queue' = NULL
  /\ Goto(t, "clear_cb")
  /\ UNCHANGED <<use, s_event_init_flag, s_event_thread, s_event_handler_cb,
                 objects, locals, ghosts>>

deinit_clear_cb(t) ==
  /\ pc[t] = "clear_cb"
  /\ s_event_handler_cb' = FALSE
  /\ asked' = FALSE
  /\ Goto(t, "clear_flag")
  /\ UNCHANGED <<use, s_event_init_flag, s_event_queue, s_event_thread, objects,
                 locals, mark, stale>>

deinit_clear_flag(t) ==
  /\ pc[t] = "clear_flag"
  /\ s_event_init_flag' = FALSE
  /\ Goto(t, "idle")
  /\ UNCHANGED <<use, s_event_queue, s_event_thread, s_event_handler_cb, objects,
                 locals, ghosts>>

-----------------------------------------------------------------------------
(* wise_event_send *)

(* The test for NULL, and the handle that goes to osMessageQueuePut. *)
send_test(t) ==
  /\ pc[t] = "idle"
  /\ "early" \in use \/ \A s \in Tasks : ~InInit(s)
  /\ "teardown" \in use \/ \A s \in Tasks : ~InDeinit(s)
  /\ s_event_queue # NULL
  /\ h' = [h EXCEPT ![t] = s_event_queue]
  /\ Goto(t, "put")
  /\ UNCHANGED <<use, globals, objects, cb, ghosts>>

(* osMessageQueuePut without a wait: WISE_FAIL when the queue is full. *)
send_put(t) ==
  LET q == h[t]
  IN  /\ pc[t] = "put"
      /\ queues[q] # NULL
      /\ \E e \in IF mark = "no" THEN {"plain", "mark"} ELSE {"plain"} :
           IF Len(queues[q]) < QueueLen
             THEN /\ queues' = [queues EXCEPT ![q] = Append(@, e)]
                  /\ mark' = IF e = "mark" THEN "in" ELSE mark
             ELSE UNCHANGED <<queues, mark>>
      /\ h' = [h EXCEPT ![t] = NULL]
      /\ Goto(t, "idle")
      /\ UNCHANGED <<use, globals, threads, evt, cb, asked, stale>>

send_stale(t) ==
  /\ pc[t] = "put"
  /\ queues[h[t]] = NULL
  /\ stale' = TRUE
  /\ h' = [h EXCEPT ![t] = NULL]
  /\ Goto(t, "idle")
  /\ UNCHANGED <<use, globals, objects, cb, asked, mark>>

-----------------------------------------------------------------------------
(* wise_event_loop_task *)

(* The test of the flag; a thread that ends is deleted. *)
loop_test(i) ==
  /\ threads[i] = "test"
  /\ threads' = [threads EXCEPT ![i] = IF s_event_init_flag THEN "get" ELSE NULL]
  /\ UNCHANGED <<use, globals, queues, evt, pc, locals, ghosts>>

(* osMessageQueueGet waits for an event (an error is retried at once). *)
loop_get(i) ==
  LET q == s_event_queue
  IN  /\ threads[i] = "get"
      /\ q # NULL /\ queues[q] # NULL
      /\ queues[q] # <<>>
      /\ evt' = [evt EXCEPT ![i] = Head(queues[q])]
      /\ queues' = [queues EXCEPT ![q] = Tail(@)]
      /\ threads' = [threads EXCEPT ![i] = "user"]
      /\ UNCHANGED <<use, globals, pc, locals, ghosts>>

(* Mutant: the thread ends after an event. *)
loop_user_Ends(i) ==
  /\ threads[i] = "user"
  /\ mark' = IF evt[i] = "mark"
               THEN (IF asked /\ ~s_event_handler_cb THEN "lost" ELSE "no") ELSE mark
  /\ evt' = [evt EXCEPT ![i] = "plain"]
  /\ threads' = [threads EXCEPT ![i] = NULL]
  /\ UNCHANGED <<use, globals, queues, pc, locals, asked, stale>>

(* The default handling, then the callback, if there is one. *)
loop_user(i) ==
  /\ threads[i] = "user"
  /\ mark' = IF evt[i] = "mark"
               THEN (IF asked /\ ~s_event_handler_cb THEN "lost" ELSE "no") ELSE mark
  /\ evt' = [evt EXCEPT ![i] = "plain"]
  /\ threads' = [threads EXCEPT ![i] = "test"]
  /\ UNCHANGED <<use, globals, queues, pc, locals, asked, stale>>

(* A callback calls deinit: the thread terminates itself, and what comes   *)
(* after osThreadTerminate is not done.                                    *)
loop_user_deinit(i) ==
  /\ "self" \in use
  /\ threads[i] = "user"
  /\ s_event_handler_cb /\ s_event_init_flag
  /\ s_event_thread = i
  /\ mark' = IF evt[i] = "mark" THEN "no" ELSE mark
  /\ evt' = [evt EXCEPT ![i] = "plain"]
  /\ threads' = [threads EXCEPT ![i] = NULL]
  /\ UNCHANGED <<use, globals, queues, pc, locals, asked, stale>>

call(t) ==
  \/ init_flag(t) \/ init_queue(t) \/ init_queue_fails(t)
  \/ init_thread(t) \/ init_thread_fails(t) \/ init_cb(t)
  \/ deinit_terminate(t) \/ deinit_delete(t)
  \/ deinit_clear(t) \/ deinit_clear_cb(t) \/ deinit_clear_flag(t)
  \/ send_put(t) \/ send_stale(t)

loop(i) == loop_test(i) \/ loop_get(i) \/ loop_user(i) \/ loop_user_deinit(i)

Next ==
  \/ \E t \in Tasks :
       \/ init_test(t) \/ wise_event_loop_set_cb(t) \/ deinit_test(t)
       \/ send_test(t) \/ call(t)
  \/ \E i \in Handles : loop(i)

Spec == Init /\ [][Next]_vars

(* The tasks finish their calls and the threads of the loop run. *)
Fairness ==
  /\ \A t \in Tasks : WF_vars(call(t))
  /\ \A i \in Handles : WF_vars(loop(i))

FairSpec == Spec /\ Fairness

-----------------------------------------------------------------------------
(* Properties *)

Only(odd) == use \subseteq odd

(* No queue and no thread is used that was deleted or never created, over  *)
(* any number of set-ups and tear-downs.                                   *)
NoStaleHandle == Only({"early"}) => ~stale

(* Between calls of init and deinit the loop is there with all its parts,  *)
(* or not at all: with the flag set, which refuses another init, there is  *)
(* one queue and one thread, those the handles name; with the flag clear   *)
(* no queue and no thread is left behind, however often the loop was set   *)
(* up and torn down.                                                       *)
AllOrNothing ==
  (Only({"early", "teardown"}) /\ \A t \in Tasks : ~InInit(t) /\ ~InDeinit(t)) =>
    /\ {q \in Handles : queues[q] # NULL} =
         IF s_event_init_flag THEN {s_event_queue} ELSE {}
    /\ {i \in Handles : threads[i] # NULL} =
         IF s_event_init_flag THEN {s_event_thread} ELSE {}

(* An event that wise_event_send has accepted is taken from the queue and  *)
(* passed to the callback, unless the loop is torn down first; it is       *)
(* dropped only when the application's last word was the NULL callback.    *)
Delivered == (Only({}) /\ mark = "in") ~> mark = "no"
=============================================================================
