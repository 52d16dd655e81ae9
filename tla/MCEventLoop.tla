---------------------------- MODULE MCEventLoop ----------------------------
(* Three tasks, a queue of two events. *)
EXTENDS EventLoop

(* The largest uses that the properties are about, and two with failures.  *)
AllUses == {{}, {"early"}, {"early", "teardown"}, {"nomem"}, {"self"}}
=============================================================================
