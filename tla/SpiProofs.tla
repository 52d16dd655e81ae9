----------------------------- MODULE SpiProofs -----------------------------
(***************************************************************************)
(* Safety of the SPI driver, for every number of tasks and of channels.    *)
(***************************************************************************)
EXTENDS Spi, FiniteSetTheorems, TLAPS

Typed ==
  /\ use \in Uses
  /\ role \in {"master", "slave"}
  /\ dev_busy \in BOOLEAN
  /\ dma_ch \in [Dirs -> Chans \cup {NoChan}]
  /\ held \subseteq Chans
  /\ lens \subseteq Dirs
  /\ ready \subseteq Dirs
  /\ master_requested \in BOOLEAN
  /\ bus \in {"off", "run", "end", "bad"}
  /\ armed \in BOOLEAN
  /\ slv_err \in BOOLEAN
  /\ sync \in BOOLEAN /\ sem \in {0, 1}
  /\ owner \in Tasks \cup {App, NoTask}
  /\ due \in BOOLEAN
  /\ pc \in [Tasks -> {"idle", "ioctl", "start", "dma", "busy", "trigger", "wait", "timeout",
                       "ok"}]
  /\ req \in [Tasks -> Requests]

(* Without racing tasks and eager masters: one call at a time, which finds *)
(* the driver free until it sets dev_busy and the controller at rest until *)
(* it starts it, and still asks for what data->sync says; and the          *)
(* controller only works for a driver that is busy.                        *)
OneCall ==
  /\ \A s, t \in Tasks : pc[s] # "idle" /\ pc[t] # "idle" => s = t
  /\ \A t \in Tasks : pc[t] \in {"start", "dma", "busy"} => ~dev_busy
  /\ \A t \in Tasks : pc[t] = "trigger" => dev_busy /\ bus = "off"
  /\ \A t \in Tasks : pc[t] \in {"dma", "busy", "trigger"} =>
       armed /\ lens = req[t].dirs
  /\ \A t \in Tasks : pc[t] \in {"ioctl", "start", "dma", "busy", "trigger"} =>
       req[t].sync = (role = "master" /\ sync)
  /\ bus # "off" => dev_busy

(* When nothing times out and no call is made during an asynchronous       *)
(* transfer: who waits for the transfer on the bus, and that a permit is   *)
(* only there for a call that waits for it.                                *)
Awaited ==
  /\ dev_busy => bus # "off" \/ \E t \in Tasks : pc[t] = "trigger"
  /\ bus = "off" <=> owner = NoTask
  /\ bus # "off" => (owner = App <=> ~(role = "master" /\ sync))
  /\ due <=> owner = App
  /\ owner \in Tasks => pc[owner] = "wait" /\ sem = 0
  /\ \A t \in Tasks : pc[t] = "wait" => sem = 1 \/ owner = t
  /\ sem = 1 => bus = "off" /\ \E t \in Tasks : pc[t] = "wait"
  /\ \A t \in Tasks : pc[t] # "timeout"

(* The channels are those of the transfer under way. *)
Taken ==
  /\ held = Channels
  /\ dma_ch["tx"] = dma_ch["rx"] => dma_ch["tx"] = NoChan
  /\ dma_ch["tx"] # NoChan <=> UnderWay /\ "tx" \in lens
  /\ dma_ch["rx"] # NoChan <=> UnderWay /\ "rx" \in lens

(* A slave with nothing prepared, and no call that prepares it. *)
Unprepared ==
  bus = "off" /\ \A t \in Tasks : pc[t] \notin {"dma", "busy", "trigger"}

SpiInv ==
  /\ Typed
  /\ ("race" \notin use /\ "eager" \notin use) => OneCall
  /\ Only({"short", "address", "cancel"}) => Awaited
  /\ Only({"overlap", "timeout", "cancel"}) => Taken
  /\ Only({}) => (Unprepared => ready = {})

-----------------------------------------------------------------------------
(* NoRequest is one of the requests. *)
LEMMA NoRequestOk == NoRequest \in Requests
  BY DEF NoRequest, Requests, Dirs

(* Every step keeps the types. *)
LEMMA TypedStep ==
  ASSUME Typed, [Next]_vars
  PROVE  Typed'
<1> USE SpiAssumption, NoRequestOk
<1>1. ASSUME NEW t \in Tasks, scm_spi_master_call(t) PROVE Typed'
  BY <1>1 DEF scm_spi_master_call, MayCall, driver, ctrl, api, Typed, Dirs, Requests
<1>2. ASSUME NEW t \in Tasks, scm_spi_slave_call(t) PROVE Typed'
  BY <1>2 DEF scm_spi_slave_call, MayCall, driver, ctrl, api, Typed, Dirs, Requests
<1>3. ASSUME NEW t \in Tasks, transfer_test(t) PROVE Typed'
  BY <1>3 DEF transfer_test, Fail, driver, ctrl, api, Typed, Dirs, Requests
<1>4. ASSUME NEW t \in Tasks, atcspi_check_slave_status(t) PROVE Typed'
  <2>1. pc' \in [Tasks -> {"idle", "ioctl", "start", "dma", "busy", "trigger", "wait",
                          "timeout", "ok"}] /\ req' \in [Tasks -> Requests]
    BY <1>4 DEF atcspi_check_slave_status, Fail, Typed
  <2> QED
    BY <1>4, <2>1 DEF atcspi_check_slave_status, atcspi_reset, driver, ctrl, api, Typed,
       Dirs
<1>5. ASSUME NEW t \in Tasks, trans_config(t) PROVE Typed'
  BY <1>5 DEF trans_config, driver, ctrl, api, Typed, Dirs, Requests
<1>17. ASSUME NEW t \in Tasks, transfer_dma(t) PROVE Typed'
  BY <1>17
  DEF transfer_dma, atcspi_dma_configure, driver, ctrl, api, Typed, Dirs, Requests,
      NoRequest
<1>6. ASSUME NEW t \in Tasks, transfer_dma_fails(t) PROVE Typed'
  BY <1>6
  DEF transfer_dma_fails, atcspi_dma_configure_fails, Fail, driver, ctrl, api, Typed,
      Dirs
<1>18. ASSUME NEW t \in Tasks, transfer_busy(t) PROVE Typed'
  BY <1>18 DEF transfer_busy, driver, ctrl, api, Typed, Dirs
<1>19. ASSUME NEW t \in Tasks, transfer_trigger(t) PROVE Typed'
  BY <1>19 DEF transfer_trigger, driver, ctrl, api, Typed, Dirs
<1>20. ASSUME eager_end PROVE Typed'
  BY <1>20 DEF eager_end, driver, ctrl, api, Typed, Dirs
<1>7. ASSUME NEW t \in Tasks, wait_ok(t) PROVE Typed'
  BY <1>7 DEF wait_ok, driver, ctrl, api, Typed, Dirs, Requests
<1>8. ASSUME NEW t \in Tasks, timeout_reset(t) PROVE Typed'
  BY <1>8 DEF timeout_reset, atcspi_reset, driver, ctrl, api, Typed, Dirs, Requests
<1>9. ASSUME NEW t \in Tasks, return_ok(t) PROVE Typed'
  BY <1>9 DEF return_ok, driver, ctrl, api, Typed, Dirs, Requests
<1>10. ASSUME NEW t \in Tasks, wait_timeout(t) PROVE Typed'
  BY <1>10 DEF wait_timeout, driver, ctrl, api, Typed, Dirs, Requests
<1>11. ASSUME NEW t \in Tasks, scm_spi_reset(t) PROVE Typed'
  BY <1>11
  DEF scm_spi_reset, atcspi_reset, MayCall, driver, ctrl, api, Typed, Dirs, Requests
<1>12. ASSUME NEW t \in Tasks, scm_spi_slave_cancel(t) PROVE Typed'
  BY <1>12
  DEF scm_spi_slave_cancel, atcspi_reset, driver, ctrl, api, Typed, Dirs, Requests
<1>13. ASSUME NEW d \in Dirs, slave_command(d) PROVE Typed'
  BY <1>13 DEF slave_command, driver, ctrl, api, Typed, Dirs, Requests
<1>14. ASSUME transfer_end PROVE Typed'
  BY <1>14 DEF transfer_end, driver, ctrl, api, Typed, Dirs, Requests
<1>15. ASSUME trans_end PROVE Typed'
  BY <1>15 DEF trans_end, spi_notify, driver, ctrl, api, Typed, Dirs, Requests
<1>16. CASE UNCHANGED vars
  BY <1>16 DEF vars, driver, ctrl, api, Typed, Dirs, Requests
<1> QED
  BY <1>1, <1>2, <1>3, <1>4, <1>5, <1>6, <1>7, <1>8, <1>9, <1>10, <1>11, <1>12, <1>13,
     <1>14, <1>15, <1>16, <1>17, <1>18, <1>19, <1>20
  DEF Next, call

(* Without racing tasks, every step keeps one call at a time. *)
LEMMA OneCallStep ==
  ASSUME Typed, OneCall, "race" \notin use, "eager" \notin use, [Next]_vars
  PROVE  OneCall'
<1> USE SpiAssumption
<1>1. ASSUME NEW t \in Tasks, scm_spi_master_call(t) PROVE OneCall'
  BY <1>1 DEF scm_spi_master_call, MayCall, driver, ctrl, api, Typed, OneCall, Requests
<1>2. ASSUME NEW t \in Tasks, scm_spi_slave_call(t) PROVE OneCall'
  BY <1>2 DEF scm_spi_slave_call, MayCall, driver, ctrl, api, Typed, OneCall, Requests
<1>3. ASSUME NEW t \in Tasks, transfer_test(t) PROVE OneCall'
  BY <1>3
  DEF transfer_test, Fail, driver, ctrl, api, Typed, OneCall, Requests
<1>4. ASSUME NEW t \in Tasks, atcspi_check_slave_status(t) PROVE OneCall'
  BY <1>4
  DEF atcspi_check_slave_status, Fail, atcspi_reset, driver, ctrl, api,
      Typed, OneCall,
      Requests
<1>5. ASSUME NEW t \in Tasks, trans_config(t) PROVE OneCall'
  BY <1>5 DEF trans_config, driver, ctrl, api, Typed, OneCall
<1>17. ASSUME NEW t \in Tasks, transfer_dma(t) PROVE OneCall'
  BY <1>17
  DEF transfer_dma, atcspi_dma_configure, driver, ctrl, api, Typed, OneCall, Requests,
      NoRequest
<1>6. ASSUME NEW t \in Tasks, transfer_dma_fails(t) PROVE OneCall'
  BY <1>6
  DEF transfer_dma_fails, atcspi_dma_configure_fails, Fail, driver, ctrl, api, Typed,
      OneCall
<1>18. ASSUME NEW t \in Tasks, transfer_busy(t) PROVE OneCall'
  BY <1>18 DEF transfer_busy, driver, ctrl, api, Typed, OneCall
<1>19. ASSUME NEW t \in Tasks, transfer_trigger(t) PROVE OneCall'
  BY <1>19 DEF transfer_trigger, driver, ctrl, api, Typed, OneCall
<1>20. ASSUME eager_end PROVE OneCall'
  BY <1>20 DEF eager_end, driver, ctrl, api, Typed, OneCall
<1>7. ASSUME NEW t \in Tasks, wait_ok(t) PROVE OneCall'
  BY <1>7 DEF wait_ok, driver, ctrl, api, Typed, OneCall, Requests
<1>8. ASSUME NEW t \in Tasks, timeout_reset(t) PROVE OneCall'
  BY <1>8 DEF timeout_reset, atcspi_reset, driver, ctrl, api, Typed, OneCall, Requests
<1>9. ASSUME NEW t \in Tasks, return_ok(t) PROVE OneCall'
  BY <1>9 DEF return_ok, driver, ctrl, api, Typed, OneCall, Requests
<1>10. ASSUME NEW t \in Tasks, wait_timeout(t) PROVE OneCall'
  BY <1>10 DEF wait_timeout, driver, ctrl, api, Typed, OneCall, Requests
<1>11. ASSUME NEW t \in Tasks, scm_spi_reset(t) PROVE OneCall'
  BY <1>11
  DEF scm_spi_reset, atcspi_reset, MayCall, driver, ctrl, api, Typed, OneCall,
      Requests
<1>12. ASSUME NEW t \in Tasks, scm_spi_slave_cancel(t) PROVE OneCall'
  BY <1>12
  DEF scm_spi_slave_cancel, atcspi_reset, driver, ctrl, api, Typed, OneCall, Requests
<1>13. ASSUME NEW d \in Dirs, slave_command(d) PROVE OneCall'
  BY <1>13 DEF slave_command, driver, ctrl, api, Typed, OneCall, Requests
<1>14. ASSUME transfer_end PROVE OneCall'
  BY <1>14 DEF transfer_end, driver, ctrl, api, Typed, OneCall, Requests
<1>15. ASSUME trans_end PROVE OneCall'
  BY <1>15 DEF trans_end, spi_notify, driver, ctrl, api, Typed, OneCall, Requests
<1>16. CASE UNCHANGED vars
  BY <1>16 DEF vars, driver, ctrl, api, Typed, OneCall, Requests
<1> QED
  BY <1>1, <1>2, <1>3, <1>4, <1>5, <1>6, <1>7, <1>8, <1>9, <1>10, <1>11, <1>12, <1>13,
     <1>14, <1>15, <1>16, <1>17, <1>18, <1>19, <1>20
  DEF Next, call

(* Every step of a use without overlap and time-outs keeps who waits. *)
LEMMA AwaitedStep ==
  ASSUME Typed, OneCall, Awaited, Only({"short", "address", "cancel"}), [Next]_vars
  PROVE  Awaited'
<1> USE SpiAssumption
<1>o. {"race", "eager", "overlap", "timeout"} \cap use = {}
  BY DEF Only
<1>1. ASSUME NEW t \in Tasks, scm_spi_master_call(t) PROVE Awaited'
  BY <1>1, <1>o
  DEF scm_spi_master_call, MayCall, driver, ctrl, api, Typed, OneCall, Awaited,
      Requests
<1>2. ASSUME NEW t \in Tasks, scm_spi_slave_call(t) PROVE Awaited'
  BY <1>2, <1>o
  DEF scm_spi_slave_call, MayCall, driver, ctrl, api, Typed, OneCall, Awaited,
      Requests
<1>3. ASSUME NEW t \in Tasks, transfer_test(t) PROVE Awaited'
  BY <1>3, <1>o
  DEF transfer_test, Fail, NoRequest, driver, ctrl, api, Typed, OneCall, Awaited,
      Requests
<1>4. ASSUME NEW t \in Tasks, atcspi_check_slave_status(t) PROVE Awaited'
  BY <1>4, <1>o
  DEF atcspi_check_slave_status, Fail, NoRequest, atcspi_reset, driver, ctrl, api,
      Typed, OneCall,
      Awaited, Requests
<1>5. ASSUME NEW t \in Tasks, trans_config(t) PROVE Awaited'
  BY <1>5, <1>o
  DEF trans_config, driver, ctrl, api, Typed, OneCall, Awaited, Requests, NoRequest
<1>17. ASSUME NEW t \in Tasks, transfer_dma(t) PROVE Awaited'
  BY <1>17, <1>o
  DEF transfer_dma, atcspi_dma_configure, driver, ctrl, api, Typed, OneCall, Awaited,
      Requests, NoRequest
<1>6. ASSUME NEW t \in Tasks, transfer_dma_fails(t) PROVE Awaited'
  BY <1>6, <1>o
  DEF transfer_dma_fails, atcspi_dma_configure_fails, Fail, driver, ctrl, api, Typed,
      OneCall, Awaited, Requests, NoRequest
<1>18. ASSUME NEW t \in Tasks, transfer_busy(t) PROVE Awaited'
  BY <1>18, <1>o
  DEF transfer_busy, driver, ctrl, api, Typed, OneCall, Awaited, Requests, NoRequest
<1>19. ASSUME NEW t \in Tasks, transfer_trigger(t) PROVE Awaited'
  BY <1>19, <1>o
  DEF transfer_trigger, driver, ctrl, api, Typed, OneCall, Awaited, Requests,
      NoRequest
<1>20. ASSUME eager_end PROVE Awaited'
  BY <1>20, <1>o
  DEF eager_end, driver, ctrl, api, Typed, OneCall, Awaited, Requests, NoRequest
<1>7. ASSUME NEW t \in Tasks, wait_ok(t) PROVE Awaited'
  BY <1>7, <1>o DEF wait_ok, driver, ctrl, api, Typed, OneCall, Awaited, Requests
<1>8. ASSUME NEW t \in Tasks, timeout_reset(t) PROVE Awaited'
  BY <1>8, <1>o
  DEF timeout_reset, atcspi_reset, driver, ctrl, api, Typed, OneCall, Awaited,
      Requests
<1>9. ASSUME NEW t \in Tasks, return_ok(t) PROVE Awaited'
  BY <1>9, <1>o DEF return_ok, driver, ctrl, api, Typed, OneCall, Awaited, Requests
<1>10. ASSUME NEW t \in Tasks, wait_timeout(t) PROVE Awaited'
  BY <1>10, <1>o DEF wait_timeout, driver, ctrl, api, Typed, OneCall, Awaited, Requests
<1>11. ASSUME NEW t \in Tasks, scm_spi_reset(t) PROVE Awaited'
  BY <1>11, <1>o
  DEF scm_spi_reset, atcspi_reset, MayCall, driver, ctrl, api, Typed, OneCall,
      Awaited, Requests
<1>12. ASSUME NEW t \in Tasks, scm_spi_slave_cancel(t) PROVE Awaited'
  BY <1>12, <1>o
  DEF scm_spi_slave_cancel, atcspi_reset, driver, ctrl, api, Typed, OneCall, Awaited,
      Requests
<1>13. ASSUME NEW d \in Dirs, slave_command(d) PROVE Awaited'
  BY <1>13, <1>o DEF slave_command, driver, ctrl, api, Typed, OneCall, Awaited, Requests
<1>14. ASSUME transfer_end PROVE Awaited'
  BY <1>14, <1>o DEF transfer_end, driver, ctrl, api, Typed, OneCall, Awaited, Requests
<1>15. ASSUME trans_end PROVE Awaited'
  BY <1>15, <1>o
  DEF trans_end, spi_notify, driver, ctrl, api, Typed, OneCall, Awaited, Requests
<1>16. CASE UNCHANGED vars
  BY <1>16 DEF vars, driver, ctrl, api, Typed, OneCall, Awaited, Requests
<1> QED
  BY <1>1, <1>2, <1>3, <1>4, <1>5, <1>6, <1>7, <1>8, <1>9, <1>10, <1>11, <1>12, <1>13,
     <1>14, <1>15, <1>16, <1>17, <1>18, <1>19, <1>20
  DEF Next, call

(* Two directions, two channels. *)
LEMMA TakenForm ==
  Channels = {dma_ch["tx"], dma_ch["rx"]} \ {NoChan}
  BY DEF Channels, Dirs

(* A transfer has at most two directions, so that a call that finds the    *)
(* driver free and the channels its own finds enough of them.              *)
LEMMA EnoughChannels ==
  ASSUME Typed, OneCall, Taken, "short" \notin use, "address" \notin use,
         NEW t \in Tasks, pc[t] = "dma"
  PROVE  ~atcspi_dma_configure_fails(req[t].dirs)
<1>1. held = {}
  <2>1. bus = "off" /\ ~UnderWay
    BY DEF OneCall, UnderWay
  <2> QED
    BY <2>1, TakenForm DEF Taken
<1>2. IsFiniteSet(Dirs) /\ Cardinality(Dirs) = 2
  <2>1. Dirs = {"tx"} \cup {"rx"}
    BY DEF Dirs
  <2>2. IsFiniteSet({"tx"}) /\ Cardinality({"tx"}) = 1
    BY FS_Singleton
  <2>3. "rx" \notin {"tx"}
    OBVIOUS
  <2> QED
    BY <2>1, <2>2, <2>3, FS_AddElement
<1>3. req[t].dirs \subseteq Dirs
  BY DEF Typed, Requests
<1>4. Cardinality(req[t].dirs) <= 2 /\ Cardinality(req[t].dirs) \in Nat
  BY <1>2, <1>3, FS_Subset, FS_CardinalityType
<1>5. Cardinality(Chans) \in Nat /\ Chans \ held = Chans
  BY <1>1, SpiAssumption, FS_CardinalityType
<1> QED
  <2>1. ~(Cardinality(Chans \ held) < Cardinality(req[t].dirs))
    <3>1. Cardinality(Chans \ held) = Cardinality(Chans)
      BY <1>5
    <3>2. Cardinality(Chans) >= 2
      BY SpiAssumption
    <3> QED
      BY <1>4, <1>5, <3>1, <3>2
  <2> QED
    BY <2>1 DEF atcspi_dma_configure_fails

(* Every step of a use without racing tasks and missing channels keeps the    *)
(* channels those of the transfer. *)
LEMMA TakenStep ==
  ASSUME Typed, OneCall, Taken, Only({"overlap", "timeout", "cancel"}), [Next]_vars
  PROVE  Taken'
<1> USE SpiAssumption
<1>o. {"race", "eager", "short", "address"} \cap use = {}
  BY DEF Only
<1>c. Channels = {dma_ch["tx"], dma_ch["rx"]} \ {NoChan}
  BY TakenForm
<1>d. Channels' = {dma_ch'["tx"], dma_ch'["rx"]} \ {NoChan}
  BY DEF Channels, Dirs
<1>1. ASSUME NEW t \in Tasks, scm_spi_master_call(t) PROVE Taken'
  BY <1>1, <1>o, <1>c, <1>d
  DEF scm_spi_master_call, MayCall, driver, ctrl, api, Typed, Dirs, Taken, UnderWay,
      OneCall
<1>2. ASSUME NEW t \in Tasks, scm_spi_slave_call(t) PROVE Taken'
  BY <1>2, <1>o, <1>c, <1>d
  DEF scm_spi_slave_call, MayCall, driver, ctrl, api, Typed, Dirs, Taken, UnderWay,
      OneCall
<1>3. ASSUME NEW t \in Tasks, transfer_test(t) PROVE Taken'
  BY <1>3, <1>o, <1>c, <1>d
  DEF transfer_test, Fail, NoRequest, driver, ctrl, api, Typed, Dirs, Taken, UnderWay,
      OneCall
<1>4. ASSUME NEW t \in Tasks, atcspi_check_slave_status(t) PROVE Taken'
  BY <1>4, <1>o, <1>c, <1>d
  DEF atcspi_check_slave_status, Fail, NoRequest, atcspi_reset, driver, ctrl, api,
      Typed, Dirs, Taken,
      UnderWay, OneCall
<1>5. ASSUME NEW t \in Tasks, trans_config(t) PROVE Taken'
  <2>1. ~UnderWay /\ ~UnderWay'
    BY <1>5 DEF trans_config, OneCall, UnderWay, Typed
  <2> QED
    BY <1>5, <1>c, <1>d, <2>1 DEF trans_config, Taken
<1>17. ASSUME NEW t \in Tasks, transfer_dma(t) PROVE Taken'
  <2> DEFINE D == req[t].dirs
  <2>1. PICK c \in [D -> Chans \ held] :
          /\ \A d, e \in D : c[d] = c[e] => d = e
          /\ held' = held \cup {c[d] : d \in D}
          /\ dma_ch' = [d \in Dirs |-> IF d \in D THEN c[d] ELSE dma_ch[d]]
    BY <1>17 DEF transfer_dma, atcspi_dma_configure
  <2>2. D \subseteq {"tx", "rx"} /\ lens' = D
    BY <1>17 DEF transfer_dma, Typed, OneCall, Dirs
  <2>3. ~UnderWay /\ UnderWay'
    BY <1>17 DEF transfer_dma, OneCall, UnderWay, Typed
  <2>4. held = {} /\ dma_ch["tx"] = NoChan /\ dma_ch["rx"] = NoChan
    BY <1>c, <2>3 DEF Taken
  <2>5. /\ dma_ch'["tx"] = IF "tx" \in D THEN c["tx"] ELSE NoChan
        /\ dma_ch'["rx"] = IF "rx" \in D THEN c["rx"] ELSE NoChan
    BY <2>1, <2>4 DEF Dirs
  <2>6. held' = {c[d] : d \in D} /\ \A d \in D : c[d] \in Chans /\ c[d] # NoChan
    BY <2>1, <2>4
  <2> HIDE DEF D
  <2>7. held' = Channels'
    BY <1>d, <2>2, <2>5, <2>6
  <2>8. dma_ch'["tx"] = dma_ch'["rx"] => dma_ch'["tx"] = NoChan
    BY <2>1, <2>5
  <2> QED
    BY <2>2, <2>3, <2>5, <2>6, <2>7, <2>8 DEF Taken
<1>6. ASSUME NEW t \in Tasks, transfer_dma_fails(t) PROVE Taken'
  BY <1>6, <1>o, EnoughChannels DEF transfer_dma_fails
<1>18. ASSUME NEW t \in Tasks, transfer_busy(t) PROVE Taken'
  BY <1>18, <1>c, <1>d DEF transfer_busy, ctrl, Typed, Taken, UnderWay
<1>19. ASSUME NEW t \in Tasks, transfer_trigger(t) PROVE Taken'
  <2>1. UnderWay /\ UnderWay'
    BY <1>19 DEF transfer_trigger, OneCall, UnderWay
  <2> QED
    BY <1>19, <1>c, <1>d, <2>1 DEF transfer_trigger, driver, Taken
<1>20. ASSUME eager_end PROVE Taken'
  BY <1>20, <1>o DEF eager_end
<1>7. ASSUME NEW t \in Tasks, wait_ok(t) PROVE Taken'
  BY <1>7, <1>o, <1>c, <1>d
  DEF wait_ok, driver, ctrl, api, Typed, Dirs, Taken, UnderWay, OneCall
<1>8. ASSUME NEW t \in Tasks, timeout_reset(t) PROVE Taken'
  BY <1>8, <1>o, <1>c, <1>d
  DEF timeout_reset, atcspi_reset, driver, ctrl, api, Typed, Dirs, Taken, UnderWay,
      OneCall
<1>9. ASSUME NEW t \in Tasks, return_ok(t) PROVE Taken'
  BY <1>9, <1>o, <1>c, <1>d
  DEF return_ok, driver, ctrl, api, Typed, Dirs, Taken, UnderWay, OneCall
<1>10. ASSUME NEW t \in Tasks, wait_timeout(t) PROVE Taken'
  BY <1>10, <1>o, <1>c, <1>d
  DEF wait_timeout, driver, ctrl, api, Typed, Dirs, Taken, UnderWay, OneCall
<1>11. ASSUME NEW t \in Tasks, scm_spi_reset(t) PROVE Taken'
  BY <1>11, <1>o, <1>c, <1>d
  DEF scm_spi_reset, atcspi_reset, MayCall, driver, ctrl, api, Typed, Dirs, Taken,
      UnderWay, OneCall
<1>12. ASSUME NEW t \in Tasks, scm_spi_slave_cancel(t) PROVE Taken'
  BY <1>12, <1>o, <1>c, <1>d
  DEF scm_spi_slave_cancel, atcspi_reset, driver, ctrl, api, Typed, Dirs, Taken,
      UnderWay, OneCall
<1>13. ASSUME NEW d \in Dirs, slave_command(d) PROVE Taken'
  BY <1>13, <1>o, <1>c, <1>d
  DEF slave_command, driver, ctrl, api, Typed, Dirs, Taken, UnderWay, OneCall
<1>14. ASSUME transfer_end PROVE Taken'
  BY <1>14, <1>o, <1>c, <1>d
  DEF transfer_end, driver, ctrl, api, Typed, Dirs, Taken, UnderWay, OneCall
<1>15. ASSUME trans_end PROVE Taken'
  BY <1>15, <1>o, <1>c, <1>d
  DEF trans_end, spi_notify, driver, ctrl, api, Typed, Dirs, Taken, UnderWay, OneCall
<1>16. CASE UNCHANGED vars
  BY <1>16, <1>c, <1>d DEF vars, driver, ctrl, Taken, UnderWay
<1> QED
  BY <1>1, <1>2, <1>3, <1>4, <1>5, <1>6, <1>7, <1>8, <1>9, <1>10, <1>11, <1>12, <1>13,
     <1>14, <1>15, <1>16, <1>17, <1>18, <1>19, <1>20
  DEF Next, call

-----------------------------------------------------------------------------
(* A controller at rest satisfies the invariant. *)
LEMMA SpiInvInit == Init => SpiInv
<1> SUFFICES ASSUME Init PROVE SpiInv
  OBVIOUS
<1>1. Typed
  BY NoRequestOk DEF Init, Typed
<1>2. OneCall /\ Awaited
  BY SpiAssumption DEF Init, OneCall, Awaited
<1>3. Taken
  BY TakenForm DEF Init, Taken, UnderWay, Dirs
<1> QED
  BY <1>1, <1>2, <1>3 DEF Init, SpiInv

(* Every step keeps the parts that the use is about. *)
LEMMA SpiInvStep == SpiInv /\ [Next]_vars => SpiInv'
<1> SUFFICES ASSUME SpiInv, [Next]_vars PROVE SpiInv'
  OBVIOUS
<1>u. use' = use
  BY DEF Next, call, vars, scm_spi_master_call, scm_spi_slave_call, transfer_test,
         atcspi_check_slave_status, trans_config, transfer_dma, transfer_dma_fails,
         transfer_busy, transfer_trigger, eager_end, wait_ok,
         timeout_reset, return_ok, wait_timeout, scm_spi_reset, scm_spi_slave_cancel,
         transfer_end, trans_end, slave_command
<1>1. Typed /\ Typed'
  BY TypedStep DEF SpiInv
<1>2. ASSUME "race" \notin use, "eager" \notin use PROVE OneCall /\ OneCall'
  BY <1>1, <1>2, OneCallStep DEF SpiInv
<1>3. ASSUME Only({"short", "address", "cancel"}) PROVE Awaited /\ Awaited'
  BY <1>1, <1>2, <1>3, AwaitedStep DEF SpiInv, Only
<1>4. ASSUME Only({"overlap", "timeout", "cancel"}) PROVE Taken /\ Taken'
  BY <1>1, <1>2, <1>4, TakenStep DEF SpiInv, Only
<1>5. ASSUME Only({}) PROVE Unprepared' => ready' = {}
  <2>1. OneCall /\ Awaited /\ Taken /\ (Unprepared => ready = {})
    BY <1>2, <1>3, <1>4, <1>5 DEF Only, SpiInv
  <2>2. \A t \in Tasks : ~transfer_dma_fails(t) /\ ~timeout_reset(t)
    BY <1>1, <1>5, <2>1, EnoughChannels
    DEF Only, transfer_dma_fails, timeout_reset, Awaited
  <2>3. ASSUME NEW t \in Tasks, scm_spi_reset(t) PROVE Unprepared /\ ready' = ready
    BY <1>1, <1>5, <2>1, <2>3
    DEF Only, scm_spi_reset, MayCall, Awaited, Typed, Unprepared
  <2>4. ASSUME NEW t \in Tasks, atcspi_check_slave_status(t)
        PROVE  Unprepared /\ ready' = ready
    BY <1>1, <2>1, <2>4 DEF atcspi_check_slave_status, OneCall, Unprepared
  <2>5. ASSUME NEW t \in Tasks, trans_config(t) \/ transfer_dma(t) \/ transfer_busy(t)
        PROVE  ~Unprepared'
    BY <1>1, <2>5 DEF trans_config, transfer_dma, transfer_busy, Unprepared, Typed
  <2>12. ASSUME NEW t \in Tasks, transfer_trigger(t) PROVE ~Unprepared'
    BY <2>1, <2>12 DEF transfer_trigger, OneCall, Unprepared
  <2>6. /\ \A t \in Tasks : ~scm_spi_slave_cancel(t)
        /\ ~eager_end
    BY <1>5 DEF scm_spi_slave_cancel, eager_end, Only
  <2>7. CASE trans_end
    BY <2>7 DEF trans_end
  <2>8. CASE transfer_end
    BY <2>8 DEF transfer_end, Unprepared
  <2>9. ASSUME NEW d \in Dirs, slave_command(d)
        PROVE  Unprepared' = Unprepared /\ ready' = ready
    BY <2>9 DEF slave_command, Unprepared
  <2>10. ASSUME NEW t \in Tasks,
                \/ scm_spi_master_call(t) \/ scm_spi_slave_call(t) \/ transfer_test(t)
                \/ wait_ok(t) \/ return_ok(t) \/ wait_timeout(t)
         PROVE  (Unprepared' => Unprepared) /\ ready' = ready
    BY <1>1, <2>10
    DEF scm_spi_master_call, scm_spi_slave_call, transfer_test, wait_ok, Fail,
       MayCall, return_ok, wait_timeout, driver, ctrl, Unprepared, Typed
  <2>11. CASE UNCHANGED vars
    BY <2>1, <2>11 DEF vars, driver, ctrl, Unprepared
  <2> QED
    BY <2>1, <2>2, <2>3, <2>4, <2>5, <2>6, <2>7, <2>8, <2>9, <2>10, <2>11, <2>12
    DEF Next, call
<1> QED
  BY <1>u, <1>1, <1>2, <1>3, <1>4, <1>5 DEF SpiInv, Only

(* The inductive invariant of the SPI driver. *)
THEOREM SpiInvariant == Spec => []SpiInv
  BY SpiInvInit, SpiInvStep, PTL DEF Spec

(* OkMeansDone, for every number of tasks and channels: a synchronous call *)
(* of scm_spi.c that gets the permit of data->sem gets the one spi_notify  *)
(* gave for its own transfer.                                              *)
THEOREM PermitIsOwn == Spec => []OkMeansDone
<1>1. SpiInv => OkMeansDone
  BY DEF SpiInv, Awaited, OkMeansDone, Typed
<1> QED
  BY <1>1, SpiInvariant, PTL

(* BusyExact: no path of spi-atcspi.c that ends a call or a transfer, in   *)
(* the uses it is about, leaves dev_busy set on a controller at rest or a  *)
(* ready flag up on a slave with nothing prepared.                         *)
THEOREM BusyIsExact == Spec => []BusyExact
<1>1. SpiInv => BusyExact
  BY DEF SpiInv, OneCall, Awaited, BusyExact, Only, Unprepared
<1> QED
  BY <1>1, SpiInvariant, PTL

(* ChannelsHeld: atcspi_reset and atcspi_irq give back every DMA channel,  *)
(* whatever timed out, was reset or cancelled.                             *)
THEOREM NoChannelLeaks == Spec => []ChannelsHeld
<1>1. SpiInv => ChannelsHeld
  <2> SUFFICES ASSUME SpiInv, Only({"overlap", "timeout", "cancel"})
               PROVE  {d \in Dirs : dma_ch[d] # NoChan} = IF UnderWay THEN lens ELSE {}
    BY DEF SpiInv, Taken, ChannelsHeld
  <2>1. lens \subseteq Dirs /\ Taken
    BY DEF SpiInv, Typed
  <2>2. CASE UnderWay
    BY <2>1, <2>2 DEF Taken, Dirs
  <2>3. CASE ~UnderWay
    BY <2>1, <2>3 DEF Taken, Dirs
  <2> QED
    BY <2>2, <2>3
<1> QED
  BY <1>1, SpiInvariant, PTL
=============================================================================
