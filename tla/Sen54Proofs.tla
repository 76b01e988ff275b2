---------------------------- MODULE Sen54Proofs ----------------------------
(* Safety of the SEN54 task for any number of writes, failures and faults. *)
EXTENDS Sen54, TLAPS

Devices ==
  [on : BOOLEAN, status : Nat, interval : Nat,
   reply : {"none", "values", "status", "interval"}]

(* The functions the task calls, and the labels they return to.            *)
InRead == {"sen54_read", "read_again", "read_restart", "read_receive"}
Inside == InRead \cup {"sen54_init", "init_start", "poll", "poll_receive"}
Back ==
  {"publish_enabled", "boot_polled", "polled", "reset_polled", "clear_polled",
   "publish", "reinit", "reinit_polled"}

(* A function is entered from the task only, never from another one.       *)
CallOK == IF pc \in Inside THEN \E b \in Back : stack = <<b>> ELSE stack = <<>>

(* Five failures are seen only while the sensor is being started again.    *)
Restarting ==
  IF pc \in Inside THEN stack = <<"reinit">> \/ stack = <<"reinit_polled">>
                   ELSE pc = "reinit" \/ pc = "reinit_polled"

CountOK == consecutive_failures = 5 => Restarting

(* sen54_read, which may start the sensor, runs only with the flag set.    *)
FlagOK ==
  ~LateErrors /\ MaxReboots = 0 =>
    FlagCoversSensor /\ (pc \in InRead => measurement_enabled)

(* BV1 outlives the request only between the reset and its acknowledgment. *)
AskedOK ==
  MaxReboots = 0 => (bv[1] => asked \/ pc = "reset_start" \/ pc = "reset_ack")

BusTypes == dev \in Devices /\ fails \in Nat

ControlTypes == pc \in Labels /\ ok \in BOOLEAN

TaskTypes ==
  /\ i2c_ready \in BOOLEAN /\ measurement_enabled \in BOOLEAN
  /\ consecutive_failures \in 0 .. 5 /\ last_status \in Nat \cup {NoStatus}
  /\ pollDue \in BOOLEAN /\ startDue \in BOOLEAN /\ word \in Nat

ObjectTypes ==
  /\ bv \in [1 .. 4 -> BOOLEAN] /\ bi \subseteq 1 .. 4
  /\ reading \in BOOLEAN /\ av7 \in Nat

ClientTypes ==
  /\ rx \in [pc : {"idle", "set", "ask", "compare"}, v : Nat]
  /\ nvs \in [bv1 : BOOLEAN, av7 : Nat]
  /\ asked \in BOOLEAN /\ suffered \subseteq 1 .. 4
  /\ writes \in Nat /\ faults \in Nat /\ reboots \in Nat

Types == BusTypes /\ ControlTypes /\ TaskTypes /\ ObjectTypes /\ ClientTypes

SInv == Types /\ CallOK /\ CountOK /\ FlagOK /\ AskedOK
-----------------------------------------------------------------------------
(* What calls and returns do to the stack.                                 *)
LEMMA CallEffect ==
  ASSUME NEW l, NEW b, stack = <<>>, Call(l, b)
  PROVE  pc' = l /\ stack' = <<b>> /\ ok' = ok
BY DEF Call

LEMMA ReturnEffect ==
  ASSUME CallOK, pc \in Inside, NEW result, Return(result)
  PROVE  \E b \in Back : stack = <<b>> /\ pc' = b /\ stack' = <<>> /\ ok' =
      result
<1>1. PICK b \in Back : stack = <<b>>
  BY DEF CallOK
<1>2. pc' = b /\ stack' = <<>> /\ ok' = result
  BY <1>1 DEF Return
<1>3. QED
  BY <1>1, <1>2

LEMMA ReturnRestarts ==
  ASSUME CallOK, Restarting, pc \in Inside, NEW result, Return(result)
  PROVE  Restarting'
<1>1. PICK b \in Back : stack = <<b>> /\ pc' = b
  BY ReturnEffect
<1>2. b = "reinit" \/ b = "reinit_polled"
  BY <1>1 DEF Restarting
<1>3. QED
  BY <1>1, <1>2 DEF Restarting, Inside, InRead

(* What commands and transfers do to the sensor.                           *)
LEMMA CommandEffect ==
  ASSUME NEW d \in Devices, FactoryInterval \in Nat
  PROVE  /\ Told(d) \in Devices /\ Told(d).on = d.on
         /\ Started(d) \in Devices /\ Started(d).on
         /\ Stopped(d) \in Devices /\ ~Stopped(d).on
         /\ Cleared(d) \in Devices /\ Cleared(d).on = d.on
         /\ WasReset(d) \in Devices /\ ~WasReset(d).on
         /\ \A what \in {"values", "status", "interval"} :
              Asked(d, what) \in Devices /\ Asked(d, what).on = d.on
BY DEF Devices, Told, Started, Stopped, Cleared, WasReset, Asked

LEMMA SentEffect ==
  ASSUME BusTypes, NEW d \in Devices, Sent(d)
  PROVE  BusTypes' /\ dev' = d
BY DEF BusTypes, Sent

LEMMA NotSentEffect ==
  ASSUME BusTypes, Sen54Assumption, NEW d \in Devices, NotSent(d)
  PROVE  BusTypes' /\ (dev' = dev \/ (dev' = d /\ LateErrors))
<1>1. fails' \in Nat
  BY DEF BusTypes, NotSent
<1>2. CASE LateErrors
  BY <1>1, <1>2 DEF BusTypes, NotSent
<1>3. CASE LateErrors = FALSE
  <2>1. (IF LateErrors THEN {d} ELSE {}) = {}
    BY <1>3
  <2>2. dev' = dev
    BY <2>1 DEF NotSent
  <2>3. QED
    BY <1>1, <2>2 DEF BusTypes
<1>4. QED
  BY <1>2, <1>3 DEF Sen54Assumption

LEMMA NotReceivedEffect ==
  ASSUME BusTypes, FactoryInterval \in Nat, NotReceived
  PROVE  BusTypes' /\ dev'.on = dev.on
BY CommandEffect DEF BusTypes, NotReceived, bus

LEMMA BusUnchanged ==
  ASSUME BusTypes, UNCHANGED bus
  PROVE  BusTypes' /\ dev' = dev
BY DEF BusTypes, bus

LEMMA ReceivedEffect ==
  ASSUME BusTypes, FactoryInterval \in Nat, NEW w, Received(w)
  PROVE  BusTypes' /\ dev'.on = dev.on
BY CommandEffect, SentEffect DEF BusTypes, Received

LEMMA ReplyTypes ==
  ASSUME BusTypes, Sen54Assumption
  PROVE  ReplyWords(dev) \subseteq Nat
BY DEF BusTypes, Devices, ReplyWords, Sen54Assumption

(* The steps of the task.  A call is entered from the task with an empty     *)
(* stack and left for the label it put there, so what a return does to pc is *)
(* known; and the sensor is turned on only where measurement_enabled is set. *)
LEMMA TaskStep ==
  ASSUME SInv, Task
  PROVE  SInv'
<1> USE Sen54Assumption DEF SInv, Types, ControlTypes, app, clients, driver,
    objects, outside
<1> USE DEF Inside, InRead, Back
<1>a. FactoryInterval \in Nat /\ Measured \subseteq Nat
  BY DEF Sen54Assumption
<1>b. dev \in Devices
  BY DEF BusTypes
<1>1. CASE TaskStart
  BY <1>1
     DEF TaskStart, Call, bus, BusTypes, TaskTypes, ObjectTypes, ClientTypes,
         Labels, CallOK, CountOK, Restarting, AskedOK, FlagOK, FlagCoversSensor
<1>2. CASE InitBus
  <2>1. BusTypes'
    BY <1>2, <1>a, <1>b, CommandEffect, NotSentEffect, BusUnchanged
       DEF InitBus, Goto
  <2>2. TaskTypes'
    BY <1>2 DEF InitBus, Goto, TaskTypes
  <2>3. ObjectTypes'
    BY <1>2 DEF InitBus, Goto, TaskTypes, ObjectTypes
  <2>4. ClientTypes'
    BY <1>2, <2>3 DEF InitBus, Goto, ClientTypes, ObjectTypes
  <2>5. ControlTypes'
    BY <1>2, ReturnEffect DEF InitBus, Goto, Labels, CallOK
  <2>6. CallOK'
    BY <1>2, ReturnEffect DEF InitBus, Goto, CallOK
  <2>7. CountOK'
    BY <1>2, ReturnEffect, ReturnRestarts
       DEF InitBus, Goto, CallOK, CountOK, Restarting
  <2>8. AskedOK'
    BY <1>2, ReturnEffect DEF InitBus, Goto, CallOK, AskedOK, ObjectTypes
  <2>9. FlagOK'
    BY <1>2, <1>a, <1>b, CommandEffect, NotSentEffect, BusUnchanged,
       ReturnEffect
       DEF InitBus, Goto, FlagOK, CallOK, FlagCoversSensor
  <2>10. QED
    BY <2>1, <2>2, <2>3, <2>4, <2>5, <2>6, <2>7, <2>8, <2>9
<1>3. CASE InitStart
  <2>1. BusTypes'
    BY <1>3, <1>a, <1>b, CommandEffect, SentEffect, NotSentEffect, BusUnchanged
       DEF InitStart
  <2>2. TaskTypes'
    BY <1>3 DEF InitStart, TaskTypes
  <2>3. ObjectTypes'
    BY <1>3 DEF InitStart, TaskTypes, ObjectTypes
  <2>4. ClientTypes'
    BY <1>3, <2>3 DEF InitStart, ClientTypes, ObjectTypes
  <2>5. ControlTypes'
    BY <1>3, ReturnEffect DEF InitStart, Labels, CallOK
  <2>6. CallOK'
    BY <1>3, ReturnEffect DEF InitStart, CallOK
  <2>7. CountOK'
    BY <1>3, ReturnEffect, ReturnRestarts
       DEF InitStart, CallOK, CountOK, Restarting
  <2>8. AskedOK'
    BY <1>3, ReturnEffect DEF InitStart, CallOK, AskedOK, ObjectTypes
  <2>9. FlagOK'
    BY <1>3, <1>a, <1>b, CommandEffect, SentEffect, NotSentEffect, BusUnchanged,
       ReturnEffect
       DEF InitStart, FlagOK, CallOK, FlagCoversSensor
  <2>10. QED
    BY <2>1, <2>2, <2>3, <2>4, <2>5, <2>6, <2>7, <2>8, <2>9
<1>4. CASE PublishEnabled
  <2>1. BusTypes'
    BY <1>4, <1>a, BusUnchanged DEF PublishEnabled, Goto
  <2>2. TaskTypes'
    BY <1>4 DEF PublishEnabled, Goto, TaskTypes
  <2>3. ObjectTypes'
    BY <1>4 DEF PublishEnabled, Goto, TaskTypes, ObjectTypes
  <2>4. ClientTypes'
    BY <1>4, <2>3 DEF PublishEnabled, Goto, ClientTypes, ObjectTypes
  <2>5. ControlTypes'
    BY <1>4 DEF PublishEnabled, Goto, Labels, CallOK
  <2>6. CallOK'
    BY <1>4 DEF PublishEnabled, Goto, CallOK
  <2>7. CountOK'
    BY <1>4 DEF PublishEnabled, Goto, CallOK, CountOK, Restarting
  <2>8. AskedOK'
    BY <1>4 DEF PublishEnabled, Goto, CallOK, AskedOK, ObjectTypes
  <2>9. FlagOK'
    BY <1>4, <1>a, BusUnchanged
       DEF PublishEnabled, Goto, FlagOK, CallOK, FlagCoversSensor
  <2>10. QED
    BY <2>1, <2>2, <2>3, <2>4, <2>5, <2>6, <2>7, <2>8, <2>9
<1>5. CASE IntervalCmd
  <2>1. BusTypes'
    BY <1>5, <1>a, <1>b, CommandEffect, SentEffect, NotSentEffect, BusUnchanged
       DEF IntervalCmd, Call, Goto
  <2>2. TaskTypes' /\ ObjectTypes' /\ ClientTypes'
    BY <1>5 DEF IntervalCmd, Call, Goto, TaskTypes, ObjectTypes, ClientTypes
  <2>3. ControlTypes' /\ CallOK'
    BY <1>5 DEF IntervalCmd, Call, Goto, Labels, CallOK
  <2>4. CountOK' /\ AskedOK'
    BY <1>5
       DEF IntervalCmd, Call, Goto, CallOK, CountOK, Restarting, AskedOK,
           ObjectTypes
  <2>5. FlagOK'
    BY <1>5, <1>a, <1>b, CommandEffect, SentEffect, NotSentEffect, BusUnchanged
       DEF IntervalCmd, Call, Goto, FlagOK, CallOK, FlagCoversSensor
  <2>6. QED
    BY <2>1, <2>2, <2>3, <2>4, <2>5
<1>6. CASE IntervalReceive
  <2>1. BusTypes'
    BY <1>6, <1>a, <1>b, CommandEffect, SentEffect, ReceivedEffect,
       NotReceivedEffect, BusUnchanged
       DEF IntervalReceive, Call, Goto
  <2>2. TaskTypes'
    BY <1>6, <1>a, ReplyTypes
       DEF IntervalReceive, Call, Goto, Received, TaskTypes
  <2>3. ObjectTypes'
    BY <1>6, <1>a, ReplyTypes
       DEF IntervalReceive, Call, Goto, Received, TaskTypes, ObjectTypes
  <2>4. ClientTypes'
    BY <1>6, <2>3 DEF IntervalReceive, Call, Goto, ClientTypes, ObjectTypes
  <2>5. ControlTypes'
    BY <1>6 DEF IntervalReceive, Call, Goto, Labels, CallOK
  <2>6. CallOK'
    BY <1>6 DEF IntervalReceive, Call, Goto, CallOK
  <2>7. CountOK'
    BY <1>6 DEF IntervalReceive, Call, Goto, CallOK, CountOK, Restarting
  <2>8. AskedOK'
    BY <1>6 DEF IntervalReceive, Call, Goto, CallOK, AskedOK, ObjectTypes
  <2>9. FlagOK'
    BY <1>6, <1>a, <1>b, CommandEffect, SentEffect, ReceivedEffect,
       NotReceivedEffect, BusUnchanged
       DEF IntervalReceive, Call, Goto, FlagOK, CallOK, FlagCoversSensor
  <2>10. QED
    BY <2>1, <2>2, <2>3, <2>4, <2>5, <2>6, <2>7, <2>8, <2>9
<1>7. CASE IntervalPublish
  BY <1>7
     DEF IntervalPublish, Call, bus, BusTypes, TaskTypes, ObjectTypes,
         ClientTypes, Labels, CallOK, CountOK, Restarting, AskedOK, FlagOK,
         FlagCoversSensor
<1>8. CASE ReadCmd
  <2>1. BusTypes'
    BY <1>8, <1>a, <1>b, CommandEffect, SentEffect, NotSentEffect, BusUnchanged
       DEF ReadCmd, AskValues, Goto, ValuesRefused
  <2>2. TaskTypes' /\ ObjectTypes' /\ ClientTypes'
    BY <1>8
       DEF ReadCmd, AskValues, Goto, ValuesRefused, TaskTypes, ObjectTypes,
           ClientTypes
  <2>3. ControlTypes' /\ CallOK'
    BY <1>8, ReturnEffect
       DEF ReadCmd, AskValues, Goto, ValuesRefused, Labels, CallOK
  <2>4. CountOK' /\ AskedOK'
    BY <1>8, ReturnEffect, ReturnRestarts
       DEF ReadCmd, AskValues, Goto, ValuesRefused, CallOK, CountOK, Restarting,
           AskedOK, ObjectTypes
  <2>5. FlagOK'
    BY <1>8, <1>a, <1>b, CommandEffect, SentEffect, NotSentEffect, BusUnchanged,
       ReturnEffect
       DEF ReadCmd, AskValues, Goto, ValuesRefused, FlagOK, CallOK,
           FlagCoversSensor
  <2>6. QED
    BY <2>1, <2>2, <2>3, <2>4, <2>5
<1>9. CASE ReadRestart
  <2>1. BusTypes'
    BY <1>9, <1>a, <1>b, CommandEffect, SentEffect, NotSentEffect, BusUnchanged
       DEF ReadRestart, Goto
  <2>2. TaskTypes' /\ ObjectTypes' /\ ClientTypes'
    BY <1>9 DEF ReadRestart, Goto, TaskTypes, ObjectTypes, ClientTypes
  <2>3. ControlTypes' /\ CallOK'
    BY <1>9, ReturnEffect DEF ReadRestart, Goto, Labels, CallOK
  <2>4. CountOK' /\ AskedOK'
    BY <1>9, ReturnEffect, ReturnRestarts
       DEF ReadRestart, Goto, CallOK, CountOK, Restarting, AskedOK, ObjectTypes
  <2>5. FlagOK'
    BY <1>9, <1>a, <1>b, CommandEffect, SentEffect, NotSentEffect, BusUnchanged,
       ReturnEffect
       DEF ReadRestart, Goto, FlagOK, CallOK, FlagCoversSensor
  <2>6. QED
    BY <2>1, <2>2, <2>3, <2>4, <2>5
<1>10. CASE ReadReceive
  <2>1. BusTypes'
    BY <1>10, <1>a, <1>b, CommandEffect, SentEffect, NotReceivedEffect,
       BusUnchanged
       DEF ReadReceive
  <2>2. TaskTypes' /\ ObjectTypes' /\ ClientTypes'
    BY <1>10 DEF ReadReceive, TaskTypes, ObjectTypes, ClientTypes
  <2>3. ControlTypes' /\ CallOK'
    BY <1>10, ReturnEffect DEF ReadReceive, Labels, CallOK
  <2>4. CountOK' /\ AskedOK'
    BY <1>10, ReturnEffect, ReturnRestarts
       DEF ReadReceive, CallOK, CountOK, Restarting, AskedOK, ObjectTypes
  <2>5. FlagOK'
    BY <1>10, <1>a, <1>b, CommandEffect, SentEffect, NotReceivedEffect,
       BusUnchanged, ReturnEffect
       DEF ReadReceive, FlagOK, CallOK, FlagCoversSensor
  <2>6. QED
    BY <2>1, <2>2, <2>3, <2>4, <2>5
<1>11. CASE PollCmd
  <2>1. BusTypes'
    BY <1>11, <1>a, <1>b, CommandEffect, SentEffect, NotSentEffect, BusUnchanged
       DEF PollCmd, Goto
  <2>2. TaskTypes'
    BY <1>11 DEF PollCmd, Goto, TaskTypes
  <2>3. ObjectTypes'
    BY <1>11 DEF PollCmd, Goto, TaskTypes, ObjectTypes
  <2>4. ClientTypes'
    BY <1>11, <2>3 DEF PollCmd, Goto, ClientTypes, ObjectTypes
  <2>5. ControlTypes'
    BY <1>11, ReturnEffect DEF PollCmd, Goto, Labels, CallOK
  <2>6. CallOK'
    BY <1>11, ReturnEffect DEF PollCmd, Goto, CallOK
  <2>7. CountOK'
    BY <1>11, ReturnEffect, ReturnRestarts
       DEF PollCmd, Goto, CallOK, CountOK, Restarting
  <2>8. AskedOK'
    BY <1>11, ReturnEffect DEF PollCmd, Goto, CallOK, AskedOK, ObjectTypes
  <2>9. Asked(dev, "status") \in Devices /\ Asked(dev, "status").on = dev.on
    BY <1>11, <1>a, <1>b, CommandEffect DEF PollCmd, Goto
  <2>10. dev'.on = dev.on
    BY <1>11, <2>9, SentEffect, NotSentEffect, BusUnchanged DEF PollCmd, Goto
  <2>11. FlagOK'
    BY <1>11, <2>10, ReturnEffect
       DEF PollCmd, Goto, FlagOK, CallOK, FlagCoversSensor
  <2>12. QED
    BY <2>1, <2>2, <2>3, <2>4, <2>5, <2>6, <2>7, <2>8, <2>9, <2>10, <2>11
<1>12. CASE PollReceive
  <2>1. BusTypes'
    BY <1>12, <1>a, <1>b, CommandEffect, SentEffect, ReceivedEffect,
       NotReceivedEffect, BusUnchanged
       DEF PollReceive, PublishStatus
  <2>2. TaskTypes'
    BY <1>12, <1>a, ReplyTypes
       DEF PollReceive, PublishStatus, Received, TaskTypes
  <2>3. ObjectTypes'
    BY <1>12, <1>a, ReplyTypes
       DEF PollReceive, PublishStatus, Received, TaskTypes, ObjectTypes, Errors
  <2>4. ClientTypes'
    BY <1>12, <2>3 DEF PollReceive, PublishStatus, ClientTypes, ObjectTypes
  <2>5. ControlTypes'
    BY <1>12, ReturnEffect DEF PollReceive, PublishStatus, Labels, CallOK
  <2>6. CallOK'
    BY <1>12, ReturnEffect DEF PollReceive, PublishStatus, CallOK
  <2>7. CountOK'
    BY <1>12, ReturnEffect, ReturnRestarts
       DEF PollReceive, PublishStatus, CallOK, CountOK, Restarting
  <2>8. AskedOK'
    BY <1>12, ReturnEffect
       DEF PollReceive, PublishStatus, CallOK, AskedOK, ObjectTypes
  <2>9. FlagOK'
    BY <1>12, <1>a, <1>b, CommandEffect, SentEffect, ReceivedEffect,
       NotReceivedEffect, BusUnchanged, ReturnEffect
       DEF PollReceive, PublishStatus, FlagOK, CallOK, FlagCoversSensor
  <2>10. QED
    BY <2>1, <2>2, <2>3, <2>4, <2>5, <2>6, <2>7, <2>8, <2>9
<1>13. CASE Loop
  BY <1>13
     DEF Loop, Call, Goto, bus, BusTypes, TaskTypes, ObjectTypes, ClientTypes,
         Labels, CallOK, CountOK, Restarting, AskedOK, FlagOK, FlagCoversSensor
<1>14. CASE Polled
  <2>1. BusTypes'
    BY <1>14, <1>a, BusUnchanged DEF Polled, Goto
  <2>2. TaskTypes' /\ ObjectTypes' /\ ClientTypes'
    BY <1>14 DEF Polled, Goto, TaskTypes, ObjectTypes, ClientTypes
  <2>3. ControlTypes' /\ CallOK'
    BY <1>14 DEF Polled, Goto, Labels, CallOK
  <2>4. CountOK' /\ AskedOK'
    BY <1>14 DEF Polled, Goto, CallOK, CountOK, Restarting, AskedOK, ObjectTypes
  <2>5. FlagOK'
    BY <1>14, <1>a, BusUnchanged
       DEF Polled, Goto, FlagOK, CallOK, FlagCoversSensor
  <2>6. QED
    BY <2>1, <2>2, <2>3, <2>4, <2>5
<1>15. CASE ResetRequested
  BY <1>15
     DEF ResetRequested, Goto, bus, BusTypes, TaskTypes, ObjectTypes,
         ClientTypes, Labels, CallOK, CountOK, Restarting, AskedOK, FlagOK,
         FlagCoversSensor
<1>16. CASE ResetCmd
  <2>1. BusTypes'
    BY <1>16, <1>a, <1>b, CommandEffect, SentEffect, NotSentEffect, BusUnchanged
       DEF ResetCmd, Goto
  <2>2. TaskTypes' /\ ObjectTypes' /\ ClientTypes'
    BY <1>16 DEF ResetCmd, Goto, TaskTypes, ObjectTypes, ClientTypes
  <2>3. ControlTypes' /\ CallOK'
    BY <1>16 DEF ResetCmd, Goto, Labels, CallOK
  <2>4. CountOK' /\ AskedOK'
    BY <1>16
       DEF ResetCmd, Goto, CallOK, CountOK, Restarting, AskedOK, ObjectTypes
  <2>5. FlagOK'
    BY <1>16, <1>a, <1>b, CommandEffect, SentEffect, NotSentEffect, BusUnchanged
       DEF ResetCmd, Goto, FlagOK, CallOK, FlagCoversSensor
  <2>6. QED
    BY <2>1, <2>2, <2>3, <2>4, <2>5
<1>17. CASE ResetStart
  <2>1. BusTypes'
    BY <1>17, <1>a, <1>b, CommandEffect, SentEffect, NotSentEffect, BusUnchanged
       DEF ResetStart, Goto
  <2>2. TaskTypes'
    BY <1>17 DEF ResetStart, Goto, TaskTypes
  <2>3. ObjectTypes'
    BY <1>17 DEF ResetStart, Goto, TaskTypes, ObjectTypes
  <2>4. ClientTypes'
    BY <1>17, <2>3 DEF ResetStart, Goto, ClientTypes, ObjectTypes
  <2>5. ControlTypes'
    BY <1>17 DEF ResetStart, Goto, Labels, CallOK
  <2>6. CallOK'
    BY <1>17 DEF ResetStart, Goto, CallOK
  <2>7. CountOK'
    BY <1>17 DEF ResetStart, Goto, CallOK, CountOK, Restarting
  <2>8. AskedOK'
    BY <1>17 DEF ResetStart, Goto, CallOK, AskedOK, ObjectTypes
  <2>9. FlagOK'
    BY <1>17, <1>a, <1>b, CommandEffect, SentEffect, NotSentEffect, BusUnchanged
       DEF ResetStart, Goto, FlagOK, CallOK, FlagCoversSensor
  <2>10. QED
    BY <2>1, <2>2, <2>3, <2>4, <2>5, <2>6, <2>7, <2>8, <2>9
<1>18. CASE ResetAck
  <2>1. BusTypes'
    BY <1>18, <1>a, BusUnchanged DEF ResetAck, Call
  <2>2. TaskTypes' /\ ObjectTypes' /\ ClientTypes'
    BY <1>18 DEF ResetAck, Call, TaskTypes, ObjectTypes, ClientTypes
  <2>3. ControlTypes' /\ CallOK'
    BY <1>18 DEF ResetAck, Call, Labels, CallOK
  <2>4. CountOK' /\ AskedOK'
    BY <1>18
       DEF ResetAck, Call, CallOK, CountOK, Restarting, AskedOK, ObjectTypes
  <2>5. FlagOK'
    BY <1>18, <1>a, BusUnchanged
       DEF ResetAck, Call, FlagOK, CallOK, FlagCoversSensor
  <2>6. QED
    BY <2>1, <2>2, <2>3, <2>4, <2>5
<1>19. CASE ResetPolled
  BY <1>19
     DEF ResetPolled, Goto, bus, BusTypes, TaskTypes, ObjectTypes, ClientTypes,
         Labels, CallOK, CountOK, Restarting, AskedOK, FlagOK, FlagCoversSensor
<1>20. CASE MeasureRequested
  <2>1. BusTypes'
    BY <1>20, <1>a, BusUnchanged DEF MeasureRequested, Goto
  <2>2. TaskTypes'
    BY <1>20 DEF MeasureRequested, Goto, TaskTypes
  <2>3. ObjectTypes'
    BY <1>20 DEF MeasureRequested, Goto, TaskTypes, ObjectTypes
  <2>4. ClientTypes'
    BY <1>20, <2>3 DEF MeasureRequested, Goto, ClientTypes, ObjectTypes
  <2>5. ControlTypes'
    BY <1>20 DEF MeasureRequested, Goto, Labels, CallOK
  <2>6. CallOK'
    BY <1>20 DEF MeasureRequested, Goto, CallOK
  <2>7. CountOK'
    BY <1>20 DEF MeasureRequested, Goto, CallOK, CountOK, Restarting
  <2>8. AskedOK'
    BY <1>20 DEF MeasureRequested, Goto, CallOK, AskedOK, ObjectTypes
  <2>9. FlagOK'
    BY <1>20, <1>a, BusUnchanged
       DEF MeasureRequested, Goto, FlagOK, CallOK, FlagCoversSensor
  <2>10. QED
    BY <2>1, <2>2, <2>3, <2>4, <2>5, <2>6, <2>7, <2>8, <2>9
<1>21. CASE StartMeasurement
  <2>1. BusTypes'
    BY <1>21, <1>a, <1>b, CommandEffect, SentEffect, NotSentEffect, BusUnchanged
       DEF StartMeasurement, Goto
  <2>2. TaskTypes'
    BY <1>21 DEF StartMeasurement, Goto, TaskTypes
  <2>3. ObjectTypes'
    BY <1>21 DEF StartMeasurement, Goto, TaskTypes, ObjectTypes
  <2>4. ClientTypes'
    BY <1>21, <2>3 DEF StartMeasurement, Goto, ClientTypes, ObjectTypes
  <2>5. ControlTypes'
    BY <1>21 DEF StartMeasurement, Goto, Labels, CallOK
  <2>6. CallOK'
    BY <1>21 DEF StartMeasurement, Goto, CallOK
  <2>7. CountOK'
    BY <1>21 DEF StartMeasurement, Goto, CallOK, CountOK, Restarting
  <2>8. AskedOK'
    BY <1>21 DEF StartMeasurement, Goto, CallOK, AskedOK, ObjectTypes
  <2>9. FlagOK'
    BY <1>21, <1>a, <1>b, CommandEffect, SentEffect, NotSentEffect, BusUnchanged
       DEF StartMeasurement, Goto, FlagOK, CallOK, FlagCoversSensor
  <2>10. QED
    BY <2>1, <2>2, <2>3, <2>4, <2>5, <2>6, <2>7, <2>8, <2>9
<1>22. CASE StopMeasurement
  <2>1. BusTypes'
    BY <1>22, <1>a, <1>b, CommandEffect, SentEffect, NotSentEffect, BusUnchanged
       DEF StopMeasurement, Goto
  <2>2. TaskTypes'
    BY <1>22 DEF StopMeasurement, Goto, TaskTypes
  <2>3. ObjectTypes'
    BY <1>22 DEF StopMeasurement, Goto, TaskTypes, ObjectTypes
  <2>4. ClientTypes'
    BY <1>22, <2>3 DEF StopMeasurement, Goto, ClientTypes, ObjectTypes
  <2>5. ControlTypes'
    BY <1>22 DEF StopMeasurement, Goto, Labels, CallOK
  <2>6. CallOK'
    BY <1>22 DEF StopMeasurement, Goto, CallOK
  <2>7. CountOK'
    BY <1>22 DEF StopMeasurement, Goto, CallOK, CountOK, Restarting
  <2>8. AskedOK'
    BY <1>22 DEF StopMeasurement, Goto, CallOK, AskedOK, ObjectTypes
  <2>9. FlagOK'
    BY <1>22, <1>a, <1>b, CommandEffect, SentEffect, NotSentEffect, BusUnchanged
       DEF StopMeasurement, Goto, FlagOK, CallOK, FlagCoversSensor
  <2>10. QED
    BY <2>1, <2>2, <2>3, <2>4, <2>5, <2>6, <2>7, <2>8, <2>9
<1>23. CASE FanRequested
  BY <1>23
     DEF FanRequested, Goto, bus, BusTypes, TaskTypes, ObjectTypes, ClientTypes,
         Labels, CallOK, CountOK, Restarting, AskedOK, FlagOK, FlagCoversSensor
<1>24. CASE FanCmd
  <2>1. BusTypes'
    BY <1>24, <1>a, <1>b, CommandEffect, SentEffect, NotSentEffect, BusUnchanged
       DEF FanCmd, Goto
  <2>2. TaskTypes' /\ ObjectTypes' /\ ClientTypes'
    BY <1>24 DEF FanCmd, Goto, TaskTypes, ObjectTypes, ClientTypes
  <2>3. ControlTypes' /\ CallOK'
    BY <1>24 DEF FanCmd, Goto, Labels, CallOK
  <2>4. CountOK' /\ AskedOK'
    BY <1>24 DEF FanCmd, Goto, CallOK, CountOK, Restarting, AskedOK, ObjectTypes
  <2>5. FlagOK'
    BY <1>24, <1>a, <1>b, CommandEffect, SentEffect, NotSentEffect, BusUnchanged
       DEF FanCmd, Goto, FlagOK, CallOK, FlagCoversSensor
  <2>6. QED
    BY <2>1, <2>2, <2>3, <2>4, <2>5
<1>25. CASE FanAck
  BY <1>25
     DEF FanAck, Goto, bus, BusTypes, TaskTypes, ObjectTypes, ClientTypes,
         Labels, CallOK, CountOK, Restarting, AskedOK, FlagOK, FlagCoversSensor
<1>26. CASE ClearRequested
  BY <1>26
     DEF ClearRequested, Goto, bus, BusTypes, TaskTypes, ObjectTypes,
         ClientTypes, Labels, CallOK, CountOK, Restarting, AskedOK, FlagOK,
         FlagCoversSensor
<1>27. CASE ClearCmd
  <2>1. BusTypes'
    BY <1>27, <1>a, <1>b, CommandEffect, SentEffect, NotSentEffect, BusUnchanged
       DEF ClearCmd, Call, Goto
  <2>2. TaskTypes' /\ ObjectTypes' /\ ClientTypes'
    BY <1>27 DEF ClearCmd, Call, Goto, TaskTypes, ObjectTypes, ClientTypes
  <2>3. ControlTypes' /\ CallOK'
    BY <1>27 DEF ClearCmd, Call, Goto, Labels, CallOK
  <2>4. CountOK' /\ AskedOK'
    BY <1>27
       DEF ClearCmd, Call, Goto, CallOK, CountOK, Restarting, AskedOK,
           ObjectTypes
  <2>5. FlagOK'
    BY <1>27, <1>a, <1>b, CommandEffect, SentEffect, NotSentEffect, BusUnchanged
       DEF ClearCmd, Call, Goto, FlagOK, CallOK, FlagCoversSensor
  <2>6. QED
    BY <2>1, <2>2, <2>3, <2>4, <2>5
<1>28. CASE ClearPolled
  BY <1>28
     DEF ClearPolled, Goto, bus, BusTypes, TaskTypes, ObjectTypes, ClientTypes,
         Labels, CallOK, CountOK, Restarting, AskedOK, FlagOK, FlagCoversSensor
<1>29. CASE ClearAck
  BY <1>29
     DEF ClearAck, Goto, bus, BusTypes, TaskTypes, ObjectTypes, ClientTypes,
         Labels, CallOK, CountOK, Restarting, AskedOK, FlagOK, FlagCoversSensor
<1>30. CASE Values
  BY <1>30
     DEF Values, Call, Goto, bus, BusTypes, TaskTypes, ObjectTypes, ClientTypes,
         Labels, CallOK, CountOK, Restarting, AskedOK, FlagOK, FlagCoversSensor
<1>31. CASE PublishValues
  <2>1. BusTypes'
    BY <1>31, <1>a, BusUnchanged DEF PublishValues, Call, Goto
  <2>2. TaskTypes' /\ ObjectTypes' /\ ClientTypes'
    BY <1>31
       DEF PublishValues, Call, Goto, TaskTypes, CountOK, Restarting,
           ObjectTypes, ClientTypes
  <2>3. ControlTypes' /\ CallOK'
    BY <1>31 DEF PublishValues, Call, Goto, Labels, CallOK
  <2>4. CountOK' /\ AskedOK'
    BY <1>31
       DEF PublishValues, Call, Goto, CallOK, CountOK, Restarting, AskedOK,
           ObjectTypes
  <2>5. FlagOK'
    BY <1>31, <1>a, BusUnchanged
       DEF PublishValues, Call, Goto, FlagOK, CallOK, FlagCoversSensor
  <2>6. QED
    BY <2>1, <2>2, <2>3, <2>4, <2>5
<1>32. CASE Reinit
  BY <1>32
     DEF Reinit, Call, bus, BusTypes, TaskTypes, ObjectTypes, ClientTypes,
         Labels, CallOK, CountOK, Restarting, AskedOK, FlagOK, FlagCoversSensor
<1>33. CASE ReinitPolled
  BY <1>33
     DEF ReinitPolled, Goto, bus, BusTypes, TaskTypes, ObjectTypes, ClientTypes,
         Labels, CallOK, CountOK, Restarting, AskedOK, FlagOK, FlagCoversSensor
<1>34. CASE Sleep
  BY <1>34
     DEF Sleep, Goto, bus, BusTypes, TaskTypes, ObjectTypes, ClientTypes,
         Labels, CallOK, CountOK, Restarting, AskedOK, FlagOK, FlagCoversSensor
<1>35. QED
  BY <1>1, <1>2, <1>3, <1>4, <1>5, <1>6, <1>7, <1>8, <1>9, <1>10, <1>11, <1>12,
     <1>13, <1>14, <1>15, <1>16, <1>17, <1>18, <1>19, <1>20, <1>21, <1>22,
     <1>23, <1>24, <1>25, <1>26, <1>27, <1>28, <1>29, <1>30, <1>31, <1>32,
     <1>33, <1>34
     DEF Task

(* The receive task's steps on the bus: none of them turns the sensor on or *)
(* off, and none touches the task.                                         *)
LEMMA ReceiveTaskStep ==
  ASSUME SInv, ReceiveTask
  PROVE  SInv'
<1> USE Sen54Assumption DEF SInv, Types, ControlTypes, TaskTypes, control,
    driver,
                            app, outside
<1>a. FactoryInterval \in Nat
  BY DEF Sen54Assumption
<1>b. dev \in Devices /\ rx.v \in Nat
  BY DEF BusTypes, ClientTypes
<1> DEFINE NewInterval == [Told(dev) EXCEPT !.interval = rx.v]
<1>c. NewInterval \in Devices /\ NewInterval.on = dev.on
  BY <1>a, <1>b DEF Devices, Told
<1> HIDE DEF NewInterval
<1>1. BusTypes' /\ dev'.on = dev.on
  <2>1. CASE RxSet
    <3>1. CASE Sent(NewInterval)
      BY <1>c, <3>1, SentEffect
    <3>2. CASE NotSent(NewInterval)
      BY <1>c, <3>2, NotSentEffect
    <3>3. CASE UNCHANGED bus
      BY <3>3, BusUnchanged
    <3>4. QED
      BY <2>1, <3>1, <3>2, <3>3 DEF RxSet, NewInterval
  <2>2. CASE RxAsk
    <3>1. Asked(dev, "interval") \in Devices /\ Asked(dev, "interval").on =
        dev.on
      BY <1>a, <1>b, CommandEffect
    <3>2. QED
      BY <2>2, <3>1, SentEffect, NotSentEffect DEF RxAsk
  <2>3. CASE RxCompare
    BY <1>a, <2>3, ReceivedEffect, NotReceivedEffect DEF RxCompare
  <2>4. QED
    BY <2>1, <2>2, <2>3 DEF ReceiveTask
<1>2. av7' \in Nat /\ nvs' \in [bv1 : BOOLEAN, av7 : Nat] /\ writes' \in Nat
  BY <1>b DEF ReceiveTask, RxSet, RxAsk, RxCompare, ObjectTypes, ClientTypes
<1>3. rx' \in [pc : {"idle", "set", "ask", "compare"}, v : Nat]
  BY <1>b DEF ReceiveTask, RxSet, RxAsk, RxCompare, Rejected, ClientTypes
<1>4. ObjectTypes' /\ ClientTypes'
  BY <1>2, <1>3 DEF ReceiveTask, ObjectTypes, ClientTypes
<1>5. TaskTypes' /\ ControlTypes' /\ CallOK' /\ CountOK' /\ AskedOK'
  BY DEF ReceiveTask, CallOK, CountOK, Restarting, AskedOK
<1>6. FlagOK'
  BY <1>1 DEF ReceiveTask, FlagOK, FlagCoversSensor
<1>7. QED
  BY <1>1, <1>4, <1>5, <1>6

(* The clients' writes reach the objects and the receive task only.        *)
LEMMA ClientStep ==
  ASSUME SInv, Client
  PROVE  SInv'
<1> USE Sen54Assumption DEF SInv, Types, ControlTypes, control, driver, app,
    outside
<1>1. BusTypes' /\ ControlTypes' /\ CallOK' /\ CountOK' /\ FlagOK'
  <2>1. UNCHANGED <<bus, control, driver, app, outside>>
    BY DEF Client, WriteCommand, WriteInterval, RxRequest
  <2>2. QED
    BY <2>1
       DEF bus, BusTypes, CallOK, CountOK, Restarting, FlagOK, FlagCoversSensor
<1>2. ASSUME NEW i \in Command, NEW active \in BOOLEAN, WriteCommand(i, active)
      PROVE  TaskTypes' /\ ObjectTypes' /\ ClientTypes' /\ AskedOK'
  <2>1. i \in 1 .. 4
    BY DEF Sen54Assumption
  <2>2. TaskTypes' /\ ObjectTypes'
    BY <1>2, <2>1 DEF WriteCommand, TaskTypes, ObjectTypes
  <2>3. nvs' \in [bv1 : BOOLEAN, av7 : Nat] /\ asked' \in BOOLEAN
    BY <1>2 DEF WriteCommand, ClientTypes
  <2>4. ClientTypes'
    <3>1. writes' \in Nat /\ UNCHANGED <<rx, suffered, faults, reboots>>
      BY <1>2 DEF WriteCommand, ClientTypes
    <3>2. QED
      BY <2>3, <3>1 DEF ClientTypes
  <2>5. AskedOK'
    BY <1>2, <2>1 DEF WriteCommand, ObjectTypes, AskedOK
  <2>6. QED
    BY <2>2, <2>4, <2>5
<1>3. ASSUME NEW v \in Interval, WriteInterval(v)
      PROVE  TaskTypes' /\ ObjectTypes' /\ ClientTypes' /\ AskedOK'
  <2>1. v \in Nat
    BY DEF Sen54Assumption
  <2>2. QED
    BY <1>3, <2>1
       DEF WriteInterval, RxRequest, TaskTypes, ObjectTypes, ClientTypes,
                      AskedOK
<1>4. QED
  BY <1>1, <1>2, <1>3 DEF Client

(* A restart begins with every function left and no failure counted.       *)
LEMMA RebootStep ==
  ASSUME SInv, Reboot
  PROVE  SInv'
<1> USE Sen54Assumption DEF SInv, Types
<1>1. BusTypes'
  <2>1. WasReset(dev) \in Devices
    BY CommandEffect DEF BusTypes, Sen54Assumption
  <2>2. QED
    BY <2>1 DEF Reboot, BusTypes
<1>2. ControlTypes' /\ TaskTypes' /\ CallOK' /\ CountOK'
  <2>1. TaskTypes'
    <3>1. i2c_ready' \in BOOLEAN /\ measurement_enabled' \in BOOLEAN
      BY DEF Reboot, StartsWith
    <3>2. pollDue' \in BOOLEAN /\ startDue' \in BOOLEAN
      BY DEF Reboot, StartsWith
    <3>3. consecutive_failures' \in 0 .. 5 /\ word' \in Nat
      BY DEF Reboot, StartsWith
    <3>4. QED
      BY <3>1, <3>2, <3>3 DEF Reboot, StartsWith, TaskTypes
  <2>2. ControlTypes' /\ CallOK'
    BY DEF Reboot, StartsWith, ControlTypes, Labels, CallOK, Inside, InRead
  <2>3. CountOK'
    BY DEF Reboot, StartsWith, CountOK
  <2>4. QED
    BY <2>1, <2>2, <2>3
<1>3. ObjectTypes'
  BY DEF Reboot, StartsWith, ObjectTypes, ClientTypes
<1>4. ClientTypes'
  BY DEF Reboot, StartsWith, ClientTypes
<1>5. FlagOK' /\ AskedOK'
  <2>1. reboots \in Nat /\ reboots < MaxReboots
    BY DEF Reboot, ClientTypes
  <2>2. MaxReboots # 0
    BY <2>1
  <2>3. QED
    BY <2>2 DEF FlagOK, AskedOK
<1>6. QED
  BY <1>1, <1>2, <1>3, <1>4, <1>5

(* A fault of the sensor changes what it reports, not whether it measures. *)
LEMMA FaultStep ==
  ASSUME SInv, NEW f \in Fault, SensorFault(f)
  PROVE  SInv'
<1> USE Sen54Assumption DEF SInv, Types, SensorFault
<1>1. f \in Nat
  BY DEF Sen54Assumption
<1>2. BusTypes' /\ dev'.on = dev.on
  BY <1>1 DEF BusTypes, Devices
<1>3. ControlTypes' /\ TaskTypes' /\ ObjectTypes' /\ CallOK' /\ CountOK' /\
    AskedOK'
  BY DEF control, driver, app, objects, clients, ControlTypes, TaskTypes,
         ObjectTypes, CallOK, CountOK, Restarting, AskedOK
<1>4. ClientTypes'
  BY DEF clients, ClientTypes, Errors
<1>5. FlagOK'
  BY <1>2 DEF control, driver, FlagOK, FlagCoversSensor
<1>6. QED
  BY <1>2, <1>3, <1>4, <1>5

(* The clocks only make the polls and the starts due.                      *)
LEMMA TimerStep ==
  ASSUME SInv, PollTimer \/ StartTimer
  PROVE  SInv'
<1> USE DEF PollTimer, StartTimer, SInv, Types, driver, control, objects,
    clients, outside
<1>1. BusTypes' /\ ControlTypes' /\ ObjectTypes' /\ ClientTypes'
  BY DEF bus, BusTypes, ControlTypes, ObjectTypes, ClientTypes
<1>2. TaskTypes'
  BY DEF TaskTypes
<1>3. CallOK' /\ CountOK' /\ AskedOK'
  BY DEF CallOK, CountOK, Restarting, AskedOK
<1>4. FlagOK'
  BY DEF bus, FlagOK, FlagCoversSensor
<1>5. QED
  BY <1>1, <1>2, <1>3, <1>4
-----------------------------------------------------------------------------
LEMMA InitSInv == Init => SInv
<1> SUFFICES ASSUME Init PROVE SInv
  OBVIOUS
<1> USE Sen54Assumption DEF Init
<1>1. Types
  <2>1. BusTypes
    BY DEF BusTypes, Devices, Sen54Assumption
  <2>2. ControlTypes /\ ClientTypes
    BY DEF ControlTypes, Labels, ClientTypes
  <2>3. TaskTypes
    <3>1. consecutive_failures \in 0 .. 5 /\ word \in Nat
      OBVIOUS
    <3>2. QED
      BY <3>1 DEF TaskTypes
  <2>4. ObjectTypes
    BY DEF ObjectTypes
  <2>5. QED
    BY <2>1, <2>2, <2>3, <2>4 DEF Types
<1>2. CallOK /\ CountOK /\ FlagOK /\ AskedOK
  <2>1. CallOK
    BY DEF CallOK, Inside, InRead
  <2>2. CountOK
    BY DEF CountOK
  <2>3. FlagOK
    BY DEF FlagOK, FlagCoversSensor, InRead
  <2>4. AskedOK
    <3>1. bv[1] = FALSE
      <4>1. 1 \in 1 .. 4 /\ (1 = 2) = FALSE
        OBVIOUS
      <4>2. bv[1] = (1 = 2)
        BY <4>1, Zenon
      <4>3. QED
        BY <4>1, <4>2
    <3>2. QED
      BY <3>1 DEF AskedOK
  <2>5. QED
    BY <2>1, <2>2, <2>3, <2>4
<1>3. QED
  BY <1>1, <1>2 DEF SInv

LEMMA NextSInv == SInv /\ [Next]_vars => SInv'
<1> SUFFICES ASSUME SInv, [Next]_vars PROVE SInv'
  OBVIOUS
<1>1. CASE UNCHANGED vars
  BY <1>1 DEF SInv, Types, vars, bus, driver, app, control, objects, clients,
       outside, BusTypes, ControlTypes, TaskTypes, ObjectTypes, ClientTypes,
           CallOK,
       CountOK, Restarting, FlagOK, FlagCoversSensor, AskedOK
<1>2. CASE Next
  BY <1>2, TaskStep, ReceiveTaskStep, ClientStep, RebootStep, FaultStep,
      TimerStep
     DEF Next
<1>3. QED
  BY <1>1, <1>2

LEMMA SInvAlways == Spec => []SInv
BY InitSInv, NextSInv, PTL DEF Spec
-----------------------------------------------------------------------------
(* The variables keep their types, a call is never more than one function  *)
(* deep, and the counter of failures in a row never passes five, however   *)
(* many transfers fail and whenever (sen54_app.c:297).                     *)
THEOREM Sen54TypeCorrect == Spec => []TypeOK
<1>1. SInv => TypeOK
  <2> SUFFICES ASSUME SInv PROVE TypeOK
    OBVIOUS
  <2>1. stack \in Seq(Labels) /\ Len(stack) <= 1
    <3>1. CASE pc \in Inside
      <4>1. PICK b \in Back : stack = <<b>>
        BY <3>1 DEF SInv, CallOK
      <4>2. b \in Labels
        BY DEF Back, Labels
      <4>3. QED
        BY <4>1, <4>2
    <3>2. CASE pc \notin Inside
      BY <3>2 DEF SInv, CallOK
    <3>3. QED
      BY <3>1, <3>2
  <2>2. QED
    BY <2>1 DEF SInv, Types, BusTypes, ControlTypes, TaskTypes, ObjectTypes,
                ClientTypes, Devices, TypeOK
<1>2. QED
  BY <1>1, SInvAlways, PTL

(* Without late errors and without a restart the sensor measures only if   *)
(* measurement_enabled is set, so a write of BV2 can always stop it: the   *)
(* flag is cleared after a stop that arrived only (sen54_app.c:250).       *)
THEOREM SensorFlagged ==
  ASSUME ~LateErrors, MaxReboots = 0
  PROVE  Spec => []FlagCoversSensor
<1>1. SInv => FlagCoversSensor
  BY DEF SInv, FlagOK
<1>2. QED
  BY <1>1, SInvAlways, PTL

(* Without a restart the task resets the sensor only when a client asked   *)
(* for it since the last reset (sen54_app.c:221-228).                      *)
THEOREM ResetsAsked ==
  ASSUME MaxReboots = 0
  PROVE  Spec => ResetOnlyWhenAsked
<1>1. SInv /\ [Next]_vars => [pc # "reset" /\ pc' = "reset" => asked]_vars
  <2> SUFFICES ASSUME SInv, Next, pc # "reset", pc' = "reset"
               PROVE  asked
    OBVIOUS
  <2>1. pc = "reset?" /\ bv[1]
    <3>1. Task
      BY
         DEF Next, ReceiveTask, Client, WriteCommand, WriteInterval, RxRequest,
             Reboot,
             StartsWith, SensorFault, PollTimer, StartTimer, control
    <3>2. CASE ResetRequested
      BY <3>2 DEF ResetRequested, Goto
    <3>3. CASE \E result \in BOOLEAN : pc \in Inside /\ Return(result)
      BY <3>3, ReturnEffect DEF SInv, Back
    <3>4. QED
      BY <3>1, <3>2, <3>3
         DEF Task, TaskStart, InitBus, InitStart, PublishEnabled,
        IntervalCmd, IntervalReceive, IntervalPublish, ReadCmd, ReadRestart,
            ReadReceive,
        PollCmd, PollReceive, Loop, Polled, ResetCmd, ResetStart, ResetAck,
            ResetPolled,
        MeasureRequested, StartMeasurement, StopMeasurement, FanRequested,
            FanCmd, FanAck,
        ClearRequested, ClearCmd, ClearPolled, ClearAck, Values, PublishValues,
            Reinit,
        ReinitPolled, Sleep, Goto, Call, Inside, InRead
  <2>2. QED
    BY <2>1 DEF SInv, AskedOK
<1>2. QED
  BY <1>1, SInvAlways, PTL DEF Spec, ResetOnlyWhenAsked
-----------------------------------------------------------------------------
(* While the receive task leaves the bus alone, the reply that is fetched  *)
(* after the status command is the status or nothing.                      *)
PolledReply == pc = "poll_receive" => dev.reply \in {"status", "none"}

PhantomInv ==
  /\ rx.pc = "idle"
  /\ PolledReply
  /\ Errors(dev.status) \subseteq suffered
  /\ bi \subseteq suffered

(* What a step of the task that is not a poll does to what is shown.       *)
ShownKept ==
  /\ pc' # "poll_receive"
  /\ dev'.status = dev.status \/ dev'.status = 0
  /\ bi' = bi /\ suffered' = suffered /\ rx' = rx

LEMMA NoErrors == Errors(0) = {}
<1>1. \A i \in 1 .. 4 : (0 \div StatusBit[i]) % 2 = 0
  BY DEF StatusBit
<1>2. QED
  BY <1>1 DEF Errors

(* A command leaves the sensor's status alone or clears it.                *)
LEMMA CommandStatus ==
  ASSUME NEW d \in Devices
  PROVE  /\ Told(d).status = d.status /\ Started(d).status = d.status
         /\ Stopped(d).status = d.status
         /\ Cleared(d).status = 0 /\ WasReset(d).status = 0
         /\ \A what : Asked(d, what).status = d.status
BY DEF Devices, Told, Started, Stopped, Cleared, WasReset, Asked

LEMMA TransferStatus ==
  ASSUME dev \in Devices, LateErrors \in BOOLEAN
  PROVE  /\ \A d : Sent(d) => dev' = d
         /\ \A d : NotSent(d) => dev' = dev \/ dev' = d
         /\ NotReceived => dev'.status = dev.status
         /\ \A w : Received(w) => dev'.status = dev.status
         /\ UNCHANGED bus => dev' = dev
<1>1. \A d : NotSent(d) => dev' = dev \/ dev' = d
  BY DEF NotSent
<1>2. QED
  BY <1>1, CommandStatus DEF Sent, NotReceived, Received, bus

LEMMA QuietStep ==
  ASSUME SInv, Task, ~PollCmd, ~PollReceive
  PROVE  ShownKept
<1> USE DEF ShownKept, app, clients, driver, objects, outside
<1>a. dev \in Devices /\ LateErrors \in BOOLEAN
  BY Sen54Assumption DEF SInv, Types, BusTypes, Sen54Assumption
<1>b. \A r : pc \in Inside /\ Return(r) => pc' # "poll_receive"
  BY ReturnEffect DEF SInv, Back
<1>1. CASE TaskStart
  BY <1>1, <1>a, CommandStatus, TransferStatus
     DEF TaskStart, Goto, Call
<1>2. CASE InitBus
  BY <1>2, <1>a, CommandStatus, TransferStatus, <1>b
     DEF InitBus, Inside, InRead, Goto, Call
<1>3. CASE InitStart
  BY <1>3, <1>a, CommandStatus, TransferStatus, <1>b
     DEF InitStart, Inside, InRead, Goto, Call
<1>4. CASE PublishEnabled
  BY <1>4, <1>a, CommandStatus, TransferStatus
     DEF PublishEnabled, Goto, Call
<1>5. CASE IntervalCmd
  BY <1>5, <1>a, CommandStatus, TransferStatus
     DEF IntervalCmd, Goto, Call
<1>6. CASE IntervalReceive
  BY <1>6, <1>a, CommandStatus, TransferStatus
     DEF IntervalReceive, Goto, Call
<1>7. CASE IntervalPublish
  BY <1>7, <1>a, CommandStatus, TransferStatus
     DEF IntervalPublish, Goto, Call
<1>8. CASE ReadCmd
  <2>1. dev'.status = dev.status
    <3>1. CASE AskValues
      BY <3>1, <1>a, CommandStatus, TransferStatus DEF AskValues
    <3>2. CASE ValuesRefused
      <4>1. dev' = dev \/ dev' = Asked(dev, "values")
        BY <3>2, <1>a, TransferStatus DEF ValuesRefused
      <4>2. QED
        BY <4>1, <1>a, CommandStatus
    <3>3. QED
      BY <1>8, <3>1, <3>2 DEF ReadCmd
  <2>2. pc' # "poll_receive"
    BY <1>8, <1>b DEF ReadCmd, Goto, Inside, InRead
  <2>3. QED
    BY <1>8, <2>1, <2>2 DEF ReadCmd
<1>9. CASE ReadRestart
  BY <1>9, <1>a, CommandStatus, TransferStatus, <1>b
     DEF ReadRestart, Inside, InRead, Goto, Call
<1>10. CASE ReadReceive
  BY <1>10, <1>a, CommandStatus, TransferStatus, <1>b
     DEF ReadReceive, Inside, InRead, Goto, Call
<1>11. CASE Loop
  BY <1>11, <1>a, CommandStatus, TransferStatus
     DEF Loop, Goto, Call
<1>12. CASE Polled
  BY <1>12, <1>a, CommandStatus, TransferStatus
     DEF Polled, Goto, Call
<1>13. CASE ResetRequested
  BY <1>13, <1>a, CommandStatus, TransferStatus
     DEF ResetRequested, Goto, Call
<1>14. CASE ResetCmd
  BY <1>14, <1>a, CommandStatus, TransferStatus
     DEF ResetCmd, Goto, Call
<1>15. CASE ResetStart
  BY <1>15, <1>a, CommandStatus, TransferStatus
     DEF ResetStart, Goto, Call
<1>16. CASE ResetAck
  BY <1>16, <1>a, CommandStatus, TransferStatus
     DEF ResetAck, Goto, Call
<1>17. CASE ResetPolled
  BY <1>17, <1>a, CommandStatus, TransferStatus
     DEF ResetPolled, Goto, Call
<1>18. CASE MeasureRequested
  BY <1>18, <1>a, CommandStatus, TransferStatus
     DEF MeasureRequested, Goto, Call
<1>19. CASE StartMeasurement
  BY <1>19, <1>a, CommandStatus, TransferStatus
     DEF StartMeasurement, Goto, Call
<1>20. CASE StopMeasurement
  BY <1>20, <1>a, CommandStatus, TransferStatus
     DEF StopMeasurement, Goto, Call
<1>21. CASE FanRequested
  BY <1>21, <1>a, CommandStatus, TransferStatus
     DEF FanRequested, Goto, Call
<1>22. CASE FanCmd
  BY <1>22, <1>a, CommandStatus, TransferStatus
     DEF FanCmd, Goto, Call
<1>23. CASE FanAck
  BY <1>23, <1>a, CommandStatus, TransferStatus
     DEF FanAck, Goto, Call
<1>24. CASE ClearRequested
  BY <1>24, <1>a, CommandStatus, TransferStatus
     DEF ClearRequested, Goto, Call
<1>25. CASE ClearCmd
  BY <1>25, <1>a, CommandStatus, TransferStatus
     DEF ClearCmd, Goto, Call
<1>26. CASE ClearPolled
  BY <1>26, <1>a, CommandStatus, TransferStatus
     DEF ClearPolled, Goto, Call
<1>27. CASE ClearAck
  BY <1>27, <1>a, CommandStatus, TransferStatus
     DEF ClearAck, Goto, Call
<1>28. CASE Values
  BY <1>28, <1>a, CommandStatus, TransferStatus
     DEF Values, Goto, Call
<1>29. CASE PublishValues
  BY <1>29, <1>a, CommandStatus, TransferStatus
     DEF PublishValues, Goto, Call
<1>30. CASE Reinit
  BY <1>30, <1>a, CommandStatus, TransferStatus
     DEF Reinit, Goto, Call
<1>31. CASE ReinitPolled
  BY <1>31, <1>a, CommandStatus, TransferStatus
     DEF ReinitPolled, Goto, Call
<1>32. CASE Sleep
  BY <1>32, <1>a, CommandStatus, TransferStatus
     DEF Sleep, Goto, Call
<1>33. QED
  BY <1>1, <1>2, <1>3, <1>4, <1>5, <1>6, <1>7, <1>8, <1>9, <1>10, <1>11,
     <1>12, <1>13, <1>14, <1>15, <1>16, <1>17, <1>18, <1>19, <1>20, <1>21,
     <1>22, <1>23, <1>24, <1>25, <1>26, <1>27, <1>28, <1>29, <1>30, <1>31,
     <1>32 DEF Task

LEMMA PollStep ==
  ASSUME SInv, PhantomInv, PollCmd \/ PollReceive
  PROVE  PhantomInv'
<1> USE DEF app, clients, driver, objects, outside
<1>a. dev \in Devices /\ LateErrors \in BOOLEAN
  BY Sen54Assumption DEF SInv, Types, BusTypes, Sen54Assumption
<1>b. \A r : pc \in Inside /\ Return(r) => pc' # "poll_receive"
  BY ReturnEffect DEF SInv, Back
<1>1. CASE PollCmd
  <2>1. dev'.status = dev.status
    <3>1. dev' = dev \/ dev' = Asked(dev, "status")
      BY <1>1, <1>a, TransferStatus DEF PollCmd
    <3>2. QED
      BY <3>1, <1>a, CommandStatus
  <2>2. PolledReply'
    <3>1. CASE Sent(Asked(dev, "status"))
      <4>1. Asked(dev, "status").reply = "status"
        BY <1>a DEF Asked, Devices
      <4>2. QED
        BY <3>1, <4>1, <1>a, TransferStatus DEF PolledReply
    <3>2. CASE ~Sent(Asked(dev, "status"))
      BY <1>1, <3>2, <1>b DEF PollCmd, PolledReply, Inside
    <3>3. QED
      BY <3>1, <3>2
  <2>3. UNCHANGED <<rx, bi, suffered>>
    BY <1>1 DEF PollCmd
  <2>4. QED
    BY <2>1, <2>2, <2>3 DEF PhantomInv
<1>2. CASE PollReceive
  <2>1. dev'.status = dev.status
    BY <1>2, <1>a, TransferStatus DEF PollReceive
  <2>2. PolledReply'
    BY <1>2, <1>b DEF PollReceive, PolledReply, Inside
  <2>3. bi' \subseteq suffered
    <3>1. \A w \in ReplyWords(dev) : w = dev.status
      BY <1>2 DEF PollReceive, PhantomInv, PolledReply, ReplyWords
    <3>2. bi' = bi \/ bi' = Errors(dev.status)
      BY <1>2, <3>1 DEF PollReceive, PublishStatus
    <3>3. QED
      BY <3>2 DEF PhantomInv
  <2>4. UNCHANGED <<rx, suffered>>
    BY <1>2 DEF PollReceive
  <2>5. QED
    BY <2>1, <2>2, <2>3, <2>4 DEF PhantomInv
<1>3. QED
  BY <1>1, <1>2

(* Whoever else acts between the command of a poll and its reply.          *)
LEMMA OthersStep ==
  ASSUME Interval = {}, SInv, PhantomInv, Next, ~Task
  PROVE  PhantomInv'
<1> USE DEF driver, control, objects, clients, outside, bus, app
<1>a. dev \in Devices
  BY DEF SInv, Types, BusTypes
<1>1. CASE ReceiveTask
  BY <1>1 DEF PhantomInv, ReceiveTask, RxSet, RxAsk, RxCompare, Rejected
<1>2. CASE Client
  BY <1>2 DEF PhantomInv, PolledReply, Client, WriteCommand
<1>3. CASE PollTimer \/ StartTimer
  BY <1>3 DEF PhantomInv, PolledReply, PollTimer, StartTimer
<1>4. CASE Reboot
  <2>1. dev'.status = dev.status \/ dev'.status = 0
    BY <1>4, CommandStatus DEF Reboot, SInv, Types, BusTypes
  <2>2. Errors(dev'.status) \subseteq suffered
    BY <2>1, NoErrors DEF PhantomInv
  <2>3. QED
    BY <1>4, <2>2 DEF PhantomInv, PolledReply, Reboot, StartsWith
<1>5. ASSUME NEW f \in Fault, SensorFault(f) PROVE PhantomInv'
  <2>1. dev'.status = f /\ dev'.reply = dev.reply
    BY <1>5 DEF SensorFault, SInv, Types, BusTypes, Devices
  <2>2. QED
    BY <1>5, <2>1 DEF PhantomInv, PolledReply, SensorFault
<1>6. QED
  BY <1>1, <1>2, <1>3, <1>4, <1>5 DEF Next

LEMMA NextPhantomInv ==
  ASSUME Interval = {}
  PROVE  SInv /\ PhantomInv /\ [Next]_vars => PhantomInv'
<1> SUFFICES ASSUME SInv, PhantomInv, [Next]_vars PROVE PhantomInv'
  OBVIOUS
<1>1. CASE UNCHANGED vars
  BY <1>1 DEF vars, bus, control, objects, clients, outside, PhantomInv,
       PolledReply
<1>2. CASE PollCmd \/ PollReceive
  BY <1>2, PollStep
<1>3. CASE Task /\ ~PollCmd /\ ~PollReceive
  <2>1. ShownKept
    BY <1>3, QuietStep
  <2>2. QED
    BY <2>1, NoErrors DEF ShownKept, PhantomInv, PolledReply
<1>4. CASE Next /\ ~Task
  BY <1>4, OthersStep
<1>5. QED
  BY <1>1, <1>2, <1>3, <1>4 DEF Next

(* As long as nobody writes the cleaning interval, a BI is active only for *)
(* an error the sensor has had: commands that fail, come late or are cut   *)
(* off by a restart do not make the poll take another reply for a status.  *)
THEOREM NoPhantom ==
  ASSUME Interval = {}
  PROVE  Spec => []NoPhantomError
<1>1. Init => PhantomInv
  BY NoErrors DEF Init, PhantomInv, PolledReply
<1>2. PhantomInv => NoPhantomError
  BY DEF PhantomInv, NoPhantomError
<1>3. QED
  BY <1>1, <1>2, SInvAlways, NextPhantomInv, PTL DEF Spec
-----------------------------------------------------------------------------
(* What the receive task compares is an interval a client asked for, and   *)
(* the status is one of the words the sensor may report.                   *)
CompareInv ==
  /\ rx.pc # "idle" => rx.v \in Interval
  /\ dev.status \in Fault \cup {0}

LEMMA NextCompareInv == SInv /\ CompareInv /\ [Next]_vars => CompareInv'
<1> SUFFICES ASSUME SInv, CompareInv, [Next]_vars PROVE CompareInv'
  OBVIOUS
<1> USE DEF bus, driver, control, app, objects, clients, outside
<1>a. dev \in Devices /\ LateErrors \in BOOLEAN
  BY Sen54Assumption DEF SInv, Types, BusTypes, Sen54Assumption
<1>b. rx \in [pc : {"idle", "set", "ask", "compare"}, v : Nat]
  BY DEF SInv, Types, ClientTypes
<1>1. CASE UNCHANGED vars
  BY <1>1 DEF vars, CompareInv
<1>2. CASE PollCmd \/ PollReceive
  <2>1. CASE PollCmd
    <3>1. dev' = dev \/ dev' = Asked(dev, "status")
      BY <1>a, <2>1, TransferStatus DEF PollCmd
    <3>2. dev'.status = dev.status
      BY <1>a, <3>1, CommandStatus
    <3>3. QED
      BY <2>1, <3>2 DEF PollCmd, CompareInv
  <2>2. CASE PollReceive
    BY <1>a, <2>2, TransferStatus DEF PollReceive, CompareInv
  <2>3. QED
    BY <1>2, <2>1, <2>2
<1>3. CASE Task /\ ~PollCmd /\ ~PollReceive
  BY <1>3, QuietStep DEF ShownKept, CompareInv
<1>4. CASE ReceiveTask
  <2>1. dev'.status = dev.status
    <3>1. CASE RxSet
      <4>1. [Told(dev) EXCEPT !.interval = rx.v].status = dev.status
        BY <1>a DEF Told, Devices
      <4>2. QED
        BY <1>a, <3>1, <4>1, TransferStatus DEF RxSet
    <3>2. CASE RxAsk
      <4>1. dev' = dev \/ dev' = Asked(dev, "interval")
        BY <1>a, <3>2, TransferStatus DEF RxAsk
      <4>2. QED
        BY <1>a, <4>1, CommandStatus
    <3>3. CASE RxCompare
      BY <1>a, <3>3, TransferStatus DEF RxCompare
    <3>4. QED
      BY <1>4, <3>1, <3>2, <3>3 DEF ReceiveTask
  <2>2. rx'.pc # "idle" => rx.pc # "idle" /\ rx'.v = rx.v
    BY <1>4, <1>b DEF ReceiveTask, RxSet, RxAsk, RxCompare, Rejected
  <2>3. QED
    BY <2>1, <2>2 DEF CompareInv
<1>5. CASE Client
  <2>1. dev' = dev
    BY <1>5 DEF Client, WriteCommand, WriteInterval, RxRequest
  <2>2. rx' = rx \/ \E v \in Interval : rx' = [pc |-> "set", v |-> v]
    BY <1>5 DEF Client, WriteCommand, WriteInterval, RxRequest
  <2>3. QED
    BY <2>1, <2>2 DEF CompareInv
<1>6. CASE PollTimer \/ StartTimer
  BY <1>6 DEF PollTimer, StartTimer, CompareInv
<1>7. CASE Reboot
  <2>1. dev'.status = dev.status \/ dev'.status = 0
    BY <1>7, <1>a, CommandStatus DEF Reboot
  <2>2. QED
    BY <1>7, <2>1 DEF Reboot, StartsWith, CompareInv
<1>8. ASSUME NEW f \in Fault, SensorFault(f) PROVE CompareInv'
  <2>1. dev'.status = f
    BY <1>8, <1>a DEF SensorFault, Devices
  <2>2. QED
    BY <1>8, <2>1 DEF SensorFault, CompareInv
<1>9. QED
  BY <1>1, <1>2, <1>3, <1>4, <1>5, <1>6, <1>7, <1>8 DEF Next

(* If no status and no measured value can be taken for an interval that    *)
(* clients ask for, a write that is accepted has left the sensor with it,  *)
(* whatever the task sent between the write and the comparison.            *)
THEOREM IntervalAccepted ==
  ASSUME Interval \cap (Measured \cup Fault \cup {0}) = {}
  PROVE  Spec => AcceptedIntervalSet
<1>1. Init => CompareInv
  BY DEF Init, CompareInv
<1>2. SInv /\ CompareInv /\ [Next]_vars
        => [nvs'.av7 # nvs.av7 => dev'.interval = nvs'.av7]_vars
  <2> SUFFICES ASSUME SInv, CompareInv, Next, nvs'.av7 # nvs.av7
               PROVE  dev'.interval = nvs'.av7
    OBVIOUS
  <2>a. dev \in Devices /\ nvs \in [bv1 : BOOLEAN, av7 : Nat]
    BY DEF SInv, Types, BusTypes, ClientTypes
  <2>1. RxCompare
    <3>1. CASE Task
      <4>1. nvs' = nvs
        BY <3>1
           DEF Task, TaskStart, InitBus, InitStart, PublishEnabled,
        IntervalCmd, IntervalReceive, IntervalPublish, ReadCmd, ReadRestart,
        ReadReceive, PollCmd, PollReceive, Loop, Polled, ResetRequested,
        ResetCmd, ResetStart, ResetAck, ResetPolled, MeasureRequested,
        StartMeasurement, StopMeasurement, FanRequested, FanCmd, FanAck,
        ClearRequested, ClearCmd, ClearPolled, ClearAck, Values, PublishValues,
        Reinit, ReinitPolled, Sleep, clients
      <4>2. QED
        BY <4>1
    <3>2. CASE Client
      BY <2>a, <3>2 DEF Client, WriteCommand, WriteInterval, RxRequest
    <3>3. CASE ReceiveTask
      BY <3>3 DEF ReceiveTask, RxSet, RxAsk
    <3>4. QED
      BY <3>1, <3>2, <3>3
         DEF Next, PollTimer, StartTimer, Reboot, SensorFault, clients
  <2>2. PICK w \in ReplyWords(dev) :
          Received(w) /\ Accepted(w) /\ nvs' = [nvs EXCEPT !.av7 = rx.v]
    BY <2>1 DEF RxCompare
  <2>3. rx.v \in Interval /\ w = rx.v
    BY <2>1, <2>2 DEF RxCompare, Rejected, Accepted, CompareInv
  <2>4. w = dev.interval
    BY <2>2, <2>3 DEF ReplyWords, CompareInv
  <2>5. dev'.interval = dev.interval
    BY <2>a, <2>2 DEF Received, Sent, Told, Devices
  <2>6. QED
    BY <2>a, <2>2, <2>3, <2>4, <2>5
<1>3. QED
  BY <1>1, <1>2, NextCompareInv, SInvAlways, PTL
     DEF Spec, AcceptedIntervalSet
=============================================================================
