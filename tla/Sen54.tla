------------------------------- MODULE Sen54 -------------------------------
(***************************************************************************)
(* The SEN54 task (sensors/sen54_app.c) and the driver it calls            *)
(* (sen54/sen54.c), with the sensor at the other end of the I2C bus, the   *)
(* clients that write the command objects BV1 to BV4, and the receive task *)
(* that carries out a write of AV7 on the same bus.  A step is one I2C     *)
(* transfer or one access to the objects: the two tasks share no lock, and *)
(* the delays between the transfers let any other step in.                 *)
(***************************************************************************)
EXTENDS Integers, Sequences

CONSTANTS
  Command,          \* the command objects that clients write
  Interval,         \* automatic cleaning intervals clients ask for (seconds)
  FactoryInterval,  \* the interval the sensor holds before anyone sets it
  Fault,            \* status words the sensor may come to report
  Measured,         \* the first two words of a reply with measured values
  ResetKeepsInterval, \* does the interval survive a reset of the sensor?
  LateErrors,       \* can a transfer reported as failed have been received?
  MaxWrites,        \* bound on the writes of clients
  MaxFails,         \* bound on the transfers that fail
  MaxFaults,        \* bound on the faults of the sensor
  MaxReboots        \* bound on the restarts of the device

NoStatus == -1      \* status_valid is false

ASSUME Sen54Assumption ==
  /\ Command \subseteq 1 .. 4
  /\ Interval \subseteq Nat \ {0}
  /\ FactoryInterval \in Nat
  /\ Fault \subseteq Nat
  /\ Measured \subseteq Nat
  /\ ResetKeepsInterval \in BOOLEAN
  /\ LateErrors \in BOOLEAN
  /\ {MaxWrites, MaxFails, MaxFaults, MaxReboots} \subseteq Nat

VARIABLES
  dev,       \* the sensor: measuring?, device status, interval, pending reply
  i2c_ready, measurement_enabled,                       \* sen54.c
  consecutive_failures, last_status, pollDue, startDue, \* sen54_app.c
  pc, stack, ok, word,  \* where the task is, its callers, what a call returned
  bv, bi, reading, av7, \* BV1..BV4 active?, active BIs, are AV1..AV6 not -1?
  rx,        \* the receive task's write of AV7
  nvs,       \* what is stored of BV1 and AV7
  asked,     \* has a client asked for a reset that is yet to begin?
  suffered,  \* the errors the sensor has ever had
  writes, fails, faults, reboots

control == <<pc, stack, ok>>
driver == <<i2c_ready, measurement_enabled>>
app == <<consecutive_failures, last_status, pollDue, startDue, word>>
objects == <<bv, bi, reading, av7>>
clients == <<rx, nvs, asked, writes>>
outside == <<suffered, faults, reboots>>
bus == <<dev, fails>>
vars == <<bus, driver, app, control, objects, clients, outside>>

(* What the binary inputs make of a status word: the bits of               *)
(* SEN54_STATUS_*_ERROR_BIT, by the instance of the BI each one drives.    *)
StatusBit == <<16, 32, 128, 64>>
Errors(status) == {i \in 1 .. 4 : (status \div StatusBit[i]) % 2 = 1}

-----------------------------------------------------------------------------
(* The sensor.  It answers a read with the reply to the last command, once,*)
(* and refuses to report values while it does not measure.                 *)
Told(d) == [d EXCEPT !.reply = "none"]
Started(d) == [Told(d) EXCEPT !.on = TRUE]
Stopped(d) == [Told(d) EXCEPT !.on = FALSE]
Cleared(d) == [Told(d) EXCEPT !.status = 0]
WasReset(d) ==
  [Cleared(d) EXCEPT !.on = FALSE,
                     !.interval = IF ResetKeepsInterval THEN @ ELSE FactoryInterval]
Asked(d, what) == [d EXCEPT !.reply = what]

ReplyWords(d) ==
  CASE d.reply = "status" -> {d.status}
    [] d.reply = "interval" -> {d.interval}
    [] d.reply = "values" -> Measured
    [] OTHER -> {}

(* i2c_master_transmit: the command that turns the sensor into d arrives,  *)
(* or the transfer fails.                                                  *)
Sent(d) == dev' = d /\ UNCHANGED fails

NotSent(d) ==
  /\ fails < MaxFails
  /\ fails' = fails + 1
  /\ dev' \in {dev} \cup (IF LateErrors THEN {d} ELSE {})

(* i2c_master_receive of six bytes and the check of their CRCs.            *)
Received(w) == w \in ReplyWords(dev) /\ Sent(Told(dev))

NotReceived ==
  \/ dev.reply = "none" /\ UNCHANGED bus
  \/ fails < MaxFails /\ fails' = fails + 1 /\ dev' \in {dev, Told(dev)}

-----------------------------------------------------------------------------
(* How the task moves: to a label, into a function, back to its caller.    *)
Goto(l) == pc' = l /\ UNCHANGED <<stack, ok>>
Call(l, back) == pc' = l /\ stack' = <<back>> \o stack /\ UNCHANGED ok
Return(result) ==
  /\ ok' = result
  /\ pc' = Head(stack)
  /\ stack' = Tail(stack)

(* sen54_init: the bus is made once; the twenty attempts to start are one  *)
(* choice of how they end.                                                 *)
InitBus ==
  /\ pc = "sen54_init"
  /\ \/ i2c_ready /\ Goto("init_start") /\ UNCHANGED <<i2c_ready, bus>>
     \/ ~i2c_ready /\ i2c_ready' = TRUE /\ Goto("init_start") /\ UNCHANGED bus
     \/ ~i2c_ready /\ NotSent(dev) /\ Return(FALSE) /\ UNCHANGED i2c_ready
  /\ UNCHANGED <<measurement_enabled, app, objects, clients, outside>>

InitStart ==
  /\ pc = "init_start"
  /\ \/ Sent(Started(dev)) /\ measurement_enabled' = TRUE
        /\ pc' = "sen54_read" /\ UNCHANGED <<stack, ok>>
     \/ NotSent(Started(dev)) /\ Return(FALSE) /\ UNCHANGED measurement_enabled
  /\ UNCHANGED <<i2c_ready, app, objects, clients, outside>>

(* sen54_read: a refused command restarts the measurement and is repeated  *)
(* once.                                                                   *)
AskValues ==
  dev.on /\ Sent(Asked(dev, "values"))

ValuesRefused ==
  \/ ~dev.on /\ UNCHANGED bus
  \/ NotSent(Asked(dev, "values"))

ReadCmd ==
  /\ \/ pc = "sen54_read" /\ AskValues /\ Goto("read_receive")
     \/ pc = "sen54_read" /\ ValuesRefused /\ Goto("read_restart")
     \/ pc = "read_again" /\ AskValues /\ Goto("read_receive")
     \/ pc = "read_again" /\ ValuesRefused /\ Return(FALSE)
  /\ UNCHANGED <<driver, app, objects, clients, outside>>

ReadRestart ==
  /\ pc = "read_restart"
  /\ \/ Sent(Started(dev)) /\ Goto("read_again")
     \/ NotSent(Started(dev)) /\ Return(FALSE)
  /\ UNCHANGED <<driver, app, objects, clients, outside>>

(* Eight words are expected; a reply of two fails the CRC of the third.    *)
ReadReceive ==
  /\ pc = "read_receive"
  /\ \/ dev.reply = "values" /\ Sent(Told(dev)) /\ Return(TRUE)
     \/ dev.reply # "values" /\ Sent(Told(dev)) /\ Return(FALSE)
     \/ NotReceived /\ Return(FALSE)
  /\ UNCHANGED <<driver, app, objects, clients, outside>>

(* Variant: the result of the command is not looked at.                    *)
PollCmd_Unchecked ==
  /\ pc = "poll"
  /\ \/ i2c_ready /\ (Sent(Asked(dev, "status")) \/ NotSent(Asked(dev, "status")))
        /\ Goto("poll_receive")
     \/ ~i2c_ready /\ Return(FALSE) /\ UNCHANGED bus
  /\ UNCHANGED <<driver, app, objects, clients, outside>>

(* sen54_poll_and_publish_status, with sen54_read_device_status.           *)
PollCmd ==
  /\ pc = "poll"
  /\ \/ i2c_ready /\ Sent(Asked(dev, "status")) /\ Goto("poll_receive")
     \/ i2c_ready /\ NotSent(Asked(dev, "status")) /\ Return(FALSE)
     \/ ~i2c_ready /\ Return(FALSE) /\ UNCHANGED bus
  /\ UNCHANGED <<driver, app, objects, clients, outside>>

(* Variant: only the first status is published.                            *)
PublishStatus_Once(status) ==
  /\ last_status' = status
  /\ bi' = IF last_status = NoStatus THEN Errors(status) ELSE bi

PublishStatus(status) ==
  /\ last_status' = status
  /\ bi' = IF status # last_status THEN Errors(status) ELSE bi

PollReceive ==
  /\ pc = "poll_receive"
  /\ \/ \E w \in ReplyWords(dev) :
          Received(w) /\ PublishStatus(w) /\ Return(TRUE)
     \/ NotReceived /\ Return(FALSE) /\ UNCHANGED <<last_status, bi>>
  /\ UNCHANGED <<driver, consecutive_failures, pollDue, startDue, word, bv,
                 reading, av7, clients, outside>>

-----------------------------------------------------------------------------
(* sen54_task up to its loop.                                              *)
TaskStart ==
  /\ pc = "start"
  /\ Call("sen54_init", "publish_enabled")
  /\ UNCHANGED <<bus, driver, app, objects, clients, outside>>

PublishEnabled ==
  /\ pc = "publish_enabled"
  /\ bv' = [bv EXCEPT ![2] = measurement_enabled \/ @, ![3] = FALSE, ![4] = FALSE]
  /\ Goto("interval")
  /\ UNCHANGED <<bus, driver, app, bi, reading, av7, clients, outside>>

(* sen54_init_auto_cleaning_interval.                                      *)
IntervalCmd ==
  /\ pc = "interval"
  /\ \/ i2c_ready /\ Sent(Asked(dev, "interval")) /\ Goto("interval_receive")
     \/ i2c_ready /\ NotSent(Asked(dev, "interval")) /\ Call("poll", "boot_polled")
     \/ ~i2c_ready /\ Call("poll", "boot_polled") /\ UNCHANGED bus
  /\ UNCHANGED <<driver, app, objects, clients, outside>>

IntervalReceive ==
  /\ pc = "interval_receive"
  /\ \/ \E w \in ReplyWords(dev) :
          Received(w) /\ word' = w /\ Goto("interval_publish")
     \/ NotReceived /\ Call("poll", "boot_polled") /\ UNCHANGED word
  /\ UNCHANGED <<driver, consecutive_failures, last_status, pollDue, startDue,
                 objects, clients, outside>>

IntervalPublish ==
  /\ pc = "interval_publish"
  /\ av7' = word
  /\ Call("poll", "boot_polled")
  /\ UNCHANGED <<bus, driver, app, bv, bi, reading, clients, outside>>

-----------------------------------------------------------------------------
(* The loop of sen54_task.                                                 *)
Loop ==
  /\ pc = "loop"
  /\ IF pollDue THEN Call("poll", "polled") ELSE Goto("reset?")
  /\ UNCHANGED <<bus, driver, app, objects, clients, outside>>

(* last_status_poll is set after the first poll and the periodic ones,     *)
(* whatever they returned.                                                 *)
Polled ==
  /\ \/ pc = "polled" /\ Goto("reset?")
     \/ pc = "boot_polled" /\ Goto("sleep")
  /\ pollDue' = FALSE
  /\ UNCHANGED <<bus, driver, consecutive_failures, last_status, startDue, word,
                 objects, clients, outside>>

ResetRequested ==
  /\ pc = "reset?"
  /\ IF bv[1] THEN Goto("reset") ELSE Goto("measure?")
  /\ UNCHANGED <<bus, driver, app, objects, clients, outside>>

(* Variant: a reset that could not be sent is not acknowledged.            *)
ResetCmd_NoAck ==
  /\ pc = "reset"
  /\ asked' = FALSE
  /\ \/ i2c_ready /\ Sent(WasReset(dev)) /\ Goto("reset_start")
     \/ i2c_ready /\ NotSent(WasReset(dev)) /\ Goto("loop")
     \/ ~i2c_ready /\ Goto("loop") /\ UNCHANGED bus
  /\ UNCHANGED <<driver, app, objects, rx, nvs, writes, outside>>

(* sen54_full_reset: the reset, and 1.2 s later the restart.               *)
ResetCmd ==
  /\ pc = "reset"
  /\ asked' = FALSE
  /\ \/ i2c_ready /\ Sent(WasReset(dev)) /\ Goto("reset_start")
     \/ i2c_ready /\ NotSent(WasReset(dev)) /\ Goto("reset_ack")
     \/ ~i2c_ready /\ Goto("reset_ack") /\ UNCHANGED bus
  /\ UNCHANGED <<driver, app, objects, rx, nvs, writes, outside>>

ResetStart ==
  /\ pc = "reset_start"
  /\ \/ Sent(Started(dev)) /\ measurement_enabled' = TRUE
     \/ NotSent(Started(dev)) /\ UNCHANGED measurement_enabled
  /\ Goto("reset_ack")
  /\ UNCHANGED <<i2c_ready, app, objects, clients, outside>>

(* Variant: the command stays active.                                      *)
ResetAck_KeepsCommand ==
  /\ pc = "reset_ack"
  /\ bv' = [bv EXCEPT ![2] = measurement_enabled]
  /\ Call("poll", "reset_polled")
  /\ UNCHANGED <<bus, driver, app, bi, reading, av7, clients, outside>>

ResetAck ==
  /\ pc = "reset_ack"
  /\ bv' = [bv EXCEPT ![1] = FALSE, ![2] = measurement_enabled]
  /\ Call("poll", "reset_polled")
  /\ UNCHANGED <<bus, driver, app, bi, reading, av7, clients, outside>>

ResetPolled ==
  /\ pc = "reset_polled"
  /\ pollDue' = (pollDue /\ ~ok)
  /\ Goto("loop")
  /\ UNCHANGED <<bus, driver, consecutive_failures, last_status, startDue, word,
                 objects, clients, outside>>

(* Variants: a start that failed is not tried again; a write of inactive is *)
(* not noticed.                                                            *)
MeasureRequested_NoRetry ==
  /\ pc = "measure?"
  /\ Goto(IF ~bv[2] /\ measurement_enabled THEN "stop_measurement" ELSE "fan?")
  /\ UNCHANGED <<bus, driver, app, objects, clients, outside>>

MeasureRequested_NoStop ==
  /\ pc = "measure?"
  /\ IF bv[2] /\ ~measurement_enabled /\ startDue
       THEN Goto("start_measurement") /\ startDue' = FALSE
       ELSE Goto("fan?") /\ UNCHANGED startDue
  /\ UNCHANGED <<bus, driver, consecutive_failures, last_status, pollDue, word,
                 objects, clients, outside>>

(* BV2 is compared with what the driver has done, a start at most every    *)
(* ten seconds.                                                            *)
MeasureRequested ==
  /\ pc = "measure?"
  /\ \/ /\ bv[2] /\ ~measurement_enabled /\ startDue
        /\ startDue' = FALSE
        /\ Goto("start_measurement")
     \/ /\ ~bv[2] /\ measurement_enabled
        /\ Goto("stop_measurement")
        /\ UNCHANGED startDue
     \/ /\ bv[2] => measurement_enabled \/ ~startDue
        /\ ~bv[2] => ~measurement_enabled
        /\ Goto("fan?")
        /\ UNCHANGED startDue
  /\ UNCHANGED <<bus, driver, consecutive_failures, last_status, pollDue, word,
                 objects, clients, outside>>

StartMeasurement ==
  /\ pc = "start_measurement"
  /\ \/ i2c_ready /\ Sent(Started(dev)) /\ measurement_enabled' = TRUE
     \/ i2c_ready /\ NotSent(Started(dev)) /\ UNCHANGED measurement_enabled
     \/ ~i2c_ready /\ UNCHANGED <<bus, measurement_enabled>>
  /\ Goto("fan?")
  /\ UNCHANGED <<i2c_ready, app, objects, clients, outside>>

(* Variant: the flag is cleared before the result is known.                *)
StopMeasurement_FlagFirst ==
  /\ pc = "stop_measurement"
  /\ measurement_enabled' = FALSE
  /\ \/ Sent(Stopped(dev)) /\ UNCHANGED bv
     \/ /\ NotSent(Stopped(dev))
        /\ bv' = [bv EXCEPT ![2] = TRUE]
  /\ Goto("fan?")
  /\ UNCHANGED <<i2c_ready, app, bi, reading, av7, clients, outside>>

(* A stop that fails is taken back in BV2.                                 *)
StopMeasurement ==
  /\ pc = "stop_measurement"
  /\ \/ /\ Sent(Stopped(dev))
        /\ measurement_enabled' = FALSE
        /\ UNCHANGED bv
     \/ /\ NotSent(Stopped(dev))
        /\ bv' = [bv EXCEPT ![2] = TRUE]
        /\ UNCHANGED measurement_enabled
  /\ Goto("fan?")
  /\ UNCHANGED <<i2c_ready, app, bi, reading, av7, clients, outside>>

(* BV3: the cleaning is sent once, and acknowledged even if that failed.   *)
FanRequested ==
  /\ pc = "fan?"
  /\ IF bv[3] THEN Goto("fan") ELSE Goto("clear?")
  /\ UNCHANGED <<bus, driver, app, objects, clients, outside>>

FanCmd ==
  /\ pc = "fan"
  /\ \/ i2c_ready /\ (Sent(Told(dev)) \/ NotSent(Told(dev)))
     \/ ~i2c_ready /\ UNCHANGED bus
  /\ Goto("fan_ack")
  /\ UNCHANGED <<driver, app, objects, clients, outside>>

FanAck ==
  /\ pc = "fan_ack"
  /\ bv' = [bv EXCEPT ![3] = FALSE]
  /\ Goto("clear?")
  /\ UNCHANGED <<bus, driver, app, bi, reading, av7, clients, outside>>

(* BV4: the status is read again once it was cleared.                      *)
ClearRequested ==
  /\ pc = "clear?"
  /\ IF bv[4] THEN Goto("clear") ELSE Goto("values")
  /\ UNCHANGED <<bus, driver, app, objects, clients, outside>>

ClearCmd ==
  /\ pc = "clear"
  /\ \/ i2c_ready /\ Sent(Cleared(dev)) /\ Call("poll", "clear_polled")
     \/ i2c_ready /\ NotSent(Cleared(dev)) /\ Goto("clear_ack")
     \/ ~i2c_ready /\ Goto("clear_ack") /\ UNCHANGED bus
  /\ UNCHANGED <<driver, app, objects, clients, outside>>

ClearPolled ==
  /\ pc = "clear_polled"
  /\ pollDue' = (pollDue /\ ~ok)
  /\ Goto("clear_ack")
  /\ UNCHANGED <<bus, driver, consecutive_failures, last_status, startDue, word,
                 objects, clients, outside>>

ClearAck ==
  /\ pc = "clear_ack"
  /\ bv' = [bv EXCEPT ![4] = FALSE]
  /\ Goto("values")
  /\ UNCHANGED <<bus, driver, app, bi, reading, av7, clients, outside>>

(* Reading the values; the fifth failure in a row starts the sensor again. *)
Values ==
  /\ pc = "values"
  /\ IF measurement_enabled THEN Call("sen54_read", "publish") ELSE Goto("sleep")
  /\ UNCHANGED <<bus, driver, app, objects, clients, outside>>

PublishValues ==
  /\ pc = "publish"
  /\ reading' = ok
  /\ consecutive_failures' = IF ok THEN 0 ELSE consecutive_failures + 1
  /\ IF consecutive_failures' >= 5 THEN Call("sen54_init", "reinit") ELSE Goto("sleep")
  /\ UNCHANGED <<bus, driver, last_status, pollDue, startDue, word, bv, bi, av7,
                 clients, outside>>

Reinit ==
  /\ pc = "reinit"
  /\ Call("poll", "reinit_polled")
  /\ UNCHANGED <<bus, driver, app, objects, clients, outside>>

(* Variant: the failures are not forgotten.                                *)
ReinitPolled_KeepsCount ==
  /\ pc = "reinit_polled"
  /\ pollDue' = (pollDue /\ ~ok)
  /\ Goto("sleep")
  /\ UNCHANGED <<bus, driver, consecutive_failures, last_status, startDue, word,
                 objects, clients, outside>>

ReinitPolled ==
  /\ pc = "reinit_polled"
  /\ pollDue' = (pollDue /\ ~ok)
  /\ consecutive_failures' = 0
  /\ Goto("sleep")
  /\ UNCHANGED <<bus, driver, last_status, startDue, word, objects, clients, outside>>

Sleep ==
  /\ pc = "sleep"
  /\ Goto("loop")
  /\ UNCHANGED <<bus, driver, app, objects, clients, outside>>

(* The tick count passes what the two intervals ask for.                   *)
PollTimer ==
  /\ ~pollDue /\ pollDue' = TRUE
  /\ UNCHANGED <<bus, driver, consecutive_failures, last_status, startDue, word,
                 control, objects, clients, outside>>

StartTimer ==
  /\ ~startDue /\ startDue' = TRUE
  /\ UNCHANGED <<bus, driver, consecutive_failures, last_status, pollDue, word,
                 control, objects, clients, outside>>

-----------------------------------------------------------------------------
(* WriteProperty of a command object, and what is stored of it.            *)
WriteCommand(i, active) ==
  /\ writes < MaxWrites
  /\ writes' = writes + 1
  /\ bv' = [bv EXCEPT ![i] = active]
  /\ nvs' = IF i = 1 THEN [nvs EXCEPT !.bv1 = active] ELSE nvs
  /\ asked' = IF i = 1 THEN active ELSE asked
  /\ UNCHANGED <<bus, driver, app, control, bi, reading, av7, rx, outside>>

(* WriteProperty of AV7, in the receive task under the datalink's mutex:   *)
(* the interval is set, 20 ms later asked for and 5 ms later compared.     *)
Rejected(step) == rx.pc = step /\ rx' = [pc |-> "idle", v |-> 0]

RxRequest(v) ==
  /\ rx.pc = "idle"
  /\ writes < MaxWrites
  /\ writes' = writes + 1
  /\ rx' = [pc |-> "set", v |-> v]
  /\ UNCHANGED <<bus, av7, nvs>>

RxSet ==
  /\ \/ /\ rx.pc = "set" /\ i2c_ready
        /\ Sent([Told(dev) EXCEPT !.interval = rx.v])
        /\ rx' = [rx EXCEPT !.pc = "ask"]
     \/ Rejected("set") /\ i2c_ready /\ NotSent([Told(dev) EXCEPT !.interval = rx.v])
     \/ Rejected("set") /\ ~i2c_ready /\ UNCHANGED bus
  /\ UNCHANGED <<av7, nvs, writes>>

RxAsk ==
  /\ \/ /\ rx.pc = "ask"
        /\ Sent(Asked(dev, "interval"))
        /\ rx' = [rx EXCEPT !.pc = "compare"]
     \/ Rejected("ask") /\ NotSent(Asked(dev, "interval"))
  /\ UNCHANGED <<av7, nvs, writes>>

(* Variant: the interval that was read is not compared.                    *)
Accepted_Any(w) == w \in Nat

(* The comparison of sen54_write_auto_cleaning_interval.                   *)
Accepted(w) == w = rx.v

RxCompare ==
  /\ Rejected("compare")
  /\ \/ \E w \in ReplyWords(dev) :
          /\ Received(w)
          /\ av7' = IF Accepted(w) THEN rx.v ELSE av7
          /\ nvs' = IF Accepted(w) THEN [nvs EXCEPT !.av7 = rx.v] ELSE nvs
     \/ NotReceived /\ UNCHANGED <<av7, nvs>>
  /\ UNCHANGED writes

ReceiveTask ==
  /\ RxSet \/ RxAsk \/ RxCompare
  /\ UNCHANGED <<driver, app, control, bv, bi, reading, asked, outside>>

WriteInterval(v) ==
  /\ RxRequest(v)
  /\ UNCHANGED <<driver, app, control, bv, bi, reading, asked, outside>>

(* The sensor comes to report a fault, which stays until it is cleared.    *)
SensorFault(f) ==
  /\ faults < MaxFaults
  /\ faults' = faults + 1
  /\ dev' = [dev EXCEPT !.status = f]
  /\ suffered' = suffered \cup Errors(f)
  /\ UNCHANGED <<fails, driver, app, control, objects, clients, reboots>>
-----------------------------------------------------------------------------
(* What the device starts from.  BV1 and AV7 come from the store, the other*)
(* objects from their defaults; the sensor may have kept its power.        *)
StartsWith(store) ==
  /\ i2c_ready' = FALSE /\ measurement_enabled' = FALSE
  /\ consecutive_failures' = 0 /\ last_status' = NoStatus
  /\ pollDue' = TRUE /\ startDue' \in BOOLEAN /\ word' = 0
  /\ pc' = "start" /\ stack' = <<>> /\ ok' = FALSE
  /\ bv' = [i \in 1 .. 4 |-> i = 2 \/ (i = 1 /\ store.bv1)]
  /\ bi' = {} /\ reading' = TRUE /\ av7' = store.av7
  /\ rx' = [pc |-> "idle", v |-> 0]

Reboot ==
  /\ reboots < MaxReboots
  /\ reboots' = reboots + 1
  /\ StartsWith(nvs)
  /\ dev' \in {dev, WasReset(dev)}
  /\ suffered' = suffered
  /\ UNCHANGED <<fails, nvs, asked, writes, faults>>

Init ==
  /\ dev = [on |-> FALSE, status |-> 0, interval |-> FactoryInterval, reply |-> "none"]
  /\ i2c_ready = FALSE /\ measurement_enabled = FALSE
  /\ consecutive_failures = 0 /\ last_status = NoStatus
  /\ pollDue = TRUE /\ startDue \in BOOLEAN /\ word = 0
  /\ pc = "start" /\ stack = <<>> /\ ok = FALSE
  /\ bv = [i \in 1 .. 4 |-> i = 2]
  /\ bi = {} /\ reading = TRUE /\ av7 = 0
  /\ rx = [pc |-> "idle", v |-> 0]
  /\ nvs = [bv1 |-> FALSE, av7 |-> 0]
  /\ asked = FALSE /\ suffered = {}
  /\ writes = 0 /\ fails = 0 /\ faults = 0 /\ reboots = 0

-----------------------------------------------------------------------------
Task ==
  \/ TaskStart \/ InitBus \/ InitStart \/ PublishEnabled
  \/ IntervalCmd \/ IntervalReceive \/ IntervalPublish
  \/ ReadCmd \/ ReadRestart \/ ReadReceive \/ PollCmd \/ PollReceive
  \/ Loop \/ Polled \/ ResetRequested \/ ResetCmd \/ ResetStart \/ ResetAck
  \/ ResetPolled \/ MeasureRequested \/ StartMeasurement \/ StopMeasurement
  \/ FanRequested \/ FanCmd \/ FanAck
  \/ ClearRequested \/ ClearCmd \/ ClearPolled \/ ClearAck
  \/ Values \/ PublishValues \/ Reinit \/ ReinitPolled \/ Sleep

Client ==
  \/ \E i \in Command, active \in BOOLEAN : WriteCommand(i, active)
  \/ \E v \in Interval : WriteInterval(v)

Next ==
  \/ Task \/ ReceiveTask \/ PollTimer \/ StartTimer
  \/ Client \/ Reboot
  \/ \E f \in Fault : SensorFault(f)

(* The scheduler runs both tasks, and time passes.  Nothing is owed by     *)
(* clients, by the sensor or by the bus, whose failures are bounded.       *)
Fairness ==
  /\ WF_vars(Task) /\ WF_vars(ReceiveTask)
  /\ WF_vars(PollTimer) /\ WF_vars(StartTimer)

Spec == Init /\ [][Next]_vars /\ Fairness
-----------------------------------------------------------------------------
Labels ==
  {"start", "sen54_init", "init_start", "sen54_read", "read_again",
   "read_restart", "read_receive", "poll", "poll_receive", "publish_enabled",
   "interval", "interval_receive", "interval_publish", "boot_polled", "loop",
   "polled", "reset?", "reset", "reset_start", "reset_ack", "reset_polled",
   "measure?", "start_measurement", "stop_measurement", "fan?", "fan",
   "fan_ack", "clear?", "clear", "clear_polled", "clear_ack", "values",
   "publish", "reinit", "reinit_polled", "sleep"}

(* The types of the variables; a call is at most one function deep.        *)
TypeOK ==
  /\ dev \in [on : BOOLEAN, status : Nat, interval : Nat,
              reply : {"none", "values", "status", "interval"}]
  /\ i2c_ready \in BOOLEAN /\ measurement_enabled \in BOOLEAN
  /\ consecutive_failures \in 0 .. 5 /\ last_status \in Nat \cup {NoStatus}
  /\ pollDue \in BOOLEAN /\ startDue \in BOOLEAN /\ word \in Nat
  /\ pc \in Labels /\ stack \in Seq(Labels) /\ Len(stack) <= 1 /\ ok \in BOOLEAN
  /\ bv \in [1 .. 4 -> BOOLEAN] /\ bi \subseteq 1 .. 4
  /\ reading \in BOOLEAN /\ av7 \in Nat
  /\ rx \in [pc : {"idle", "set", "ask", "compare"}, v : Nat]
  /\ nvs \in [bv1 : BOOLEAN, av7 : Nat]
  /\ asked \in BOOLEAN /\ suffered \subseteq 1 .. 4
  /\ {writes, fails, faults, reboots} \subseteq Nat

(* The sensor measures only if measurement_enabled says so: otherwise no   *)
(* write of BV2 would ever stop it (sen54_app.c:250).  Without late errors *)
(* of the bus, and from a sensor that was off when the device started.     *)
FlagCoversSensor == dev.on => measurement_enabled

(* The sensor is reset only after a client has asked for it, and once for  *)
(* each time the task finds BV1 active (sen54_app.c:221-228).              *)
ResetOnlyWhenAsked == [][pc # "reset" /\ pc' = "reset" => asked]_vars

(* A write of AV7 that succeeds has left the sensor with that interval,    *)
(* whatever the task did to the sensor between write and verification      *)
(* (sen54_write_auto_cleaning_interval).                                   *)
AcceptedIntervalSet ==
  [][nvs'.av7 # nvs.av7 => dev'.interval = nvs'.av7]_vars

(* A BI is active only for an error the sensor has had: the status that is *)
(* published is the status that was read (sen54_poll_and_publish_status).  *)
NoPhantomError == bi \subseteq suffered

(* A momentary command returns to inactive by itself, even if the sensor   *)
(* does not carry it out (sen54_app.c:227, 262 and 275).                   *)
CommandsAcknowledged == \A i \in {1, 3, 4} : bv[i] ~> ~bv[i]

(* With BV2 active the values come back after any failures, of a start, a  *)
(* restart, a stop or the readings (sen54_app.c:243-254 and 297-306), if   *)
(* the I2C bus could be set up.                                            *)
MeasurementResumes ==
  <>[](bv[2] /\ ~bv[1] /\ i2c_ready) => <>[](dev.on /\ reading)

(* The binary inputs come to show the status that the sensor has.          *)
StatusShown == <>[]i2c_ready => <>[](bi = Errors(dev.status))

(* When BV2 stays inactive the sensor has stopped for good, whatever was   *)
(* under way when it was written: a stop that fails and a reset that starts *)
(* the sensor again are shown in BV2 (sen54_app.c:229 and 252), and a      *)
(* refused reading does not start it again (sen54.c:235).  Without late    *)
(* errors of the bus or a restart of the device.                           *)
MeasurementStops ==
  <>[]~bv[2] => <>[]~(measurement_enabled \/ dev.on)
=============================================================================
