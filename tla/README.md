# Verification of the ESP32 BACnet firmware

TLA+ models, TLC runs and TLAPS proofs for the firmware in this repository: an
ESP32-S3 that serves its sensor values as BACnet objects over BACnet/IP (Wi-Fi)
and MS/TP (RS-485) at once, and notifies subscribers of changes of value (COV).

Modules are checked with `tlc -config X.cfg M`, proofs with `tlapm M.tla`.

## 1. The system

All paths are below `src/components/` unless they start with `src/`.

| Component | Code | State | Operations |
|---|---|---|---|
| COV subscriptions | `bacnet-stack/src/bacnet/basic/service/h_cov.c` | `COV_Subscriptions[128]`, `COV_Addresses[16]`, the static position of `handler_cov_fsm` | subscribe, renew, cancel, expire, mark, clear, free, send |
| COV task | `bacnet_app/bacnet_cov.c` | none | every second: lock, expiry, one step of the machine, unlock |
| Transactions | `.../basic/tsm/tsm.c` | `TSM_List[8]`, `Current_Invoke_ID` | reserve an id, start, free, time out |
| APDU dispatch | `.../basic/service/h_apdu.c` | handler tables | requests to handlers, answers to transactions |
| Addresses | `.../bacaddr.c`, `npdu.c` | none | compare, copy, source of a PDU |
| BACnet/IP link | `.../ports/esp32/src/bip_init_minimal.c`, `h_bbmd.c` | socket, own address, BBMD registration | receive, send, renew registration |
| MS/TP link | `.../datalink/mstp.c`, `dlmstp.c`, `.../basic/sys/ringbuf.c`, `rs485/mstp_rs485.c` | receive and master state machines, PDU queue (one packet), silence timer | token passing, poll for master, queue and reply |
| Link selection | `bacnet_app/bacnet_app.c`, `datalink.c` | one mutex, the selected link | lock + select, restore + unlock |
| Receive tasks | `bacnet_app/bacnet_ip.c`, `bacnet_mstp.c` | counters, link-alive ticks | receive, decode, lock, `apdu_handler`, unlock |
| Objects | `.../basic/object/{device,av,bv,ai,bi,bo}.c` | values, `Changed` flags, increments, names | set and read a value, detect a change |
| Persistence | `bacnet_objects/*.c` | NVS keys | create, load, save on WriteProperty |
| Sensor | `sensors/sen54_app.c`, `sen54/sen54.c` | measurement flag, failure count, I2C bus | poll, publish, carry out commands |
| Wi-Fi | `networking/wifi_helper.c` | event group | connect, bounded wait, reconnect |
| Screens | `ui/*` | LVGL widgets | show values, write binary values |
| Start-up | `src/main/main.c`, `system/app_system.c` | none | order of initialisation |

### How they interact

FreeRTOS tasks, with their priorities: the two receive tasks (5), the COV task
and the maintenance task (4), LVGL (4), the sensor, screen and touch tasks (3).
Everything the BACnet services touch is shared without locks of its own.  One
mutex, taken by `bacnet_app_datalink_lock`, is held around each `apdu_handler`
call, around one COV step and around periodic sends; taking it also selects the
link that `datalink_send_pdu` uses.  The sensor and the screen tasks write object
values without it.  Notifications flow from a writer through the object's
`Changed` flag, from there to `send_requested` of each subscription, and from
there to the link; answers come back through the other tasks and free the
transaction the notification holds.

### What is hard about it

* The notification machine does **one entry of one state per second**: with 128
  entries a pass through MARK, CLEAR, FREE and SEND takes about nine minutes, and
  writes, requests, answers and expirations happen between any two of its steps.
* The address list is reference-counted by scanning; subscriptions share entries.
* Invoke ids are 8 bits, slots are few, and three different paths (renew,
  cancel, expire) have to release what is in flight.
* Answers can be lost or late, the datalink can refuse a PDU after its
  transaction has been started.
* Two links, one of which is selected for the whole COV task.
* The MS/TP state machine takes packets from a ring buffer that other tasks fill
  under a mutex it does not take, and shares its task with the handling of
  requests, which makes it late.
* Stations of a segment agree on who may talk by waiting alone: a token can be
  lost, repeated, or generated by two.
* Writers outside of the mutex; objects whose flags share a byte.
* Commands to the sensor given as object values by three tasks.
* What comes back after a reboot.

What makes each component correct:

| Component | Properties |
|---|---|
| COV tables | a subscription's address entry is live, distinct and not leaked; one entry per client, object and process id; it notifies the client that asked |
| Notification | no change is lost; a subscriber is in the end told a value that lasts |
| Transactions | each slot is some live subscription's to release; ids distinct; an answer frees what waits for it |
| Subscription service | whatever the tables do, each client finds its own subscription again, is told because the object was written, and is told the value it has |
| Link selection | a send leaves on the link its caller selected |
| MS/TP line | one token and no collision while nothing is damaged, the token is not dropped, a closed ring stays closed; after any fault polls stay between a station and the next, the ring closes and the token comes round |
| MS/TP queue | first in, first out, each PDU once and whole; what is accepted is sent |
| Objects, sensor | a command written is carried out or visibly refused; the sensor runs in the end if and only if BV2 says so |
| Persistence | after a reboot an object has its own last saved name, description and value |
| Start-up, Wi-Fi | an address obtained late is used |

The hazards behind these properties are listed with their lines in
`PROJECT.json`.

## 2. Modules

| Module | Models | Corresponds to |
|---|---|---|
| `BacnetAddress` | `BACNET_ADDRESS` and its comparison | a length with its octets is one value; `BipSource`, `MstpSource`, `RoutedBipSource` are the forms in which the receive paths leave a source |
| `Tsm` | the transaction table as operators on a table | `TSM_List`; an id of 0 is a free slot; the request timer and the copy of the PDU are left out |
| `Cov` | subscriptions, addresses, transactions, the machine, the COV task | one action per operation, see below |
| `CovNotify` | `Cov` and the world around it: values, clients, what each was last told, answers outstanding or lost | every action is an action of `Cov` with its effect on the world |
| `CovService` | what SubscribeCOV promises a client, without tables, addresses, ids or steps | refined by `CovNotify` |
| `Mstp` | token passing: the master node machine of several stations on one line, with losses, stalls and restarts | `MSTP_Master_Node_FSM`, one action per transition |
| `Dlmstp` | the datalink mutex, the link it selects, the four tasks that send, the ring buffer, and what the machine takes out of it | `bacnet_app.c`, `dlmstp.c`, `ringbuf.c` |
| `PduQueue` | a bounded first-in first-out queue | refined by `Dlmstp` |
| `Sen54` | the SEN54 task, the driver it calls, the sensor on the I2C bus, the writers of BV1 to BV4 and AV7, restarts | see below |
| `CovProofs`, `CovNotifyProofs`, `CovServiceProofs`, `DlmstpProofs`, `Sen54Proofs`, `MstpProofs`, `MstpTokenProofs` | theorems about them | section 5 |
| `ModuloProofs` | facts on `%` that the ring buffer needs | section 5 |
| `MCCovNotify`, `MCMstp`, `MCDlmstp`, `MCSen54` | values of the constants for TLC | section 4 |

`CovNotify` extends `Cov`, which extends `Tsm` and `BacnetAddress`. `Mstp` and
`Dlmstp` meet in one place: that the token comes again and again, which `Mstp`
shows (`TokenComesRound`), is what `Dlmstp` assumes of it (`ReceiveToken`).

### COV

State of `Cov`: `subs` and `addrs` are the two arrays, `tsm` and `currentID` the
statics of `tsm.c`, `state` and `index` the statics of `handler_cov_fsm`,
`changed` the flag of each object.  `cov_pc` tells where `bacnet_cov_task` stands:
the mutex is held for the pair of calls it makes, so requests and answers have to
find `cov_pc = "delay"`; object writers do not.

Actions of `Cov` and the code they stand for:

* `Resubscribe`, `Cancel`, `Subscribe`: the three ways through
  `cov_list_subscribe`, with everything it calls. Refusals (no entry, no address
  left) change nothing and have no action.
* `Answer`: the PDU types of `apdu_handler` that free a transaction. The source of
  an answer is not checked by the code, so any answer is possible for any id.
* `TsmTimer`: a slot's part of `tsm_timer_milliseconds`. The firmware never
  calls it. With `TsmTimerRuns` it may happen or not, at any time; no fairness makes
  it happen. It is TRUE in `cov_answers`, so that the refinement and `NoLostChange`
  are checked with retries too.
* `ObjectChange`: a `Present_Value_Set` that sets the object's flag.
* `handler_cov_timer_seconds`: expiry of all entries. All entries that expire in
  the same second are handled by one action, as in the code's one loop.
* `FsmIdle` ... `FsmSend*`: one step of the switch each. `FsmSendConfirmed` starts
  the transaction and then asks the link, which may refuse.

Abstractions: values, names, PDUs and timers have no contents. A write of a
value is one step although the code sets the flag and then the value: the two
are a few instructions apart, while the machine needs at least one second and
three steps from reading the flag to reading the value.  Device communication
control is always enabled, as the firmware registers no handler for it.

`CovNotify` adds `val` (the values), `owner` (the request, that is client,
process id and object, an entry was made or renewed for), `told` (what that client
was last sent), `owed` (notifications it has not yet answered) and `lost` (an answer
has been lost at some time). A notification
is `told` only if what it is `Addressed` to, by the tables, is the owner.
`AnswersLost`, `AnswersPrompt` and `SendMayFail` choose the environment.

`CovService` has a `book` of subscriptions, each with the request it was made by,
whether it is due, its lifetime and what was told; `news` are the objects that
were written and not yet checked. `CovNotify` implements it with `Book` (one
record per valid entry, under its owner) and `News` (the objects whose flag is
set). That the book is a set and a request replaces what the same request made
before is where the tables could go wrong: a request that meets an entry of
somebody else, an entry made twice, or a notification sent elsewhere is no step of
the service. Answers, transactions, the order of the scan and failed sends are
stutters.

### MS/TP

`Mstp` has a `port` per station with the fields of `struct mstp_port_struct_t` that
the master node machine reads, and one action per transition, named as in the
comments of `mstp.c`; `Send` is `MSTP_Create_And_Send_Frame`. Time is a `Tick`, the
time of a frame: within a tick each station does what is `Due`, and a talker is
silent to itself until its frame is out, as `MSTP_RS485_Send` waits for the last
octet. `air` is the frame each station sends, `uart` what a station has not read
yet. A tick is `Silence`, a `Delivery` to all who listen, a `Loss` (some of them
get nothing, or something damaged) or a `Collision` (all get something damaged).
The receive machine is what it makes of a frame: the three `Received` flags.
`Stall` keeps a station from its machine while frames pile up in its UART, as the
handling of a request in the same task does; `PowerOff` and `PowerOn` lose and
restore a station. `faults` and `joins` count them, and `clean` says that nothing
has been damaged and no station is late. It errs on the safe side: a
`PowerOff` that leaves stations whose timers differ, and a `PowerOn` while there is
no token, make it FALSE even where nothing was damaged; what follows them is left to
the properties that hold whatever happens.

`MustAct` is a transition that is due; `Reply` may happen at any time while a
request waits, because it is the application that answers. `Tick` waits until
nobody is due: stations run every millisecond, a frame takes longer.

In `Dlmstp` `mutex` and `link` are `bacnet_datalink_mutex` and
`Datalink_Transport`; `pc` and `job` are the place and the PDU of each of the four
tasks that send, `slots`, `head` and `tail` the ring buffer with counters of
`Unsigned` values, filled in three steps (peek, fill, put) and emptied in two (peek
and pop). `node` is the part of the machine's state that decides what it takes:
with the token, anything; while a request is `held`, only what the code takes for
its answer. A task that
sends on BACnet/IP (`SendElsewhere`) does not touch the queue. The timeout of an
answer is a choice (`DeferredReply`), since `Dlmstp` has no time. The slot being
filled holds `Partial`, so that a torn read would be seen.

### Sensor

`Sen54` is a model of its own; it shares with the others only the objects, whose
present values BV1 to BV4, BI1 to BI4 and AV7 it has as `bv`, `bi` and `av7`
(`reading` stands for AV1 to AV6: not -1). `pc` and `stack` are the place in
`sen54_task` and the function of the driver it is in; a step is one I2C transfer
or one access to the objects, because the delays of the driver let every other
task in between. `dev` is the sensor: measuring or not, its status word, its
cleaning interval, and the reply it would give to a read. `rx` is the receive
task inside a WriteProperty of AV7, which sets the interval, asks for it and
compares (`RxSet`, `RxAsk`, `RxCompare`) on the same bus and without a lock.
`nvs` is what is stored of BV1 and AV7; `Reboot` restores it. `asked` and
`suffered` remember which resets were asked for and which errors the sensor has had.

* `InitBus`, `InitStart`: `sen54_init`; that its twenty attempts fail is one
  choice. A bus that could not be made leaves `i2c_ready` unset; it is made again
  only after five failed reads, which need a measurement that was started.
* `ReadCmd`, `ReadRestart`, `ReadReceive`: `sen54_read` with its restart.
* `PollCmd`, `PollReceive`: the status poll, called from five places.
* `ResetRequested` ... `Sleep`: the loop from top to bottom; `reset_polled` goes
  back to its head, as the `continue` does.
* `WriteCommand`: a client's or a screen's write of a BV, with what it stores.

The sensor is outside the repository: it answers a read once, with the reply to
the last command; it refuses to report values while it does not measure. Whether
a reset keeps the cleaning interval (`ResetKeepsInterval`) and whether a transfer
reported as failed may have arrived (`LateErrors`) are constants. A reply of two
words is the same for status, interval and the first words of the values, as the
driver checks nothing but the CRCs.

## 3. Fairness

`CovNotify`: the COV task's step is weakly fair, as the task wakes every second
for good. Handling an answer that arrived is strongly fair: the receive task waits
for the mutex at a higher priority than the COV task and is given it when that one
releases it, but a waiting action is not continuously enabled. Nothing is assumed of
the transaction timer, which no task of the firmware runs, nor of clients, of
writers, or of losses: which answers arrive is chosen when a notification is sent,
and all of them may be lost. `EventuallyTold` therefore promises nothing once an
answer is `lost`; run `cov_no_timer` shows what happens then.

`Mstp`: time goes on (`TimeProceeds`), and a request that keeps a station from its
machine is handled in the end (`WF` of `Resume`). A tick is only possible once
nobody is due, so with time stations act as well; that the transitions of one tick
come to an end is thereby assumed and not shown. Nothing is assumed of replies,
data, losses or restarts, which are finitely many. Its two liveness properties
make one exception, `Lockstep`: two stations that talk at the same tick again and
again. The model has whole ticks and so cannot have one of the two hear the other
begin; real timers drift, which breaks the symmetry.

`Dlmstp`: each task goes on with what it has begun and the machine with what it
can do (weak); a task that waits for the mutex gets it (strong): FreeRTOS gives it
to the waiting task of the highest priority, and no task asks again without a
delay. `ReceiveToken` is strongly fair because `TokenComesRound` holds of `Mstp`.

`Sen54`: both tasks are weakly fair (they never wait for each other), and so are
the two clocks that make a poll and a start due. The bus fails at most `MaxFails`
times; clients, faults and restarts owe nothing.

## 4. Runs

| Run | Shows | Bounds |
|---|---|---|
| `cov_clients` | tables consistent, nothing leaks, each client notified by its own address and process, destinations never move; `CovService` implemented | 3 requests for 1 object (two processes of an IP station, a station behind a router), 2 entries, 2 addresses, 2 slots, 3 ids, lifetimes 0 and 1, refused sends; 277,000 states |
| `cov_answers` | with answers in time, late or lost: no change is lost, `CovService` implemented; as long as none was lost the client is told, though nothing runs the timer | 1 entry, 1 slot, 1 retry, 3 ids, 2 values; liveness; 81,000 states |
| `cov_two_ip` | **fails**: two IP clients are taken for one | 2 clients |
| `cov_two_subscribers` | **fails**: CLEAR erases a change that one of two subscriptions has not seen | 2 entries, 1 object |
| `cov_no_timer` | **fails**: without the timer a lost answer holds its slot for good | 1 entry |
| `cov_mstp` | **fails**: a subscriber on MS/TP is never notified | 1 entry |
| `mstp_ring` | while nothing is damaged one token, which nobody drops, no collision, and a closed ring that stays closed; after any fault stations poll only up to the next one, the ring closes and the token comes round | 3 addresses, any set of stations on them, 1 fault (loss, stall or power off), 1 station switched on, requests and broadcasts; liveness; 447,000 states |
| `dlmstp` | each task sends on its own link, packets are not torn, also when the code sends one station the reply to another; `PduQueue` implemented; what is accepted is sent | 4 tasks, 2 packets, counters modulo 4, requests of 2 stations with the same id, 1 frame per token; liveness; 134,000 states |
| `mstp_reply_lost` | **fails**: Reply Postponed, and then nothing | the firmware's 1 packet, 1 request, 2 frames per token |
| `sen54_commands` | the flag covers the sensor, resets were asked for, an accepted interval was set, momentary commands end, a sensor whose BV2 stays inactive stops | all commands and AV7, 2 writes, 1 failing transfer; liveness; 261,000 states |
| `sen54_restart` | after failures the values come back if BV2 stays active, and the inputs show the errors of the sensor and no others | BV2, 2 writes, 6 failing transfers, late errors, 1 fault, 1 restart; liveness; 784,000 states |
| `sen54_phantom` | **fails**: the poll publishes bits of the interval as errors | 1 write of AV7 |

Why the bounds are enough. In `cov_clients` three requests for two entries leave
the tables full, so that refusals happen; two of them share an address and two
share a process id, which is every way two subscriptions can be mistaken; with two
slots and three ids the counter wraps while ids are in use, which is what 255 ids
and eight slots can do; a lifetime of 1 is the value at which an entry expires.
Answers are prompt there: late and lost ones are in `cov_answers`, where they
compete with retries, and in the theorems. An MS/TP client is in `cov_mstp`; its
address differs from that of a routed one in the network number only. Two values
tell an old from a new one. `MaxInvokeID` exceeds the number of slots, as in the
program, so that a free id exists whenever a slot does. The size-independent part
is proved.

In `mstp_ring` three addresses make a ring with a neighbour on either side, one
with a gap, one of two stations and one alone, and `Init` has them all. The times
keep the order of the program's (usage < reply delay < reply timeout < no token)
and give each address a slot of its own; a shorter reply timeout than delay, a turn
that is the same for all, a token that is repeated without end, a poll that goes
too far or does not start over, and a postponed answer that is not taken for one
each break one of the properties. One fault and one arrival meet at every place of
the ring's work. `RingStays` is about rings in which nobody has failed
(`faults' = 0`): a station that is switched off after it answered a poll is still
taken for the next one, and the token is passed to nobody, until that is noticed
and the ring closes again (`RingCloses`). `MaxBacklog` is a bound on how long a
station may be late.

In `dlmstp` two packets and counters of four values wrap in every order; the
firmware has one packet, which `mstp_reply_lost` has and for which the theorems
hold too. The two requests come from two stations that use the same invoke id,
which stations choose for themselves. `MSTP_Get_Reply` is meant to find the answer
of the request that is held, but it compares addresses with `bacnet_address_same`,
which ignores the station of local addresses; so a postponed reply to one station
can go out as the answer to the other. The model does what the code does, and the
properties of the queue are checked with such exchanges. No property says that a
reply meets its request: with distinct ids that would repeat the comparison of the
code, and without it does not hold. Deadlock is checked.

In the `sen54` runs two writes make every pair of commands, the second one at any
place of the first one's execution; six failures are five readings in a row and
one more, for the restart or the poll after it. The interval 3600 has the bit of
the fan error. `sen54_restart` has no write of AV7: `sen54_phantom` shows why. Its
clients write BV2 only, to leave room for the failures; resets, which write BV2 as
well, are in `sen54_commands`. There a client's disable can get lost: the reset takes
more than a second and then sets BV2 from the driver's state (`sen54_app.c:229`),
which overwrites what was written meanwhile. The repository does not say which of
the two requests counts. `MeasurementStops` is about what BV2 shows in the end, and
holds with the reset at any place: BV2 never stays inactive over a running sensor.
`AcceptedIntervalSet` needs that no status and no value read by chance equals the
requested interval, as in `MCSen54`; the driver could not tell them apart.
`MeasurementResumes` and `StatusShown` are about a device whose I2C bus was made;
deadlock is checked in these runs.

`AnswersPrompt` says that an answer arrives before the next second's step. With
two subscriptions and one slot it decides whether both are told: when answers
are slower, one of them can be starved of the only slot. In the `cov` runs deadlock
is not checked: they fix what clients ask for, and the system may well be idle,
though the COV task in fact always has a step.

### Findings

1. **Two BACnet/IP clients are one** (`cov_two_ip`). `bip_receive` leaves the
   station in `adr` with `net` 0; `bacnet_address_same` ignores `adr` when `net` is
   0. `cov_list_subscribe` means to match "Object ID and Process ID and address"
   (`h_cov.c:358`). The second client's request renews the first client's entry,
   and the first one gets its notifications.
2. **A change can be cleared before all have seen it** (`cov_two_subscribers`).
   The comment at `h_cov.c:650` has the flag cleared "after checking all
   subscriptions", but CLEAR erases whatever is set by then.
3. **Nothing runs the transaction timer** (`cov_no_timer`), "Called once a
   millisecond or slower" as `tsm.c:293` has it. One lost answer, or a PDU the link
   refused, silences a confirmed subscription until its client renews it.
4. **Subscribers on MS/TP are not notified** while BACnet/IP is enabled
   (`cov_mstp`): the COV task always selects the default link.
5. **An interval is taken for a status** (`sen54_phantom`): command and answer of a
   poll are 5 ms apart, and the write of AV7 is not kept out. An interval of
   3600 s shows as a fan failure.
6. **A postponed reply may never come** (`mstp_reply_lost`). The queue holds one
   packet. If an I-Am waits in it when a request comes, the answer is refused by
   `dlmstp_send_pdu` and forgotten, the machine sends Reply Postponed, and the
   client waits for an answer nobody has.

## 5. Theorems

Proved for every number of entries, addresses, slots, ids, objects, clients,
packets and requests, from the named assumptions on the constants only
(`AddressAssumption`, `TsmAssumption`, `CovAssumption`, `NotifyAssumption`,
`MstpAssumption`, `MstpTiming`, `DlmstpAssumption`, `Sen54Assumption`), which the
runs evaluate, and those a theorem states.

COV (`CovProofs`, `CovNotifyProofs`, `CovServiceProofs`):

* `TypeCorrect`: `TypeOK` is inductive by itself. The only delicate part is that
  several fields of a record change at once, for which there is a lemma per
  combination.
* `AddressListCorrect`: `AddressInv`, the conjunction of `DestinationsLive`,
  `NoAddressLeak`, `AddressesDistinct` and `OneSubscriptionPerKey`, is inductive
  together with `TypeOK` and none of its parts is without the others: that a
  renewal finds its entry again needs live and distinct entries, and a new entry
  is distinct because the search failed. `SubscribersReachable`,
  `AddressesReleased`, `AddressesListedOnce` and `SubscriptionKeysUnique` state the
  parts.
* `TransactionTableCorrect`: `TransactionInv` is `NoTransactionLeak` and
  `TransactionIDsDistinct`. Distinctness is needed to know that freeing an id
  frees the slot of the subscription that let go of it; `FreeEffect` is the lemma.
  `TransactionsOwned` and `InvokeIDsDistinct` state the parts.
* `DestinationNeverMoves`: an action property, from `AddressInv`.
* `NotifyImplementsCov`: every behaviour of `CovNotify` is one of `Cov`, so the
  above carry over. `NotifyTypeCorrect` needs that a waiting slot has an id.
* `SubscriberIsNotified`: if the sources of different clients compare different
  (`DistinctSources`), notifications go to the client and process that asked. The
  invariant `ClientInv` adds that each entry's owner is one of the requests. Run
  `cov_two_ip` shows that the assumption cannot be dropped, and that BACnet/IP
  clients do not satisfy it.
* `NoChangeLost`: if moreover no object is requested twice
  (`OneRequestPerObject`), no change is lost. The argument is that the entry
  which clears the flag is the only one for the object (`OneEntryPerObject`) and
  has asked to be sent. Run `cov_two_subscribers` shows what happens without it.
* `ServiceKept`: under `DistinctSources`, `CovNotify` implements `CovService`. Its
  invariant is the conjunction of the types, `AddressInv` and `ClientInv`; from it
  no two entries stand for one request (`EntriesDiffer`), the entry a request finds
  is the request's own (`MatchIsOwner`) and one that finds none has none
  (`NoMatchNoOwner`). A step that changes one entry then replaces one subscription
  (`EntryReplaced`), and there is a lemma per action that says which step of the
  service it is.

MS/TP (`DlmstpProofs`, with the facts on `%` of `ModuloProofs`; `MstpProofs`,
`MstpTokenProofs`):

* `DlmstpTypeCorrect`, `TaskHasItsLink`, `PacketsKeptApart` and `RingIsQueue`, the
  refinement of `PduQueue`, for every number of packets and every range of the counters that is a multiple of
  it, as 2^32 is of one packet. The inductive invariant is `Types`, `Locked` (a
  task between lock and unlock has the mutex, and its link is selected) and `Ring`
  (the count never exceeds the size, the occupied slots hold whole PDUs, a task
  past the peek still finds room, a machine past it still finds a packet). `Locked`
  is what makes the writers one, `Ring` what keeps the reader off their slot. That a
  count of packets is right although counters wrap is `CountPut` and `CountPop`.
* `MstpTypeCorrect`: `TypeOK` of `Mstp` for any segment, any number of damaged
  frames, stalls and stations that come and go. The bounds of the counters are what
  it says: `FrameCount`, `TokenCount` and `RetryCount` never pass their limits and
  every address sent to exists. The invariant adds `TokenLimit`, that a station in
  USE_TOKEN has a frame left; without it one more frame would pass the limit. That
  `Next_Station` and `Poll_Station` stay addresses rests on `DivMod`, for the `%` of
  `Succ`.
* `OneTokenAlways` and `NoCollisionAlways`: `OneToken` and `NoCollision` for any
  segment, any turn, any traffic, and any stations that fail or join. Neither is
  inductive, and each needs the other: a token is doubled when somebody
  takes it for lost, and that is decided by silence, which collisions disturb. The
  invariant (`Orderly`) relates every station's timer to the place of the token:
  * somebody bears the token (holds it, or has passed it and not heard it used), or
    all timers agree (`Agree`);
  * nobody's timer is ahead of the bearer's, or of one who owes an answer
    (`Eldest`); the bearer acts before `Tno_token`, and nobody waits beyond its turn
    (`InTime`). So whoever generates a token has waited longer than a bearer could:
    there is none, the timers agree, and no other station has the same turn
    (`GeneratorIsFree`, `TurnsDiffer`);
  * a frame is sent in the state that fits it (`Sends`), one who holds the token
    while another answers waits for the answer (`OneHolds`, `Patient`), and one who
    still watches a token that has arrived notices its use in the tick in which it
    is used (`OnePasses`): so the line is free for whoever sends (`HolderIsFree`,
    `PasserIsFree`), and what has been heard is dealt with before time passes
    (`Fresh`).

  Every transition is then one of three kinds: it sends nothing and takes on no role
  (`QuietStep`), it sends with the token (`TalkStep`), or it answers
  (`RespondStep`). A tick is silence (`SilenceKeepsOrder`) or one delivery
  (`DeliveryKeepsOrder`). `OrderlyWhileClean` was checked with TLC before it was
  proved, up to two faults and two arrivals.
  The proof needs `MstpTiming`, the order of the timers. The firmware uses the
  defaults, which have it (`mstpdef.h:102`, `mstpdef.h:162`); `MSTP_Init` checks
  each value by itself and would also accept others. None of its three conditions
  on the timers can be dropped: with a `Tusage_timeout` of 4, a `Treply_delay` of 3
  or a `Treply_timeout` of 6 TLC finds `mstp_ring` violated.
* `TokenNeverDropped`: `TokenNotDropped`. What makes the machine drop the token, a
  valid frame that is neither an answer nor a reply to the poll, is received by
  nobody who has it: `Orderly` says of every frame that reaches a station in
  WAIT_FOR_REPLY or POLL_FOR_MASTER that it is the answer (`Expects`), sent by the
  station that was polled. `StepCarries` says for each transition that who bears
  the token still does, and `TickHolds` that a tick takes it from nobody.
* `MstpPollsOnlyTheGap`: `PollsOnlyTheGap` after any damage, stall, failure and
  arrival. It is inductive together with the types; the work is in the order of the
  addresses (`AfterIs`, `AfterSucc`: the next address polled is one further on until
  the station itself is reached), and in `StepRoute`, which names the transitions
  that change what a station knows of the ring.
* `RingStaysClosed`: `RingStays`. A transition that changes the successor must not
  be taken in a closed ring, and the invariant (`ServesWhileClean`) says why:
  * a sole master uses the token and is its own successor (`SoleUses`), and only a
    station that knows nobody initializes (`Starts`);
  * somebody bears the token or nobody has met anyone: so none is generated;
  * a token that has arrived was passed to one who bears it, to one who knows nobody
    or to one who has gone (`Handed`): so nobody gives up its successor
    (`TokenIsUsed`);
  * who answers a poll is there (`Answered`), and by `PollsOnlyTheGap` it would be
    between a station and the next: so in a closed ring nobody answers
    (`GapIsEmpty`).

  `ServesWhileClean` too was checked with TLC first, with one fault and two arrivals.

Sensor (`Sen54Proofs`), for any number of writes, failing transfers and faults:

* `Sen54TypeCorrect`: `TypeOK`, also across restarts. That a return goes to a label
  needs `CallOK` (a function of the driver is entered from the task only), and that
  at most five failures are counted needs `CountOK`: the count is five only between
  the fifth failure and the end of the restart it causes.
* `SensorFlagged`: `FlagCoversSensor`, if no transfer fails late (`~LateErrors`) and
  the device does not restart. `FlagOK` adds that `sen54_read`, which may start the
  sensor by itself, is entered only with the flag set. Both assumptions are needed:
  a stop that is reported as failed keeps the flag, but a start that is so does not
  set it; and a sensor that kept its power measures before `sen54_init`.
* `ResetsAsked`: `ResetOnlyWhenAsked` without a restart; `AskedOK` says that BV1 is
  active only with a request pending, or while its reset is being acknowledged. A
  restart breaks it: BV1 is stored when it is written ACTIVE (`bv.c:1108`) and not
  when the task sets it back, so the start repeats the reset.
* `NoPhantom`: `NoPhantomError` as long as nobody writes the cleaning interval
  (`Interval = {}`), also with late errors and restarts. The invariant says that
  while the task waits to fetch a status the reply at hand is the status or none,
  and that the sensor reports only errors it has had. The assumption is needed:
  run `sen54_phantom` shows the receive task putting its own reply in between.
* `IntervalAccepted`: `AcceptedIntervalSet`, if no status word and no measured value
  equals an interval that clients ask for, as in run `sen54_commands`. The invariant
  says that what the receive task compares is a client's interval and that the
  status is one the sensor may report. The assumption is needed because the task may
  replace the reply that is compared; with it, only a reply that is the interval
  passes, and nothing has changed the sensor since.

Their proofs share the invariant `SInv`, one step per action, and lemmas on what a
call, a return and each kind of transfer do.

Only model-checked: the liveness properties (`EventuallyTold`, `RingCloses`,
`TokenComesRound`, `QueueDrains`, `CommandsAcknowledged`, `MeasurementResumes`,
`MeasurementStops`, `StatusShown`), because fairness and ENABLED
are outside the prover's reach.

## 6. What was built in which order, and what is left

1. `BacnetAddress`, `Tsm`, `Cov`, `CovNotify` and their theorems: the core.
2. `Sen54` and its theorems.
3. `Mstp`, `Dlmstp` with `PduQueue`, and the theorems of the queue.
4. `CovService` and the theorem that `CovNotify` implements it.
5. The theorems of the token and of the ring, `MstpTokenProofs`.

Left, should the project grow: the objects' bytes shared by several flags, for which
the compiler's choice of stores has to be known; what is stored and restored of
the objects' names; start-up and reconnection of Wi-Fi with the registration as a
foreign device.

## 7. Not modelled

* The bulk of the repository is a vendored BACnet stack, fonts and display
  drivers. The firmware uses a small part of the stack, most of it encoders and
  decoders without state: `ReadProperty`, `Who-Is` and the codecs change nothing
  the models have. The mapped lines are therefore a small share of all lines.
* MS/TP: the slave node machine, zero configuration and automatic baud rate, which
  the configuration switches off; test requests; the octets of a frame and their
  CRCs, of which the models have the verdict; segmented answers, for which
  `MSTP_Get_Reply` has a branch of its own (`dlmstp.c:154`) and which this device does
  not send, and the comparison of priority and service choice (`npdu.c:796`): an answer
  it refuses waits for the token, as after a timeout (`DeferredReply`); the half-minute diagnostics and the
  link-alive ticks, which feed a log and an icon.
* BACnet/IP: registration with a BBMD and forwarding, for which no other part waits.
* Objects: names, descriptions, units, priorities; flags that share a byte (a flag
  is written in one step); persistence beyond what `Sen54` has of BV1 and AV7.
* Wi-Fi, the address cache, start-up and pins, screens (their writes of binary
  values are in `Sen54`), the unused PMS5003 driver, and the SEN54 driver's own
  reader task, which is never started.

Hazards without a property are listed in `PROJECT.json` with the reason.
