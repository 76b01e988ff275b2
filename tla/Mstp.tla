-------------------------------- MODULE Mstp --------------------------------
(***************************************************************************)
(* Token passing on an MS/TP segment: the master node state machine of     *)
(* datalink/mstp.c, run by every station, on a line that delivers to all   *)
(* others what one of them sends.                                          *)
(*                                                                         *)
(* Time passes in ticks.  A frame takes one tick; within a tick stations   *)
(* act on what they have received or on a timer, and a station does        *)
(* nothing while it sends, as MSTP_RS485_Send waits for the last octet.    *)
(* Two frames in one tick destroy each other.  A frame may be lost or      *)
(* damaged at each receiver, a station may be kept from its state machine  *)
(* for a while (the receive task that runs it also handles requests, for   *)
(* which it waits for the datalink mutex), may be switched off and on.     *)
(***************************************************************************)
EXTENDS Integers, FiniteSets, Sequences

CONSTANTS
  Nmax_master,       \* highest address that is polled (127)
  Station,           \* addresses at which there is a master
  Npoll,             \* tokens used between two maintenance polls (50)
  Nmax_info_frames,  \* frames a station may send per token
  Nretry_token,      \* repetitions of a token nobody uses (1)
  Tusage_timeout,    \* ticks to wait for a token or poll to be used
  Treply_delay,      \* ticks in which an answer may be sent
  Treply_timeout,    \* ticks to wait for an answer
  Tno_token,         \* ticks of silence after which the token is lost
  Tslot,             \* ticks between the turns to generate a token
  Data,              \* <<type, from, to>> the stations may have to send
  MaxFaults,         \* bound: faults, stalls and stations switched off
  MaxJoins,          \* bound: stations switched on
  MaxBacklog         \* bound: frames that a stalled station has not read

ASSUME MstpAssumption ==
  /\ Nmax_master \in Nat \ {0}
  /\ Station \subseteq 0 .. Nmax_master
  /\ {Npoll, Nmax_info_frames, Tslot} \subseteq Nat \ {0}
  /\ Npoll > 1
  /\ {Nretry_token, Tusage_timeout, Treply_delay, Treply_timeout, Tno_token}
       \subseteq Nat
  /\ Data \subseteq ({"DATA_NOT_EXPECTING_REPLY"} \X Station \X {255})
                \cup ({"DATA_EXPECTING_REPLY", "DATA_NOT_EXPECTING_REPLY"}
                        \X Station \X Station)
  /\ {MaxFaults, MaxJoins, MaxBacklog} \subseteq Nat

(* What keeps the timers of the machine apart, as their defaults do        *)
(* (Tusage_timeout 35, Treply_delay 245, Treply_timeout 250, Tno_token     *)
(* 500 ms): a token or a poll that nobody uses and an answer that does not *)
(* come are given up before others take the token for lost, and an answer  *)
(* is no longer sent once it is given up.  MSTP_Init checks each value by  *)
(* itself, and dlmstp leaves the defaults.  No address is the broadcast.   *)
ASSUME MstpTiming ==
  /\ Nmax_master < 255
  /\ Tusage_timeout + 1 < Tno_token
  /\ Treply_delay + 1 < Treply_timeout
  /\ Treply_timeout < Tno_token

VARIABLES
  port,     \* struct mstp_port_struct_t of each station
  uart,     \* frames the UART holds that have not been read yet
  air,      \* the frame each station is sending
  on,       \* stations that are powered
  busy,     \* stations whose receive task does not come back to the machine
  faults,   \* how many faults there have been
  joins,    \* how many stations were switched on
  clean     \* no frame was damaged, and the stations agree on the silence

vars == <<port, uart, air, on, busy, faults, joins, clean>>

Address == 0 .. Nmax_master
Broadcast == 255
FrameType ==
  {"TOKEN", "POLL_FOR_MASTER", "REPLY_TO_POLL_FOR_MASTER", "REPLY_POSTPONED",
   "DATA_NOT_EXPECTING_REPLY", "DATA_EXPECTING_REPLY"}
MasterState ==
  {"INITIALIZE", "IDLE", "USE_TOKEN", "WAIT_FOR_REPLY", "DONE_WITH_TOKEN",
   "PASS_TOKEN", "NO_TOKEN", "POLL_FOR_MASTER", "ANSWER_DATA_REQUEST"}

Frame == [type : FrameType, src : Address, dst : Address \cup {Broadcast}]
NoFrame == [type |-> "NONE", src |-> 0, dst |-> 0]

(* What the receive machine makes of a frame: which of the three Received  *)
(* flags it sets, and the frame if it was valid and for this station.      *)
Reception ==
  [flag : {"Valid"}, frame : Frame]
    \cup [flag : {"None", "Invalid", "NotForUs"}, frame : {NoFrame}]
Nothing == [flag |-> "None", frame |-> NoFrame]
Damaged == [flag |-> "Invalid", frame |-> NoFrame]

(* No timer is compared with a longer silence.                             *)
MaxSilence == Tno_token + Tslot * (Nmax_master + 1) + 1

Port ==
  [master_state : MasterState, Next_Station : Address, Poll_Station : Address,
   TokenCount : 0 .. Npoll, RetryCount : 0 .. Nretry_token,
   FrameCount : 0 .. Nmax_info_frames, SoleMaster : BOOLEAN,
   EventCount : BOOLEAN,       \* more than Nmin_octets seen?
   SilenceTimer : 0 .. MaxSilence, Received : Reception]

-----------------------------------------------------------------------------
(* MSTP_Init on a port that was zeroed.                                    *)
MSTP_Init(s) ==
  [master_state |-> "INITIALIZE", Next_Station |-> s, Poll_Station |-> s,
   TokenCount |-> 0, RetryCount |-> 0, FrameCount |-> 0, SoleMaster |-> FALSE,
   EventCount |-> FALSE, SilenceTimer |-> 0, Received |-> Nothing]

(* Any stations may be there, and those that are come up together.         *)
Init ==
  /\ port = [s \in Station |-> MSTP_Init(s)]
  /\ uart = [s \in Station |-> <<>>]
  /\ air = [s \in Station |-> NoFrame]
  /\ on \in SUBSET Station
  /\ busy = {}
  /\ faults = 0
  /\ joins = 0
  /\ clean = TRUE

(* Variant: not the address after the highest.                             *)
Succ_NoWrap(a) == a + 1

(* The address that is polled after a.                                     *)
Succ(a) == (a + 1) % (Nmax_master + 1)

(* Station s reads before it runs its machine, and not while it holds a    *)
(* frame that the machine has not dealt with.                              *)
Awake(s) == s \in on \ busy /\ air[s] = NoFrame
CanRead(s) == Awake(s) /\ port[s].Received = Nothing /\ uart[s] # <<>>
Runs(s, st) == port[s].master_state = st /\ Awake(s) /\ ~ CanRead(s)

Got(s, type) ==
  port[s].Received.flag = "Valid" /\ port[s].Received.frame.type = type
GotBad(s) == port[s].Received.flag \in {"Invalid", "NotForUs"}

Become(s, p) ==
  /\ port' = [port EXCEPT ![s] = p]
  /\ UNCHANGED <<uart, air, on, busy, faults, joins, clean>>

(* MSTP_Create_And_Send_Frame.                                             *)
Send(s, p, type, dst) ==
  /\ port' = [port EXCEPT ![s] = p]
  /\ air' = [air EXCEPT ![s] = [type |-> type, src |-> s, dst |-> dst]]
  /\ UNCHANGED <<uart, on, busy, faults, joins, clean>>

(* The port after the frame r has been read.                               *)
HasRead(p, r) ==
  [p EXCEPT !.Received = r, !.SilenceTimer = 0, !.EventCount = TRUE]

Read(s) ==
  /\ CanRead(s)
  /\ port' = [port EXCEPT ![s] = HasRead(@, Head(uart[s]))]
  /\ uart' = [uart EXCEPT ![s] = Tail(@)]
  /\ UNCHANGED <<air, on, busy, faults, joins, clean>>

-----------------------------------------------------------------------------
(* INITIALIZE.                                                             *)
DoneInitializing(s) ==
  /\ Runs(s, "INITIALIZE")
  /\ Become(s, [port[s] EXCEPT !.Next_Station = s, !.Poll_Station = s,
                  !.TokenCount = Npoll, !.SoleMaster = FALSE,
                  !.master_state = "IDLE"])

(* IDLE.                                                                   *)
ReceivedBad(s) ==
  /\ Runs(s, "IDLE") /\ GotBad(s)
  /\ Become(s, [port[s] EXCEPT !.Received = Nothing])

ReceivedToken(s) ==
  /\ Runs(s, "IDLE") /\ Got(s, "TOKEN")
  /\ Become(s, [port[s] EXCEPT !.Received = Nothing, !.FrameCount = 0,
                  !.SoleMaster = FALSE, !.master_state = "USE_TOKEN"])

ReceivedPFM(s) ==
  /\ Runs(s, "IDLE") /\ Got(s, "POLL_FOR_MASTER")
  /\ Send(s, [port[s] EXCEPT !.Received = Nothing],
          "REPLY_TO_POLL_FOR_MASTER", port[s].Received.frame.src)

(* Data for the higher layers, and frames that mean nothing here.          *)
ReceivedNoReplyNeeded(s) ==
  /\ Runs(s, "IDLE")
  /\ \E t \in {"DATA_NOT_EXPECTING_REPLY", "REPLY_TO_POLL_FOR_MASTER",
               "REPLY_POSTPONED"} : Got(s, t)
  /\ Become(s, [port[s] EXCEPT !.Received = Nothing])

(* The frame is kept until it has been answered.                           *)
ReceivedDataNeedingReply(s) ==
  /\ Runs(s, "IDLE") /\ Got(s, "DATA_EXPECTING_REPLY")
  /\ Become(s, [port[s] EXCEPT !.master_state = "ANSWER_DATA_REQUEST"])

LostToken(s) ==
  /\ Runs(s, "IDLE")
  /\ port[s].Received = Nothing
  /\ port[s].SilenceTimer >= Tno_token
  /\ Become(s, [port[s] EXCEPT !.EventCount = FALSE,
                  !.master_state = "NO_TOKEN"])

-----------------------------------------------------------------------------
(* USE_TOKEN.  MSTP_Get_Send finds nothing or a frame that was queued.     *)
NothingToSend(s) ==
  /\ Runs(s, "USE_TOKEN")
  /\ Become(s, [port[s] EXCEPT !.FrameCount = Nmax_info_frames,
                  !.master_state = "DONE_WITH_TOKEN"])

SendInfoFrame(s, type, dst) ==
  /\ Runs(s, "USE_TOKEN")
  /\ <<type, s, dst>> \in Data
  /\ Send(s, [port[s] EXCEPT !.FrameCount = @ + 1,
                !.master_state = IF type = "DATA_EXPECTING_REPLY"
                                   THEN "WAIT_FOR_REPLY"
                                   ELSE "DONE_WITH_TOKEN"], type, dst)

(* WAIT_FOR_REPLY.                                                         *)

(* Variant: no longer than a station may take to answer.                   *)
ReplyOverdue_Delay(s) == port[s].SilenceTimer >= Treply_delay

ReplyOverdue(s) == port[s].SilenceTimer >= Treply_timeout

ReplyTimeout(s) ==
  /\ Runs(s, "WAIT_FOR_REPLY") /\ ReplyOverdue(s)
  /\ Become(s, [port[s] EXCEPT !.FrameCount = Nmax_info_frames,
                  !.master_state = "DONE_WITH_TOKEN"])

Waiting(s) == Runs(s, "WAIT_FOR_REPLY") /\ ~ ReplyOverdue(s)

InvalidReply(s) ==
  /\ Waiting(s) /\ GotBad(s)
  /\ Become(s, [port[s] EXCEPT !.Received = Nothing,
                  !.master_state = "DONE_WITH_TOKEN"])

(* Variant: an answer that is put off is none.                             *)
IsReply_NotPostponed(f, s) ==
  f.dst = s /\ f.type \in {"DATA_NOT_EXPECTING_REPLY", "DATA_EXPECTING_REPLY"}

IsReply(f, s) ==
  f.dst = s /\ f.type \in {"REPLY_POSTPONED", "DATA_NOT_EXPECTING_REPLY",
                           "DATA_EXPECTING_REPLY"}

ReceivedReply(s) ==
  /\ Waiting(s) /\ port[s].Received.flag = "Valid"
  /\ IsReply(port[s].Received.frame, s)
  /\ Become(s, [port[s] EXCEPT !.Received = Nothing,
                  !.master_state = "DONE_WITH_TOKEN"])

(* There may be several tokens: this one is dropped.                       *)
WaitUnexpectedFrame(s) ==
  /\ Waiting(s) /\ port[s].Received.flag = "Valid"
  /\ ~ IsReply(port[s].Received.frame, s)
  /\ Become(s, [port[s] EXCEPT !.Received = Nothing, !.master_state = "IDLE"])

-----------------------------------------------------------------------------
(* DONE_WITH_TOKEN.                                                        *)
SendAnotherFrame(s) ==
  /\ Runs(s, "DONE_WITH_TOKEN")
  /\ port[s].FrameCount < Nmax_info_frames
  /\ Become(s, [port[s] EXCEPT !.master_state = "USE_TOKEN"])

Finished(s) ==
  Runs(s, "DONE_WITH_TOKEN") /\ port[s].FrameCount >= Nmax_info_frames

NextStationUnknown(s) ==
  Finished(s) /\ ~ port[s].SoleMaster /\ port[s].Next_Station = s

PollNextStation(s) ==
  /\ NextStationUnknown(s)
  /\ Send(s, [port[s] EXCEPT !.Poll_Station = Succ(s), !.RetryCount = 0,
                !.master_state = "POLL_FOR_MASTER"],
          "POLL_FOR_MASTER", Succ(s))

Npolled(s) == port[s].TokenCount >= Npoll - 1

SoleMaster(s) ==
  /\ Finished(s) /\ ~ NextStationUnknown(s) /\ ~ Npolled(s)
  /\ port[s].SoleMaster /\ port[s].Next_Station # Succ(s)
  /\ Become(s, [port[s] EXCEPT !.FrameCount = 0, !.TokenCount = @ + 1,
                  !.master_state = "USE_TOKEN"])

(* The token goes to Next_Station.                                         *)
PassToken(s, tokenCount, pollStation) ==
  Send(s, [port[s] EXCEPT !.TokenCount = tokenCount,
             !.Poll_Station = pollStation, !.RetryCount = 0,
             !.EventCount = FALSE, !.master_state = "PASS_TOKEN"],
       "TOKEN", port[s].Next_Station)

SendToken(s) ==
  /\ Finished(s) /\ ~ NextStationUnknown(s) /\ ~ Npolled(s)
  /\ ~ port[s].SoleMaster \/ port[s].Next_Station = Succ(s)
  /\ PassToken(s, port[s].TokenCount + 1, port[s].Poll_Station)

(* A new search that begins behind Next_Station, which is given up.        *)
FindSuccessor(s, tokenCount) ==
  LET ps == Succ(port[s].Next_Station)
  IN Send(s, [port[s] EXCEPT !.Poll_Station = ps, !.Next_Station = s,
                !.RetryCount = 0, !.TokenCount = tokenCount,
                !.master_state = "POLL_FOR_MASTER"], "POLL_FOR_MASTER", ps)

(* Variant: one poll too many.                                             *)
AllPolled_Late(s) == port[s].Poll_Station = port[s].Next_Station

AllPolled(s) == Succ(port[s].Poll_Station) = port[s].Next_Station

SoleMasterRestartMaintenancePFM(s) ==
  /\ Finished(s) /\ ~ NextStationUnknown(s) /\ Npolled(s) /\ AllPolled(s)
  /\ port[s].SoleMaster
  /\ FindSuccessor(s, 1)

(* Variant: the next round of polls does not start over.                   *)
ResetMaintenancePFM_KeepsPoll(s) ==
  /\ Finished(s) /\ ~ NextStationUnknown(s) /\ Npolled(s) /\ AllPolled(s)
  /\ ~ port[s].SoleMaster
  /\ PassToken(s, 1, port[s].Poll_Station)

ResetMaintenancePFM(s) ==
  /\ Finished(s) /\ ~ NextStationUnknown(s) /\ Npolled(s) /\ AllPolled(s)
  /\ ~ port[s].SoleMaster
  /\ PassToken(s, 1, s)

SendMaintenancePFM(s) ==
  /\ Finished(s) /\ ~ NextStationUnknown(s) /\ Npolled(s) /\ ~ AllPolled(s)
  /\ Send(s, [port[s] EXCEPT !.Poll_Station = Succ(@), !.RetryCount = 0,
                !.master_state = "POLL_FOR_MASTER"],
          "POLL_FOR_MASTER", Succ(port[s].Poll_Station))

-----------------------------------------------------------------------------
(* PASS_TOKEN.                                                             *)
SawTokenUser(s) ==
  /\ Runs(s, "PASS_TOKEN")
  /\ port[s].SilenceTimer <= Tusage_timeout
  /\ port[s].EventCount
  /\ Become(s, [port[s] EXCEPT !.master_state = "IDLE"])

(* Variant: the repetitions are not counted.                               *)
RetrySendToken_Uncounted(s) ==
  /\ Runs(s, "PASS_TOKEN")
  /\ port[s].SilenceTimer > Tusage_timeout
  /\ port[s].RetryCount < Nretry_token
  /\ Send(s, [port[s] EXCEPT !.EventCount = FALSE],
          "TOKEN", port[s].Next_Station)

RetrySendToken(s) ==
  /\ Runs(s, "PASS_TOKEN")
  /\ port[s].SilenceTimer > Tusage_timeout
  /\ port[s].RetryCount < Nretry_token
  /\ Send(s, [port[s] EXCEPT !.RetryCount = @ + 1, !.EventCount = FALSE],
          "TOKEN", port[s].Next_Station)

FindNewSuccessor(s) ==
  /\ Runs(s, "PASS_TOKEN")
  /\ port[s].SilenceTimer > Tusage_timeout
  /\ port[s].RetryCount >= Nretry_token
  /\ FindSuccessor(s, 0)

(* NO_TOKEN.  Each address has a turn of its own to generate a token; one  *)
(* that was missed comes again after everyone's.                           *)
SlotBegin(s) == Tno_token + Tslot * s
SlotEnd(s) == Tno_token + Tslot * (s + 1)
LastSlotEnd == Tno_token + Tslot * (Nmax_master + 1)

(* Variant: anyone may when the token is lost.                             *)
HasSlot_Any(s) == port[s].SilenceTimer >= Tno_token

HasSlot(s) ==
  LET t == port[s].SilenceTimer
  IN t >= SlotBegin(s) /\ (t < SlotEnd(s) \/ t > LastSlotEnd)

SawFrame(s) ==
  /\ Runs(s, "NO_TOKEN")
  /\ ~ HasSlot(s)
  /\ port[s].EventCount
  /\ Become(s, [port[s] EXCEPT !.master_state = "IDLE"])

GenerateToken(s) ==
  /\ Runs(s, "NO_TOKEN")
  /\ HasSlot(s)
  /\ Send(s, [port[s] EXCEPT !.Poll_Station = Succ(s), !.Next_Station = s,
                !.RetryCount = 0, !.TokenCount = 0,
                !.master_state = "POLL_FOR_MASTER"],
          "POLL_FOR_MASTER", Succ(s))

-----------------------------------------------------------------------------
(* POLL_FOR_MASTER.                                                        *)
IsReplyToPFM(f, s) == f.dst = s /\ f.type = "REPLY_TO_POLL_FOR_MASTER"

(* Variant: the next round of polls goes on from where this one was.       *)
ReceivedReplyToPFM_KeepsPoll(s) ==
  /\ Runs(s, "POLL_FOR_MASTER") /\ port[s].Received.flag = "Valid"
  /\ IsReplyToPFM(port[s].Received.frame, s)
  /\ LET ns == port[s].Received.frame.src
     IN Send(s, [port[s] EXCEPT !.SoleMaster = FALSE, !.Next_Station = ns,
                   !.EventCount = FALSE, !.TokenCount = 0,
                   !.RetryCount = 0, !.Received = Nothing,
                   !.master_state = "PASS_TOKEN"], "TOKEN", ns)

ReceivedReplyToPFM(s) ==
  /\ Runs(s, "POLL_FOR_MASTER") /\ port[s].Received.flag = "Valid"
  /\ IsReplyToPFM(port[s].Received.frame, s)
  /\ LET ns == port[s].Received.frame.src
     IN Send(s, [port[s] EXCEPT !.SoleMaster = FALSE, !.Next_Station = ns,
                   !.EventCount = FALSE, !.Poll_Station = s, !.TokenCount = 0,
                   !.RetryCount = 0, !.Received = Nothing,
                   !.master_state = "PASS_TOKEN"], "TOKEN", ns)

(* There may be several tokens: this one is dropped.                       *)
PollUnexpectedFrame(s) ==
  /\ Runs(s, "POLL_FOR_MASTER") /\ port[s].Received.flag = "Valid"
  /\ ~ IsReplyToPFM(port[s].Received.frame, s)
  /\ Become(s, [port[s] EXCEPT !.Received = Nothing, !.master_state = "IDLE"])

PollFailed(s) ==
  /\ Runs(s, "POLL_FOR_MASTER")
  /\ \/ GotBad(s)
     \/ port[s].Received = Nothing /\ port[s].SilenceTimer > Tusage_timeout

SoleMasterPollFailed(s) ==
  /\ PollFailed(s) /\ port[s].SoleMaster
  /\ Become(s, [port[s] EXCEPT !.FrameCount = 0, !.Received = Nothing,
                  !.master_state = "USE_TOKEN"])

DoneWithPFM(s) ==
  /\ PollFailed(s) /\ ~ port[s].SoleMaster /\ port[s].Next_Station # s
  /\ Send(s, [port[s] EXCEPT !.EventCount = FALSE, !.RetryCount = 0,
                !.Received = Nothing, !.master_state = "PASS_TOKEN"],
          "TOKEN", port[s].Next_Station)

SendNextPFM(s) ==
  /\ PollFailed(s) /\ ~ port[s].SoleMaster /\ port[s].Next_Station = s
  /\ Succ(port[s].Poll_Station) # s
  /\ Send(s, [port[s] EXCEPT !.Poll_Station = Succ(@), !.RetryCount = 0,
                !.Received = Nothing],
          "POLL_FOR_MASTER", Succ(port[s].Poll_Station))

DeclareSoleMaster(s) ==
  /\ PollFailed(s) /\ ~ port[s].SoleMaster /\ port[s].Next_Station = s
  /\ Succ(port[s].Poll_Station) = s
  /\ Become(s, [port[s] EXCEPT !.SoleMaster = TRUE, !.FrameCount = 0,
                  !.Received = Nothing, !.master_state = "USE_TOKEN"])

(* ANSWER_DATA_REQUEST.  MSTP_Get_Reply finds the answer sooner or later,  *)
(* or does not; it is asked before the timer is.                           *)
Reply(s) ==
  /\ Runs(s, "ANSWER_DATA_REQUEST")
  /\ Send(s, [port[s] EXCEPT !.Received = Nothing, !.master_state = "IDLE"],
          "DATA_NOT_EXPECTING_REPLY", port[s].Received.frame.src)

DeferredReply(s) ==
  /\ Runs(s, "ANSWER_DATA_REQUEST")
  /\ port[s].SilenceTimer > Treply_delay
  /\ Send(s, [port[s] EXCEPT !.Received = Nothing, !.master_state = "IDLE"],
          "REPLY_POSTPONED", port[s].Received.frame.src)

-----------------------------------------------------------------------------
(* Station s has something to do now, without waiting for the time to      *)
(* pass: a frame to read or to deal with, a state it does not stay in, or  *)
(* a timer that has run out.                                               *)
Due(s) ==
  LET p == port[s]
      t == p.SilenceTimer
  IN /\ Awake(s)
     /\ \/ CanRead(s)
        \/ p.master_state \in {"INITIALIZE", "USE_TOKEN", "DONE_WITH_TOKEN"}
        \/ /\ p.master_state \in {"IDLE", "WAIT_FOR_REPLY", "POLL_FOR_MASTER"}
           /\ p.Received # Nothing
        \/ p.master_state = "IDLE" /\ t >= Tno_token
        \/ p.master_state = "WAIT_FOR_REPLY" /\ ReplyOverdue(s)
        \/ p.master_state = "ANSWER_DATA_REQUEST" /\ t > Treply_delay
        \/ p.master_state = "PASS_TOKEN" /\ (p.EventCount \/ t > Tusage_timeout)
        \/ p.master_state = "NO_TOKEN" /\ (p.EventCount \/ HasSlot(s))
        \/ p.master_state = "POLL_FOR_MASTER" /\ t > Tusage_timeout

DueStation == {s \in Station : Due(s)}

(* The steps of station s: dlmstp_receive in the receive task.             *)
MustAct(s) ==
  /\ s \in DueStation
  /\ \/ Read(s)
     \/ DoneInitializing(s)
     \/ ReceivedBad(s) \/ ReceivedToken(s) \/ ReceivedPFM(s)
     \/ ReceivedNoReplyNeeded(s) \/ ReceivedDataNeedingReply(s) \/ LostToken(s)
     \/ NothingToSend(s)
     \/ \E d \in Data : SendInfoFrame(s, d[1], d[3])
     \/ ReplyTimeout(s) \/ InvalidReply(s) \/ ReceivedReply(s)
     \/ WaitUnexpectedFrame(s)
     \/ SendAnotherFrame(s) \/ PollNextStation(s) \/ SoleMaster(s)
     \/ SendToken(s) \/ SoleMasterRestartMaintenancePFM(s)
     \/ ResetMaintenancePFM(s) \/ SendMaintenancePFM(s)
     \/ SawTokenUser(s) \/ RetrySendToken(s) \/ FindNewSuccessor(s)
     \/ SawFrame(s) \/ GenerateToken(s)
     \/ ReceivedReplyToPFM(s) \/ PollUnexpectedFrame(s)
     \/ SoleMasterPollFailed(s) \/ DoneWithPFM(s) \/ SendNextPFM(s)
     \/ DeclareSoleMaster(s)
     \/ DeferredReply(s)

Step(s) == MustAct(s) \/ Reply(s)

-----------------------------------------------------------------------------
(* The line.                                                               *)
Talker == {s \in Station : air[s] # NoFrame}

Quieter(p) ==
  [p EXCEPT !.SilenceTimer = IF @ < MaxSilence THEN @ + 1 ELSE @]

(* What MSTP_Frame_For_Us and the checks of the frame make of it at t.     *)
AsReceived(f, t) ==
  IF f.dst \in {t, Broadcast}
    THEN [flag |-> "Valid", frame |-> f]
    ELSE [flag |-> "NotForUs", frame |-> NoFrame]

(* Station t can read at once what arrives.                                *)
ReadsAtOnce(t) ==
  t \notin busy /\ port[t].Received = Nothing /\ uart[t] = <<>>

(* One tick: heard[t] arrives at t, unless it is Nothing.  A talker has    *)
(* sent its last octet.                                                    *)
Arrive(heard) ==
  /\ port' = [t \in Station |->
                IF t \in Talker THEN [port[t] EXCEPT !.SilenceTimer = 0]
                ELSE IF heard[t] # Nothing /\ ReadsAtOnce(t)
                  THEN HasRead(port[t], heard[t])
                ELSE Quieter(port[t])]
  /\ uart' = [t \in Station |->
                IF heard[t] # Nothing /\ ~ ReadsAtOnce(t)
                  THEN Append(uart[t], heard[t])
                  ELSE uart[t]]
  /\ air' = [t \in Station |-> NoFrame]
  /\ UNCHANGED <<on, busy, joins>>

(* Everyone listens who is powered and does not send.                      *)
Listener == on \ Talker

Heard(r) == [t \in Station |-> IF t \in Listener THEN r[t] ELSE Nothing]

(* A stall ends before more than MaxBacklog frames have not been read.      *)
NobodyIsDue ==
  /\ DueStation = {}
  /\ \A s \in busy : Len(uart[s]) < MaxBacklog

TimePasses == NobodyIsDue /\ UNCHANGED faults

Silence ==
  /\ TimePasses
  /\ Talker = {}
  /\ Arrive([t \in Station |-> Nothing])
  /\ UNCHANGED clean

Delivery ==
  /\ TimePasses
  /\ \E s \in Talker :
       /\ Talker = {s}
       /\ Arrive(Heard([t \in Station |-> AsReceived(air[s], t)]))
  /\ UNCHANGED clean

(* The stations of some set get nothing, or something they cannot read.    *)
Loss ==
  /\ NobodyIsDue
  /\ faults < MaxFaults
  /\ \E s \in Talker, L \in SUBSET Station, r \in {Nothing, Damaged} :
       /\ Talker = {s}
       /\ L # {} /\ L \subseteq Listener
       /\ Arrive(Heard([t \in Station |->
                          IF t \in L THEN r ELSE AsReceived(air[s], t)]))
  /\ faults' = faults + 1
  /\ clean' = FALSE

Collision ==
  /\ TimePasses
  /\ Cardinality(Talker) > 1
  /\ Arrive(Heard([t \in Station |-> Damaged]))
  /\ clean' = FALSE

Tick == Silence \/ Delivery \/ Loss \/ Collision

-----------------------------------------------------------------------------
(* The token and where it is.                                              *)
UsesToken(s) ==
  s \in on /\ port[s].master_state \in
    {"USE_TOKEN", "WAIT_FOR_REPLY", "DONE_WITH_TOKEN", "POLL_FOR_MASTER"}

IsToken(r) == r.flag = "Valid" /\ r.frame.type = "TOKEN"

TokenInAir == {s \in Station : air[s].type = "TOKEN"}
TokenArrived == {s \in on : IsToken(port[s].Received)}
TokenInUart == {s \in on : \E i \in 1 .. Len(uart[s]) : IsToken(uart[s][i])}

TokenHolder == {s \in Station : UsesToken(s)}

TokenExists ==
  \/ TokenHolder # {} \/ TokenInAir # {} \/ TokenArrived # {}
  \/ \E s \in on : port[s].master_state = "PASS_TOKEN"

(* Faults of a station.                                                    *)

(* The receive task is kept from the machine, by a request it handles.     *)
Stall(s) ==
  /\ s \in on \ busy /\ air[s] = NoFrame
  /\ faults < MaxFaults
  /\ busy' = busy \cup {s}
  /\ faults' = faults + 1
  /\ clean' = FALSE
  /\ UNCHANGED <<port, uart, air, on, joins>>

Resume(s) ==
  /\ s \in busy
  /\ busy' = busy \ {s}
  /\ UNCHANGED <<port, uart, air, on, faults, joins, clean>>

PowerOff(s) ==
  /\ s \in on
  /\ faults < MaxFaults
  /\ on' = on \ {s}
  /\ busy' = busy \ {s}
  /\ port' = [port EXCEPT ![s] = MSTP_Init(s)]
  /\ uart' = [uart EXCEPT ![s] = <<>>]
  /\ air' = [air EXCEPT ![s] = NoFrame]
  /\ faults' = faults + 1
  /\ clean' = (clean /\ \A t, u \in on \ {s} :
                          port[t].SilenceTimer = port[u].SilenceTimer)
  /\ UNCHANGED joins

(* bacnet_mstp_init after a restart.                                       *)
PowerOn(s) ==
  /\ s \in Station \ on
  /\ joins < MaxJoins
  /\ on' = on \cup {s}
  /\ port' = [port EXCEPT ![s] = MSTP_Init(s)]
  /\ clean' = (clean /\ TokenExists)
  /\ joins' = joins + 1
  /\ UNCHANGED <<uart, air, busy, faults>>

Next ==
  \/ \E s \in Station :
       Step(s) \/ Stall(s) \/ Resume(s) \/ PowerOff(s) \/ PowerOn(s)
  \/ Tick

(* The receive task of a station runs every millisecond, so stations do    *)
(* what is due and time passes; a request is handled in the end.  No       *)
(* answer, no data and no restart is owed by anyone.                       *)
TimeProceeds == []<><<Tick>>_vars

Fairness == TimeProceeds /\ \A s \in Station : WF_vars(Resume(s))

Safety == Init /\ [][Next]_vars
Spec == Safety /\ Fairness

-----------------------------------------------------------------------------
TypeOK ==
  /\ port \in [Station -> Port]
  /\ uart \in [Station -> Seq(Reception)]
  /\ air \in [Station -> Frame \cup {NoFrame}]
  /\ on \subseteq Station
  /\ busy \subseteq on
  /\ faults \in 0 .. MaxFaults
  /\ joins \in 0 .. MaxJoins
  /\ clean \in BOOLEAN

(* While no frame is damaged nobody else has the token a station has or    *)
(* is being passed, whichever stations are there, join while the others    *)
(* work, or fail: a lost token is generated again by one station only.     *)
OneToken ==
  clean => Cardinality(TokenHolder) + Cardinality(TokenInAir)
             + Cardinality(TokenArrived) <= 1

(* While no frame is damaged no two stations talk at once: the turns in    *)
(* which a token is generated keep them apart, and so do the waits for an  *)
(* answer, a poll and the use of a token.                                  *)
NoCollision == clean => Cardinality(Talker) <= 1

(* While no frame is damaged nobody takes what it receives for a sign of   *)
(* another token and drops its own (ReceivedUnexpectedFrame): who has the  *)
(* token keeps it until it passes it on.                                   *)
HasToken(s) == UsesToken(s) \/ s \in TokenArrived

TokenNotDropped ==
  [][clean' => \A s \in on \cap on' :
       HasToken(s) => HasToken(s)' \/ port'[s].master_state = "PASS_TOKEN"]_vars

(* How far the address a is behind s.                                      *)
After(s, a) == (a - s) % (Nmax_master + 1)

(* Whatever is lost, damaged or switched off, a station that has found the *)
(* next one polls only the addresses between the two, so that it takes     *)
(* nobody else's successor for its own.                                    *)
PollsOnlyTheGap ==
  \A s \in Station : port[s].Next_Station # s =>
    After(s, port[s].Poll_Station) < After(s, port[s].Next_Station)

(* An address nobody is at between a station and the next one is skipped,  *)
(* a station that is there is not.                                         *)
IsNextOn(s, n) ==
  n \in on \ {s} /\ \A t \in on \ {s, n} : After(s, n) < After(s, t)

RingClosed ==
  \A s \in on :
    IF on = {s} THEN port[s].SoleMaster
                ELSE ~ port[s].SoleMaster /\ IsNextOn(s, port[s].Next_Station)

(* As long as no frame is damaged, nobody has failed and nobody joins, a   *)
(* ring that has closed stays closed: no answer to a poll that comes late  *)
(* or is meant for another, no token that is not used, no turn to generate *)
(* one breaks it.                                                          *)
RingStays ==
  [][RingClosed /\ clean' /\ faults' = 0 /\ on' = on => RingClosed']_vars

(* Two stations that never fall out of step with each other.  The timers   *)
(* of real stations drift, and one that hears the other begin to send      *)
(* before it does so itself is not in the way.                             *)
Lockstep == []<>(Cardinality(Talker) > 1)

(* After whatever was lost, damaged, delayed, switched off and on, the     *)
(* stations that are there find each other: in the end each passes the     *)
(* token to the next one, a station that is alone knows it, and tokens     *)
(* that were duplicated have been dropped.                                 *)
RingCloses ==
  Lockstep \/ <>[](RingClosed /\ Cardinality(TokenHolder) <= 1)

(* Every station that stays gets the token again and again: a token that   *)
(* was lost is replaced, and no station is left out.                       *)
TokenComesRound ==
  \/ Lockstep
  \/ \A s \in Station : []<>(s \notin on \/ port[s].master_state = "USE_TOKEN")
=============================================================================
