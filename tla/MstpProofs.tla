----------------------------- MODULE MstpProofs -----------------------------
(* Types of Mstp, and the order in which it polls addresses, for any       *)
(* segment and any number of faults.                                       *)
EXTENDS Mstp, ModuloProofs

(* A station that has the token has not used up the frames it may send.    *)
MaySend(p) ==
  p.master_state = "USE_TOKEN" => p.FrameCount < Nmax_info_frames

TokenLimit == \A s \in Station : MaySend(port[s])

Inv == TypeOK /\ TokenLimit

LEMMA Numbers ==
  /\ Nmax_master \in Nat \ {0} /\ Npoll \in Nat /\ Npoll > 1
  /\ Nmax_info_frames \in Nat \ {0} /\ Nretry_token \in Nat
  /\ MaxSilence \in Nat
<1>1. /\ Nmax_master \in Nat \ {0} /\ Tslot \in Nat /\ Tno_token \in Nat
      /\ Npoll \in Nat /\ Npoll > 1
      /\ Nmax_info_frames \in Nat \ {0} /\ Nretry_token \in Nat
  BY MstpAssumption
<1>2. Tslot * (Nmax_master + 1) \in Nat
  BY <1>1
<1>3. QED
  BY <1>1, <1>2 DEF MaxSilence

LEMMA Constants ==
  /\ {0, 1, Npoll} \subseteq 0 .. Npoll
  /\ 0 \in 0 .. Nretry_token
  /\ {0, Nmax_info_frames} \subseteq 0 .. Nmax_info_frames
  /\ 0 < Nmax_info_frames
  /\ 0 \in 0 .. MaxSilence
  /\ {0} \cup Station \subseteq Address
  /\ Nothing \in Reception /\ Damaged \in Reception
<1>1. {0} \cup Station \subseteq Address
  BY Numbers, MstpAssumption DEF Address
<1>2. Nothing \in Reception /\ Damaged \in Reception
  BY DEF Nothing, Damaged, Reception
<1>3. QED
  BY <1>1, <1>2, Numbers

LEMMA SuccType ==
  ASSUME NEW a \in Address
  PROVE  Succ(a) \in Address
<1>1. Nmax_master + 1 \in Nat \ {0} /\ a + 1 \in Int
  BY Numbers DEF Address
<1>2. (a + 1) % (Nmax_master + 1) \in 0 .. (Nmax_master + 1) - 1
  BY <1>1, DivMod
<1>3. QED
  BY <1>2, Numbers DEF Succ, Address

LEMMA PortOf ==
  ASSUME Inv, NEW s \in Station
  PROVE  /\ port[s] \in Port
         /\ MaySend(port[s])
         /\ s \in Address
  BY Constants DEF Inv, TypeOK, TokenLimit

(* The frame a station has received, and whom it can be answered to.       *)
LEMMA ReceivedFrame ==
  ASSUME NEW p \in Port
  PROVE  /\ p.Received.frame.src \in Address
         /\ p.Received.flag = "Valid" => p.Received.frame \in Frame
<1>1. p.Received \in Reception
  BY DEF Port
<1>2. QED
  BY <1>1, Constants DEF Reception, NoFrame, Frame

-----------------------------------------------------------------------------
(* What a step of one station has to show.                                 *)

LEMMA BecomeKeeps ==
  ASSUME Inv, NEW s \in Station, NEW p \in Port, MaySend(p), Become(s, p)
  PROVE  Inv'
<1>1. port' = [port EXCEPT ![s] = p] /\ port \in [Station -> Port]
  BY DEF Become, Inv, TypeOK
<1>2. port' \in [Station -> Port] /\ \A t \in Station : MaySend(port'[t])
  BY <1>1 DEF Inv, TokenLimit
<1>3. QED
  BY <1>2 DEF Become, Inv, TypeOK, TokenLimit, MaySend

LEMMA SendKeeps ==
  ASSUME Inv, NEW s \in Station, NEW p \in Port, MaySend(p),
         NEW type \in FrameType, NEW dst \in Address \cup {Broadcast},
         Send(s, p, type, dst)
  PROVE  Inv'
<1>1. port' = [port EXCEPT ![s] = p] /\ port \in [Station -> Port]
  BY DEF Send, Inv, TypeOK
<1>2. port' \in [Station -> Port] /\ \A t \in Station : MaySend(port'[t])
  BY <1>1 DEF Inv, TokenLimit
<1>3. [type |-> type, src |-> s, dst |-> dst] \in Frame
  BY Constants DEF Frame
<1>4. air' \in [Station -> Frame \cup {NoFrame}]
  BY <1>3 DEF Send, Inv, TypeOK
<1>5. QED
  BY <1>2, <1>4 DEF Send, Inv, TypeOK, TokenLimit, MaySend

(* Reading a frame.                                                        *)
LEMMA ReadKeeps ==
  ASSUME Inv, NEW s \in Station, Read(s)
  PROVE  Inv'
<1>1. uart[s] \in Seq(Reception) /\ uart[s] # <<>>
  BY DEF Read, CanRead, Inv, TypeOK
<1>2. Head(uart[s]) \in Reception /\ Tail(uart[s]) \in Seq(Reception)
  BY <1>1
<1>3. HasRead(port[s], Head(uart[s])) \in Port
  BY <1>2, PortOf, Constants DEF HasRead, Port
<1>4. MaySend(HasRead(port[s], Head(uart[s])))
  BY PortOf DEF HasRead, Port, MaySend
<1>5. port' \in [Station -> Port] /\ \A t \in Station : MaySend(port'[t])
  BY <1>3, <1>4 DEF Read, Inv, TypeOK, TokenLimit
<1>6. uart' \in [Station -> Seq(Reception)]
  BY <1>2 DEF Read, Inv, TypeOK
<1>7. QED
  BY <1>5, <1>6 DEF Read, Inv, TypeOK, TokenLimit, MaySend

-----------------------------------------------------------------------------
(* The transitions of the master node machine, state by state.             *)

LEMMA IdleKeeps ==
  ASSUME Inv, NEW s \in Station,
         ReceivedBad(s) \/ ReceivedToken(s) \/ ReceivedPFM(s) \/
           ReceivedNoReplyNeeded(s) \/ ReceivedDataNeedingReply(s) \/
           LostToken(s)
  PROVE  Inv'
<1>0. /\ port[s] \in Port /\ MaySend(port[s]) /\ s \in Address
      /\ {port[s].Received.frame.src, port[s].Next_Station, Succ(s),
          Succ(port[s].Poll_Station)} \subseteq Address
  BY PortOf, ReceivedFrame, SuccType DEF Port
<1>1. CASE ReceivedBad(s)
  <2> DEFINE p == [port[s] EXCEPT !.Received = Nothing]
  <2>1. p \in Port /\ MaySend(p)
    BY <1>0, Constants, <1>1
    DEF Port, MaySend, MasterState, ReceivedBad, Runs
  <2>2. Become(s, p)
    BY <1>1 DEF ReceivedBad
  <2>3. QED
    BY <2>1, <2>2, BecomeKeeps
<1>2. CASE ReceivedToken(s)
  <2> DEFINE p ==
        [port[s] EXCEPT !.Received = Nothing, !.FrameCount = 0,
                        !.SoleMaster = FALSE, !.master_state = "USE_TOKEN"]
  <2>1. p \in Port /\ MaySend(p)
    BY <1>0, Constants
    DEF Port, MaySend, MasterState
  <2>2. Become(s, p)
    BY <1>2 DEF ReceivedToken
  <2>3. QED
    BY <2>1, <2>2, BecomeKeeps
<1>3. CASE ReceivedPFM(s)
  <2> DEFINE p == [port[s] EXCEPT !.Received = Nothing]
  <2>1. p \in Port /\ MaySend(p)
    BY <1>0, Constants, <1>3
    DEF Port, MaySend, MasterState, ReceivedPFM, Runs
  <2>2. Send(s, p, "REPLY_TO_POLL_FOR_MASTER", port[s].Received.frame.src)
    BY <1>3 DEF ReceivedPFM
  <2>3. QED
    BY <1>0, <2>1, <2>2, SendKeeps DEF FrameType
<1>4. CASE ReceivedNoReplyNeeded(s)
  <2> DEFINE p == [port[s] EXCEPT !.Received = Nothing]
  <2>1. p \in Port /\ MaySend(p)
    BY <1>0, Constants, <1>4
    DEF Port, MaySend, MasterState, ReceivedNoReplyNeeded, Runs
  <2>2. Become(s, p)
    BY <1>4 DEF ReceivedNoReplyNeeded
  <2>3. QED
    BY <2>1, <2>2, BecomeKeeps
<1>5. CASE ReceivedDataNeedingReply(s)
  <2> DEFINE p == [port[s] EXCEPT !.master_state = "ANSWER_DATA_REQUEST"]
  <2>1. p \in Port /\ MaySend(p)
    BY <1>0, Constants
    DEF Port, MaySend, MasterState
  <2>2. Become(s, p)
    BY <1>5 DEF ReceivedDataNeedingReply
  <2>3. QED
    BY <2>1, <2>2, BecomeKeeps
<1>6. CASE LostToken(s)
  <2> DEFINE p == [port[s] EXCEPT !.EventCount = FALSE,
                                  !.master_state = "NO_TOKEN"]
  <2>1. p \in Port /\ MaySend(p)
    BY <1>0, Constants
    DEF Port, MaySend, MasterState
  <2>2. Become(s, p)
    BY <1>6 DEF LostToken
  <2>3. QED
    BY <2>1, <2>2, BecomeKeeps
<1>7. QED
  BY <1>1, <1>2, <1>3, <1>4, <1>5, <1>6

LEMMA DoneWithTokenKeeps ==
  ASSUME Inv, NEW s \in Station,
         SendAnotherFrame(s) \/ PollNextStation(s) \/ SoleMaster(s) \/
           SendMaintenancePFM(s)
  PROVE  Inv'
<1>0. /\ port[s] \in Port /\ MaySend(port[s]) /\ s \in Address
      /\ {port[s].Received.frame.src, port[s].Next_Station, Succ(s),
          Succ(port[s].Poll_Station)} \subseteq Address
  BY PortOf, ReceivedFrame, SuccType DEF Port
<1>1. CASE SendAnotherFrame(s)
  <2> DEFINE p == [port[s] EXCEPT !.master_state = "USE_TOKEN"]
  <2>1. p \in Port /\ MaySend(p)
    BY <1>0, Constants, <1>1
    DEF Port, MaySend, MasterState, SendAnotherFrame, Runs
  <2>2. Become(s, p)
    BY <1>1 DEF SendAnotherFrame
  <2>3. QED
    BY <2>1, <2>2, BecomeKeeps
<1>2. CASE PollNextStation(s)
  <2> DEFINE p == [port[s] EXCEPT !.Poll_Station = Succ(s), !.RetryCount = 0,
                                  !.master_state = "POLL_FOR_MASTER"]
  <2>1. p \in Port /\ MaySend(p)
    BY <1>0, Constants
    DEF Port, MaySend, MasterState
  <2>2. Send(s, p, "POLL_FOR_MASTER", Succ(s))
    BY <1>2 DEF PollNextStation
  <2>3. QED
    BY <1>0, <2>1, <2>2, SendKeeps DEF FrameType
<1>3. CASE SoleMaster(s)
  <2> DEFINE p == [port[s] EXCEPT !.FrameCount = 0, !.TokenCount = @ + 1,
                                  !.master_state = "USE_TOKEN"]
  <2>1. port[s].TokenCount + 1 \in 0 .. Npoll
    BY <1>0, <1>3, Numbers DEF Port, SoleMaster, Npolled
  <2>2. p \in Port /\ MaySend(p)
    BY <1>0, <2>1, Constants DEF Port, MaySend, MasterState
  <2>3. Become(s, p)
    BY <1>3 DEF SoleMaster
  <2>4. QED
    BY <2>2, <2>3, BecomeKeeps
<1>4. CASE SendMaintenancePFM(s)
  <2> DEFINE p == [port[s] EXCEPT !.Poll_Station = Succ(@), !.RetryCount = 0,
                                  !.master_state = "POLL_FOR_MASTER"]
  <2>1. p \in Port /\ MaySend(p)
    BY <1>0, Constants
    DEF Port, MaySend, MasterState
  <2>2. Send(s, p, "POLL_FOR_MASTER", Succ(port[s].Poll_Station))
    BY <1>4 DEF SendMaintenancePFM
  <2>3. QED
    BY <1>0, <2>1, <2>2, SendKeeps DEF FrameType
<1>5. QED
  BY <1>1, <1>2, <1>3, <1>4

LEMMA PassTokenAndNoTokenKeeps ==
  ASSUME Inv, NEW s \in Station,
         SawTokenUser(s) \/ RetrySendToken(s) \/ SawFrame(s) \/
           GenerateToken(s)
  PROVE  Inv'
<1>0. /\ port[s] \in Port /\ MaySend(port[s]) /\ s \in Address
      /\ {port[s].Received.frame.src, port[s].Next_Station, Succ(s),
          Succ(port[s].Poll_Station)} \subseteq Address
  BY PortOf, ReceivedFrame, SuccType DEF Port
<1>1. CASE SawTokenUser(s)
  <2> DEFINE p == [port[s] EXCEPT !.master_state = "IDLE"]
  <2>1. p \in Port /\ MaySend(p)
    BY <1>0, Constants
    DEF Port, MaySend, MasterState
  <2>2. Become(s, p)
    BY <1>1 DEF SawTokenUser
  <2>3. QED
    BY <2>1, <2>2, BecomeKeeps
<1>2. CASE RetrySendToken(s)
  <2> DEFINE p == [port[s] EXCEPT !.RetryCount = @ + 1, !.EventCount = FALSE]
  <2>1. port[s].RetryCount + 1 \in 0 .. Nretry_token
    BY <1>0, <1>2, Numbers DEF Port, RetrySendToken
  <2>2. p.master_state = "PASS_TOKEN"
    BY <1>0, <1>2 DEF Port, RetrySendToken, Runs
  <2>3. p \in Port /\ MaySend(p)
    BY <1>0, <2>1, <2>2 DEF Port, MaySend
  <2>4. Send(s, p, "TOKEN", port[s].Next_Station)
    BY <1>2 DEF RetrySendToken
  <2>5. QED
    BY <1>0, <2>3, <2>4, SendKeeps DEF FrameType
<1>3. CASE SawFrame(s)
  <2> DEFINE p == [port[s] EXCEPT !.master_state = "IDLE"]
  <2>1. p \in Port /\ MaySend(p)
    BY <1>0, Constants
    DEF Port, MaySend, MasterState
  <2>2. Become(s, p)
    BY <1>3 DEF SawFrame
  <2>3. QED
    BY <2>1, <2>2, BecomeKeeps
<1>4. CASE GenerateToken(s)
  <2> DEFINE p == [port[s] EXCEPT !.Poll_Station = Succ(s), !.Next_Station = s,
                                  !.RetryCount = 0, !.TokenCount = 0,
                                  !.master_state = "POLL_FOR_MASTER"]
  <2>1. p \in Port /\ MaySend(p)
    BY <1>0, Constants
    DEF Port, MaySend, MasterState
  <2>2. Send(s, p, "POLL_FOR_MASTER", Succ(s))
    BY <1>4 DEF GenerateToken
  <2>3. QED
    BY <1>0, <2>1, <2>2, SendKeeps DEF FrameType
<1>5. QED
  BY <1>1, <1>2, <1>3, <1>4

LEMMA WaitForReplyKeeps ==
  ASSUME Inv, NEW s \in Station,
         ReplyTimeout(s) \/ InvalidReply(s) \/ ReceivedReply(s) \/
           WaitUnexpectedFrame(s)
  PROVE  Inv'
<1>0. /\ port[s] \in Port /\ MaySend(port[s]) /\ s \in Address
      /\ {port[s].Received.frame.src, port[s].Next_Station, Succ(s),
          Succ(port[s].Poll_Station)} \subseteq Address
  BY PortOf, ReceivedFrame, SuccType DEF Port
<1>1. CASE ReplyTimeout(s)
  <2> DEFINE p == [port[s] EXCEPT !.FrameCount = Nmax_info_frames,
                                  !.master_state = "DONE_WITH_TOKEN"]
  <2>1. p \in Port /\ MaySend(p)
    BY <1>0, Constants
    DEF Port, MaySend, MasterState
  <2>2. Become(s, p)
    BY <1>1 DEF ReplyTimeout
  <2>3. QED
    BY <2>1, <2>2, BecomeKeeps
<1>2. CASE InvalidReply(s)
  <2> DEFINE p == [port[s] EXCEPT !.Received = Nothing,
                                  !.master_state = "DONE_WITH_TOKEN"]
  <2>1. p \in Port /\ MaySend(p)
    BY <1>0, Constants
    DEF Port, MaySend, MasterState
  <2>2. Become(s, p)
    BY <1>2 DEF InvalidReply
  <2>3. QED
    BY <2>1, <2>2, BecomeKeeps
<1>3. CASE ReceivedReply(s)
  <2> DEFINE p == [port[s] EXCEPT !.Received = Nothing,
                                  !.master_state = "DONE_WITH_TOKEN"]
  <2>1. p \in Port /\ MaySend(p)
    BY <1>0, Constants
    DEF Port, MaySend, MasterState
  <2>2. Become(s, p)
    BY <1>3 DEF ReceivedReply
  <2>3. QED
    BY <2>1, <2>2, BecomeKeeps
<1>4. CASE WaitUnexpectedFrame(s)
  <2> DEFINE p ==
        [port[s] EXCEPT !.Received = Nothing, !.master_state = "IDLE"]
  <2>1. p \in Port /\ MaySend(p)
    BY <1>0, Constants
    DEF Port, MaySend, MasterState
  <2>2. Become(s, p)
    BY <1>4 DEF WaitUnexpectedFrame
  <2>3. QED
    BY <2>1, <2>2, BecomeKeeps
<1>5. QED
  BY <1>1, <1>2, <1>3, <1>4

LEMMA PollForMasterKeeps ==
  ASSUME Inv, NEW s \in Station,
         PollUnexpectedFrame(s) \/ SoleMasterPollFailed(s) \/
           DoneWithPFM(s) \/ SendNextPFM(s) \/ DeclareSoleMaster(s)
  PROVE  Inv'
<1>0. /\ port[s] \in Port /\ MaySend(port[s]) /\ s \in Address
      /\ {port[s].Received.frame.src, port[s].Next_Station, Succ(s),
          Succ(port[s].Poll_Station)} \subseteq Address
  BY PortOf, ReceivedFrame, SuccType DEF Port
<1>1. CASE PollUnexpectedFrame(s)
  <2> DEFINE p ==
        [port[s] EXCEPT !.Received = Nothing, !.master_state = "IDLE"]
  <2>1. p \in Port /\ MaySend(p)
    BY <1>0, Constants
    DEF Port, MaySend, MasterState
  <2>2. Become(s, p)
    BY <1>1 DEF PollUnexpectedFrame
  <2>3. QED
    BY <2>1, <2>2, BecomeKeeps
<1>2. CASE SoleMasterPollFailed(s)
  <2> DEFINE p == [port[s] EXCEPT !.FrameCount = 0, !.Received = Nothing,
                                  !.master_state = "USE_TOKEN"]
  <2>1. p \in Port /\ MaySend(p)
    BY <1>0, Constants
    DEF Port, MaySend, MasterState
  <2>2. Become(s, p)
    BY <1>2 DEF SoleMasterPollFailed
  <2>3. QED
    BY <2>1, <2>2, BecomeKeeps
<1>3. CASE DoneWithPFM(s)
  <2> DEFINE p ==
        [port[s] EXCEPT !.EventCount = FALSE, !.RetryCount = 0,
                        !.Received = Nothing, !.master_state = "PASS_TOKEN"]
  <2>1. p \in Port /\ MaySend(p)
    BY <1>0, Constants
    DEF Port, MaySend, MasterState
  <2>2. Send(s, p, "TOKEN", port[s].Next_Station)
    BY <1>3 DEF DoneWithPFM
  <2>3. QED
    BY <1>0, <2>1, <2>2, SendKeeps DEF FrameType
<1>4. CASE SendNextPFM(s)
  <2> DEFINE p == [port[s] EXCEPT !.Poll_Station = Succ(@), !.RetryCount = 0,
                                  !.Received = Nothing]
  <2>1. p \in Port /\ MaySend(p)
    BY <1>0, Constants, <1>4
    DEF Port, MaySend, MasterState, SendNextPFM, Runs, PollFailed
  <2>2. Send(s, p, "POLL_FOR_MASTER", Succ(port[s].Poll_Station))
    BY <1>4 DEF SendNextPFM
  <2>3. QED
    BY <1>0, <2>1, <2>2, SendKeeps DEF FrameType
<1>5. CASE DeclareSoleMaster(s)
  <2> DEFINE p ==
        [port[s] EXCEPT !.SoleMaster = TRUE, !.FrameCount = 0,
                        !.Received = Nothing, !.master_state = "USE_TOKEN"]
  <2>1. p \in Port /\ MaySend(p)
    BY <1>0, Constants
    DEF Port, MaySend, MasterState
  <2>2. Become(s, p)
    BY <1>5 DEF DeclareSoleMaster
  <2>3. QED
    BY <2>1, <2>2, BecomeKeeps
<1>6. QED
  BY <1>1, <1>2, <1>3, <1>4, <1>5

LEMMA AnswerDataRequestKeeps ==
  ASSUME Inv, NEW s \in Station,
         Reply(s) \/ DeferredReply(s)
  PROVE  Inv'
<1>0. /\ port[s] \in Port /\ MaySend(port[s]) /\ s \in Address
      /\ {port[s].Received.frame.src, port[s].Next_Station, Succ(s),
          Succ(port[s].Poll_Station)} \subseteq Address
  BY PortOf, ReceivedFrame, SuccType DEF Port
<1>1. CASE Reply(s)
  <2> DEFINE p ==
        [port[s] EXCEPT !.Received = Nothing, !.master_state = "IDLE"]
  <2>1. p \in Port /\ MaySend(p)
    BY <1>0, Constants
    DEF Port, MaySend, MasterState
  <2>2. Send(s, p, "DATA_NOT_EXPECTING_REPLY", port[s].Received.frame.src)
    BY <1>1 DEF Reply
  <2>3. QED
    BY <1>0, <2>1, <2>2, SendKeeps DEF FrameType
<1>2. CASE DeferredReply(s)
  <2> DEFINE p ==
        [port[s] EXCEPT !.Received = Nothing, !.master_state = "IDLE"]
  <2>1. p \in Port /\ MaySend(p)
    BY <1>0, Constants
    DEF Port, MaySend, MasterState
  <2>2. Send(s, p, "REPLY_POSTPONED", port[s].Received.frame.src)
    BY <1>2 DEF DeferredReply
  <2>3. QED
    BY <1>0, <2>1, <2>2, SendKeeps DEF FrameType
<1>3. QED
  BY <1>1, <1>2

LEMMA InitializeAndUseTokenKeeps ==
  ASSUME Inv, NEW s \in Station,
         DoneInitializing(s) \/ NothingToSend(s)
  PROVE  Inv'
<1>0. /\ port[s] \in Port /\ MaySend(port[s]) /\ s \in Address
      /\ {port[s].Received.frame.src, port[s].Next_Station, Succ(s),
          Succ(port[s].Poll_Station)} \subseteq Address
  BY PortOf, ReceivedFrame, SuccType DEF Port
<1>1. CASE DoneInitializing(s)
  <2> DEFINE p == [port[s] EXCEPT !.Next_Station = s, !.Poll_Station = s,
                                  !.TokenCount = Npoll, !.SoleMaster = FALSE,
                                  !.master_state = "IDLE"]
  <2>1. p \in Port /\ MaySend(p)
    BY <1>0, Constants
    DEF Port, MaySend, MasterState
  <2>2. Become(s, p)
    BY <1>1 DEF DoneInitializing
  <2>3. QED
    BY <2>1, <2>2, BecomeKeeps
<1>2. CASE NothingToSend(s)
  <2> DEFINE p == [port[s] EXCEPT !.FrameCount = Nmax_info_frames,
                                  !.master_state = "DONE_WITH_TOKEN"]
  <2>1. p \in Port /\ MaySend(p)
    BY <1>0, Constants
    DEF Port, MaySend, MasterState
  <2>2. Become(s, p)
    BY <1>2 DEF NothingToSend
  <2>3. QED
    BY <2>1, <2>2, BecomeKeeps
<1>3. QED
  BY <1>1, <1>2

(* Transitions that share what they send.                                  *)

LEMMA SendInfoFrameKeeps ==
  ASSUME Inv, NEW s \in Station, NEW d \in Data, SendInfoFrame(s, d[1], d[3])
  PROVE  Inv'
<1> DEFINE st == IF d[1] = "DATA_EXPECTING_REPLY" THEN "WAIT_FOR_REPLY"
                                                 ELSE "DONE_WITH_TOKEN"
           p == [port[s] EXCEPT !.FrameCount = @ + 1, !.master_state = st]
<1>1. port[s] \in Port /\ MaySend(port[s])
  BY PortOf
<1>2. port[s].FrameCount + 1 \in 0 .. Nmax_info_frames
  BY <1>1, Numbers DEF SendInfoFrame, Runs, MaySend, Port
<1>3. st \in MasterState /\ st # "USE_TOKEN"
  BY DEF MasterState
<1>4. p \in Port /\ MaySend(p)
  <2> HIDE DEF st
  <2>1. QED
    BY <1>1, <1>2, <1>3 DEF Port, MaySend
<1>5. d[1] \in FrameType /\ d[3] \in Address \cup {Broadcast}
  BY Constants, MstpAssumption DEF FrameType, Broadcast
<1>6. Send(s, p, d[1], d[3])
  BY DEF SendInfoFrame
<1>7. QED
  BY <1>4, <1>5, <1>6, SendKeeps

LEMMA PassTokenKeeps ==
  ASSUME Inv, NEW s \in Station, NEW count \in 0 .. Npoll,
         NEW poll \in Address, PassToken(s, count, poll)
  PROVE  Inv'
<1> DEFINE p == [port[s] EXCEPT !.TokenCount = count, !.Poll_Station = poll,
                   !.RetryCount = 0, !.EventCount = FALSE,
                   !.master_state = "PASS_TOKEN"]
<1>1. port[s] \in Port /\ port[s].Next_Station \in Address
  BY PortOf DEF Port
<1>2. p \in Port /\ MaySend(p)
  BY <1>1, Constants DEF Port, MaySend, MasterState
<1>3. Send(s, p, "TOKEN", port[s].Next_Station)
  BY DEF PassToken
<1>4. QED
  BY <1>1, <1>2, <1>3, SendKeeps DEF FrameType

LEMMA FindSuccessorKeeps ==
  ASSUME Inv, NEW s \in Station, NEW count \in 0 .. Npoll,
         FindSuccessor(s, count)
  PROVE  Inv'
<1> DEFINE ps == Succ(port[s].Next_Station)
           p == [port[s] EXCEPT !.Poll_Station = ps, !.Next_Station = s,
                   !.RetryCount = 0, !.TokenCount = count,
                   !.master_state = "POLL_FOR_MASTER"]
<1>1. port[s] \in Port /\ s \in Address
  BY PortOf
<1>2. ps \in Address
  BY <1>1, SuccType DEF Port
<1>3. Send(s, p, "POLL_FOR_MASTER", ps)
  BY DEF FindSuccessor
<1> HIDE DEF ps
<1>4. p \in Port /\ MaySend(p)
  BY <1>1, <1>2, Constants DEF Port, MaySend, MasterState
<1>5. QED
  BY <1>2, <1>3, <1>4, SendKeeps DEF FrameType

LEMMA TokenPassedKeeps ==
  ASSUME Inv, NEW s \in Station,
         SendToken(s) \/ ResetMaintenancePFM(s)
           \/ SoleMasterRestartMaintenancePFM(s) \/ FindNewSuccessor(s)
  PROVE  Inv'
<1>1. port[s] \in Port /\ s \in Address
  BY PortOf
<1>2. CASE SendToken(s)
  <2>1. port[s].TokenCount + 1 \in 0 .. Npoll
    BY <1>1, <1>2, Numbers DEF Port, SendToken, Npolled
  <2>2. port[s].Poll_Station \in Address
    BY <1>1 DEF Port
  <2>3. QED
    BY <1>2, <2>1, <2>2, PassTokenKeeps DEF SendToken
<1>3. CASE ResetMaintenancePFM(s)
  BY <1>1, <1>3, Constants, PassTokenKeeps DEF ResetMaintenancePFM
<1>4. CASE SoleMasterRestartMaintenancePFM(s)
  BY <1>4, Constants, FindSuccessorKeeps DEF SoleMasterRestartMaintenancePFM
<1>5. CASE FindNewSuccessor(s)
  BY <1>5, Constants, FindSuccessorKeeps DEF FindNewSuccessor
<1>6. QED
  BY <1>2, <1>3, <1>4, <1>5

LEMMA ReceivedReplyToPFMKeeps ==
  ASSUME Inv, NEW s \in Station, ReceivedReplyToPFM(s)
  PROVE  Inv'
<1> DEFINE ns == port[s].Received.frame.src
           p == [port[s] EXCEPT !.SoleMaster = FALSE, !.Next_Station = ns,
                   !.EventCount = FALSE, !.Poll_Station = s, !.TokenCount = 0,
                   !.RetryCount = 0, !.Received = Nothing,
                   !.master_state = "PASS_TOKEN"]
<1>1. port[s] \in Port /\ s \in Address /\ ns \in Address
  BY PortOf, ReceivedFrame
<1>2. Send(s, p, "TOKEN", ns)
  BY DEF ReceivedReplyToPFM
<1> HIDE DEF ns
<1>3. p \in Port /\ MaySend(p)
  BY <1>1, Constants DEF Port, MaySend, MasterState
<1>4. QED
  BY <1>1, <1>2, <1>3, SendKeeps DEF FrameType

LEMMA StepKeeps ==
  ASSUME Inv, NEW s \in Station, Step(s)
  PROVE  Inv'
  BY ReadKeeps, IdleKeeps, DoneWithTokenKeeps, PassTokenAndNoTokenKeeps,
     WaitForReplyKeeps, PollForMasterKeeps, AnswerDataRequestKeeps,
     InitializeAndUseTokenKeeps, SendInfoFrameKeeps, TokenPassedKeeps,
     ReceivedReplyToPFMKeeps
  DEF Step, MustAct

-----------------------------------------------------------------------------
(* The line and the faults of stations.                                    *)

LEMMA ArriveKeeps ==
  ASSUME Inv, NEW heard \in [Station -> Reception], Arrive(heard),
         faults' \in 0 .. MaxFaults, clean' \in BOOLEAN
  PROVE  Inv'
<1>1. ASSUME NEW t \in Station
      PROVE  port'[t] \in Port /\ MaySend(port'[t])
  <2>1. port[t] \in Port /\ MaySend(port[t])
    BY PortOf
  <2>2. \/ port'[t] = [port[t] EXCEPT !.SilenceTimer = 0]
        \/ port'[t] = HasRead(port[t], heard[t])
        \/ port'[t] = Quieter(port[t])
    BY DEF Arrive
  <2>3. CASE port'[t] = [port[t] EXCEPT !.SilenceTimer = 0]
    BY <2>1, <2>3, Constants DEF Port, MaySend
  <2>4. CASE port'[t] = HasRead(port[t], heard[t])
    BY <2>1, <2>4, Constants DEF Port, MaySend, HasRead
  <2>5. CASE port'[t] = Quieter(port[t])
    <3> DEFINE n == IF port[t].SilenceTimer < MaxSilence
                      THEN port[t].SilenceTimer + 1 ELSE port[t].SilenceTimer
    <3>1. n \in 0 .. MaxSilence
      BY <2>1, Numbers DEF Port
    <3>2. port'[t] = [port[t] EXCEPT !.SilenceTimer = n]
      BY <2>5 DEF Quieter
    <3> HIDE DEF n
    <3>3. QED
      BY <2>1, <3>1, <3>2 DEF Port, MaySend
  <2>6. QED
    BY <2>2, <2>3, <2>4, <2>5
<1>2. port' \in [Station -> Port]
  BY <1>1 DEF Arrive
<1>3. uart' \in [Station -> Seq(Reception)]
  BY DEF Arrive, Inv, TypeOK
<1>4. QED
  BY <1>1, <1>2, <1>3 DEF Arrive, Inv, TypeOK, TokenLimit, MaySend

LEMMA TickKeeps ==
  ASSUME Inv, Tick
  PROVE  Inv'
<1>1. ASSUME NEW s \in Talker, NEW t \in Station
      PROVE  AsReceived(air[s], t) \in Reception
  <2>1. air[s] \in Frame
    BY DEF Talker, Inv, TypeOK
  <2>2. QED
    BY <2>1 DEF AsReceived, Reception
<1>2. ASSUME NEW r \in [Station -> Reception]
      PROVE  Heard(r) \in [Station -> Reception]
  BY Constants DEF Heard
<1>3. faults \in 0 .. MaxFaults /\ clean \in BOOLEAN
  BY DEF Inv, TypeOK
<1>4. CASE Silence
  <2>1. [t \in Station |-> Nothing] \in [Station -> Reception]
    BY Constants
  <2>2. QED
    BY <1>3, <1>4, <2>1, ArriveKeeps DEF Silence, TimePasses
<1>5. CASE Delivery
  <2>1. PICK s \in Talker :
          Arrive(Heard([t \in Station |-> AsReceived(air[s], t)]))
    BY <1>5 DEF Delivery
  <2>2. Heard([t \in Station |-> AsReceived(air[s], t)])
          \in [Station -> Reception]
    BY <1>1, <1>2
  <2>3. UNCHANGED <<faults, clean>>
    BY <1>5 DEF Delivery, TimePasses
  <2>4. QED
    BY <1>3, <2>1, <2>2, <2>3, ArriveKeeps
<1>6. CASE Loss
  <2>1. PICK s \in Talker, L \in SUBSET Station, r \in {Nothing, Damaged} :
          Arrive(Heard([t \in Station |->
                   IF t \in L THEN r ELSE AsReceived(air[s], t)]))
    BY <1>6 DEF Loss
  <2>2. Heard([t \in Station |->
                   IF t \in L THEN r ELSE AsReceived(air[s], t)])
          \in [Station -> Reception]
    BY <1>1, <1>2, Constants
  <2>3. clean' \in BOOLEAN
    BY <1>6 DEF Loss
  <2>4. faults' \in 0 .. MaxFaults
    BY <1>3, <1>6, MstpAssumption DEF Loss
  <2>5. QED
    BY <2>1, <2>2, <2>3, <2>4, ArriveKeeps
<1>7. CASE Collision
  <2>1. Heard([t \in Station |-> Damaged]) \in [Station -> Reception]
    BY <1>2, Constants
  <2>2. QED
    BY <1>3, <1>7, <2>1, ArriveKeeps DEF Collision, TimePasses
<1>8. QED
  BY <1>4, <1>5, <1>6, <1>7 DEF Tick

LEMMA InitialPort ==
  ASSUME NEW s \in Station
  PROVE  MSTP_Init(s) \in Port /\ MaySend(MSTP_Init(s))
  BY Constants DEF MSTP_Init, Port, MaySend, MasterState

LEMMA StationKeeps ==
  ASSUME Inv, NEW s \in Station,
         Stall(s) \/ Resume(s) \/ PowerOff(s) \/ PowerOn(s)
  PROVE  Inv'
<1> USE DEF Inv, TypeOK, TokenLimit
<1>1. CASE Stall(s)
  <2>1. faults' \in 0 .. MaxFaults
    BY <1>1, MstpAssumption DEF Stall
  <2>2. QED
    BY <1>1, <2>1 DEF Stall, MaySend
<1>2. CASE Resume(s)
  BY <1>2 DEF Resume, MaySend
<1>3. CASE PowerOff(s)
  <2>1. port' \in [Station -> Port] /\ \A t \in Station : MaySend(port'[t])
    BY <1>3, InitialPort DEF PowerOff
  <2>2. /\ uart' \in [Station -> Seq(Reception)]
        /\ air' \in [Station -> Frame \cup {NoFrame}]
    BY <1>3 DEF PowerOff
  <2>3. faults' \in 0 .. MaxFaults /\ joins' \in 0 .. MaxJoins
    BY <1>3, MstpAssumption DEF PowerOff
  <2>4. clean' \in BOOLEAN
    <3>1. clean' = (clean /\ \A t, u \in on \ {s} :
                                port[t].SilenceTimer = port[u].SilenceTimer)
      BY <1>3 DEF PowerOff
    <3>2. QED
      BY <3>1
  <2>5. on' \subseteq Station /\ busy' \subseteq on'
    BY <1>3 DEF PowerOff
  <2>6. QED
    BY <2>1, <2>2, <2>3, <2>4, <2>5 DEF MaySend
<1>4. CASE PowerOn(s)
  <2>1. port' \in [Station -> Port] /\ \A t \in Station : MaySend(port'[t])
    BY <1>4, InitialPort DEF PowerOn
  <2>2. joins' \in 0 .. MaxJoins
    BY <1>4, MstpAssumption DEF PowerOn
  <2>3. clean' \in BOOLEAN
    BY <1>4 DEF PowerOn
  <2>4. on' \subseteq Station /\ busy' \subseteq on'
    BY <1>4 DEF PowerOn
  <2>5. QED
    BY <1>4, <2>1, <2>2, <2>3, <2>4 DEF PowerOn, MaySend
<1>5. QED
  BY <1>1, <1>2, <1>3, <1>4

LEMMA InitInv == Init => Inv
<1> SUFFICES ASSUME Init PROVE Inv
  OBVIOUS
<1>1. port \in [Station -> Port] /\ TokenLimit
  BY InitialPort DEF Init, TokenLimit
<1>2. uart \in [Station -> Seq(Reception)]
  BY DEF Init
<1>3. air \in [Station -> Frame \cup {NoFrame}]
  BY DEF Init
<1>4. faults \in 0 .. MaxFaults /\ joins \in 0 .. MaxJoins
  BY MstpAssumption DEF Init
<1>5. QED
  BY <1>1, <1>2, <1>3, <1>4 DEF Init, Inv, TypeOK

LEMMA NextKeeps == Inv /\ [Next]_vars => Inv'
<1> SUFFICES ASSUME Inv, [Next]_vars PROVE Inv'
  OBVIOUS
<1>1. CASE UNCHANGED vars
  BY <1>1 DEF vars, Inv, TypeOK, TokenLimit, MaySend
<1>2. CASE Next
  BY <1>2, StepKeeps, StationKeeps, TickKeeps DEF Next
<1>3. QED
  BY <1>1, <1>2

(* The types, whatever is lost, delayed, switched off or on: no counter of *)
(* the master node machine exceeds its limit, a station sends no more than *)
(* Nmax_info_frames frames with one token, and no frame is sent to an      *)
(* address that does not exist.                                            *)
THEOREM MstpTypeCorrect == Safety => []TypeOK
<1>1. Inv => TypeOK
  BY DEF Inv
<1>2. QED
  BY <1>1, InitInv, NextKeeps, PTL DEF Safety
-----------------------------------------------------------------------------
(* The order in which addresses are polled.                                *)

LEMMA AfterIs ==
  ASSUME NEW s \in Address, NEW a \in Address
  PROVE  After(s, a) = IF a >= s THEN a - s ELSE a - s + (Nmax_master + 1)
<1> DEFINE m == Nmax_master + 1
<1>1. m \in Nat \ {0} /\ s \in 0 .. m - 1 /\ a \in 0 .. m - 1
  BY Numbers DEF Address
<1> HIDE DEF m
<1>2. CASE a >= s
  <2>1. a - s \in 0 .. m - 1 /\ m * 0 + (a - s) = a - s
    BY <1>1, <1>2
  <2>2. (m * 0 + (a - s)) % m = a - s
    BY <1>1, <2>1, RestUnique
  <2>3. QED
    BY <1>2, <2>1, <2>2 DEF After, m
<1>3. CASE ~ (a >= s)
  <2> DEFINE r == a - s + m
  <2>1. r \in 0 .. m - 1 /\ m * (-1) + r = a - s
    BY <1>1, <1>3
  <2>2. (m * (-1) + r) % m = r
    <3> HIDE DEF r
    <3>1. QED
      BY <1>1, <2>1, RestUnique
  <2>3. QED
    BY <1>3, <2>1, <2>2 DEF After, m
<1>4. QED
  BY <1>2, <1>3

LEMMA SuccIs ==
  ASSUME NEW a \in Address
  PROVE  Succ(a) = IF a = Nmax_master THEN 0 ELSE a + 1
<1> DEFINE m == Nmax_master + 1
<1>1. m \in Nat \ {0} /\ a \in 0 .. m - 1
  BY Numbers DEF Address
<1> HIDE DEF m
<1>2. CASE a = m - 1
  <2>1. (m * 1 + 0) % m = 0
    BY <1>1, RestUnique
  <2>2. QED
    BY <1>1, <1>2, <2>1, Numbers DEF Succ, m
<1>3. CASE a # m - 1
  <2>1. a + 1 \in 0 .. m - 1
    BY <1>1, <1>3
  <2>2. (m * 0 + (a + 1)) % m = a + 1
    BY <1>1, <2>1, RestUnique
  <2>3. QED
    BY <1>1, <1>3, <2>1, <2>2, Numbers DEF Succ, m
<1>4. QED
  BY <1>2, <1>3

(* The next address to be polled is one further on, until s is reached.    *)
LEMMA AfterSucc ==
  ASSUME NEW s \in Address, NEW a \in Address
  PROVE  /\ After(s, s) = 0
         /\ After(s, a) \in Nat
         /\ a # s => After(s, a) > 0
         /\ Succ(a) # s => After(s, Succ(a)) = After(s, a) + 1
<1>1. /\ After(s, s) = 0
      /\ After(s, a) = IF a >= s THEN a - s ELSE a - s + (Nmax_master + 1)
  BY AfterIs DEF Address
<1>2. /\ Succ(a) = IF a = Nmax_master THEN 0 ELSE a + 1
      /\ After(s, Succ(a)) = IF Succ(a) >= s THEN Succ(a) - s
                             ELSE Succ(a) - s + (Nmax_master + 1)
  BY AfterIs, SuccIs, SuccType
<1> DEFINE x == After(s, a)
           y == After(s, Succ(a))
           z == Succ(a)
<1>3. /\ x = IF a >= s THEN a - s ELSE a - s + (Nmax_master + 1)
      /\ z = IF a = Nmax_master THEN 0 ELSE a + 1
      /\ y = IF z >= s THEN z - s ELSE z - s + (Nmax_master + 1)
  BY <1>1, <1>2
<1> HIDE DEF x, y, z
<1>4. x \in Nat /\ (a # s => x > 0) /\ (z # s => y = x + 1)
  BY <1>3, Numbers DEF Address
<1>5. QED
  BY <1>1, <1>4 DEF x, y, z

LEMMA AfterDiffers ==
  ASSUME NEW s \in Address, NEW a \in Address, NEW b \in Address, a # b
  PROVE  After(s, a) # After(s, b)
BY AfterIs, Numbers DEF Address

(* Whom a station takes for the next one and where its polls have got to.  *)
InGap(s, p) ==
  p.Next_Station # s => After(s, p.Poll_Station) < After(s, p.Next_Station)

LEMMA GapKept ==
  ASSUME Inv, PollsOnlyTheGap, NEW s \in Station, NEW p,
         port' = [port EXCEPT ![s] = p], InGap(s, p)
  PROVE  PollsOnlyTheGap'
<1>1. \A t \in Station : port'[t] = IF t = s THEN p ELSE port[t]
  BY DEF Inv, TypeOK
<1>2. QED
  BY <1>1 DEF PollsOnlyTheGap, InGap, After

(* The steps in which a station changes what it knows of the ring.         *)
Reroutes(s) ==
  \/ DoneInitializing(s) \/ ReceivedToken(s)
  \/ PollNextStation(s) \/ SoleMasterRestartMaintenancePFM(s)
  \/ ResetMaintenancePFM(s) \/ SendMaintenancePFM(s)
  \/ FindNewSuccessor(s) \/ GenerateToken(s)
  \/ ReceivedReplyToPFM(s) \/ SendNextPFM(s)
  \/ DeclareSoleMaster(s)

KeepsRoute(s) ==
  /\ port'[s].Next_Station = port[s].Next_Station
  /\ port'[s].Poll_Station = port[s].Poll_Station
  /\ port'[s].SoleMaster = port[s].SoleMaster

LEMMA StepRoute ==
  ASSUME Inv, NEW s \in Station, Step(s)
  PROVE  /\ port' = [port EXCEPT ![s] = port'[s]]
         /\ UNCHANGED <<on, busy, faults, joins, clean>>
         /\ KeepsRoute(s) \/ Reroutes(s)
<1>1. port[s] \in Port /\ port \in [Station -> Port]
  BY PortOf DEF Inv, TypeOK
<1>2. CASE Read(s)
  BY <1>1, <1>2 DEF KeepsRoute, Port, Become, Send, Read, HasRead, CanRead
<1>3. CASE ReceivedBad(s)
  BY <1>1, <1>3 DEF KeepsRoute, Port, Become, Send, ReceivedBad
<1>4. CASE ReceivedPFM(s)
  BY <1>1, <1>4 DEF KeepsRoute, Port, Become, Send, ReceivedPFM
<1>5. CASE ReceivedNoReplyNeeded(s)
  BY <1>1, <1>5 DEF KeepsRoute, Port, Become, Send, ReceivedNoReplyNeeded
<1>6. CASE ReceivedDataNeedingReply(s)
  BY <1>1, <1>6 DEF KeepsRoute, Port, Become, Send, ReceivedDataNeedingReply
<1>7. CASE LostToken(s)
  BY <1>1, <1>7 DEF KeepsRoute, Port, Become, Send, LostToken
<1>8. CASE NothingToSend(s)
  BY <1>1, <1>8 DEF KeepsRoute, Port, Become, Send, NothingToSend
<1>9. CASE ReplyTimeout(s)
  BY <1>1, <1>9 DEF KeepsRoute, Port, Become, Send, ReplyTimeout
<1>10. CASE InvalidReply(s)
  BY <1>1, <1>10 DEF KeepsRoute, Port, Become, Send, InvalidReply
<1>11. CASE ReceivedReply(s)
  BY <1>1, <1>11 DEF KeepsRoute, Port, Become, Send, ReceivedReply
<1>12. CASE WaitUnexpectedFrame(s)
  BY <1>1, <1>12 DEF KeepsRoute, Port, Become, Send, WaitUnexpectedFrame
<1>13. CASE SendAnotherFrame(s)
  BY <1>1, <1>13 DEF KeepsRoute, Port, Become, Send, SendAnotherFrame
<1>14. CASE SoleMaster(s)
  BY <1>1, <1>14 DEF KeepsRoute, Port, Become, Send, SoleMaster
<1>15. CASE SendToken(s)
  BY <1>1, <1>15 DEF KeepsRoute, Port, Become, Send, SendToken, PassToken
<1>16. CASE SawTokenUser(s)
  BY <1>1, <1>16 DEF KeepsRoute, Port, Become, Send, SawTokenUser
<1>17. CASE RetrySendToken(s)
  BY <1>1, <1>17 DEF KeepsRoute, Port, Become, Send, RetrySendToken
<1>18. CASE SawFrame(s)
  BY <1>1, <1>18 DEF KeepsRoute, Port, Become, Send, SawFrame
<1>19. CASE PollUnexpectedFrame(s)
  BY <1>1, <1>19 DEF KeepsRoute, Port, Become, Send, PollUnexpectedFrame
<1>20. CASE SoleMasterPollFailed(s)
  BY <1>1, <1>20 DEF KeepsRoute, Port, Become, Send, SoleMasterPollFailed
<1>21. CASE DoneWithPFM(s)
  BY <1>1, <1>21 DEF KeepsRoute, Port, Become, Send, DoneWithPFM
<1>22. CASE Reply(s)
  BY <1>1, <1>22 DEF KeepsRoute, Port, Become, Send, Reply
<1>23. CASE DeferredReply(s)
  BY <1>1, <1>23 DEF KeepsRoute, Port, Become, Send, DeferredReply
<1>24. CASE \E d \in Data : SendInfoFrame(s, d[1], d[3])
  BY <1>1, <1>24 DEF KeepsRoute, Port, Send, SendInfoFrame
<1>25. CASE Reroutes(s)
  <2>1. CASE \E p : Become(s, p)
    BY <1>1, <1>25, <2>1 DEF Become
  <2>2. CASE \E p, type, dst : Send(s, p, type, dst)
    BY <1>1, <1>25, <2>2 DEF Send
  <2>3. QED
    BY <1>25, <2>1, <2>2
    DEF Reroutes, DoneInitializing, ReceivedToken, PollNextStation,
        SoleMasterRestartMaintenancePFM, ResetMaintenancePFM, PassToken,
        SendMaintenancePFM, FindNewSuccessor, FindSuccessor, GenerateToken,
        ReceivedReplyToPFM, SendNextPFM, DeclareSoleMaster
<1>26. QED
  BY <1>2, <1>3, <1>4, <1>5, <1>6, <1>7, <1>8, <1>9, <1>10, <1>11, <1>12,
     <1>13, <1>14, <1>15, <1>16, <1>17, <1>18, <1>19, <1>20, <1>21, <1>22,
     <1>23, <1>24, <1>25
  DEF Step, MustAct, Reroutes

LEMMA StepKeepsGap ==
  ASSUME Inv, PollsOnlyTheGap, NEW s \in Station, Step(s)
  PROVE  PollsOnlyTheGap'
<1> DEFINE p == port'[s]
<1>1. port[s] \in Port /\ s \in Address
  BY PortOf
<1>2. port[s].Next_Station \in Address /\ port[s].Poll_Station \in Address
  BY <1>1 DEF Port
<1>3. SUFFICES InGap(s, p)
  BY StepRoute, GapKept
<1>4. InGap(s, port[s])
  BY DEF PollsOnlyTheGap, InGap
<1>5. CASE KeepsRoute(s)
  BY <1>4, <1>5 DEF KeepsRoute, InGap
<1>6. CASE DoneInitializing(s) \/ GenerateToken(s)
  <2>1. CASE DoneInitializing(s)
    BY <1>1, <2>1 DEF DoneInitializing, Become, Inv, TypeOK, Port, InGap
  <2>2. CASE GenerateToken(s)
    BY <1>1, <2>2 DEF GenerateToken, Send, Inv, TypeOK, Port, InGap
  <2>3. QED
    BY <1>6, <2>1, <2>2
<1>7. CASE SoleMasterRestartMaintenancePFM(s) \/ FindNewSuccessor(s)
  <2>1. p.Next_Station = s
    <3>1. \E count : FindSuccessor(s, count)
      BY <1>7 DEF SoleMasterRestartMaintenancePFM, FindNewSuccessor
    <3>2. QED
      BY <1>1, <3>1 DEF FindSuccessor, Send, Inv, TypeOK, Port
  <2>2. QED
    BY <2>1 DEF InGap
<1>8. CASE ReceivedToken(s) \/ DeclareSoleMaster(s)
  <2>1. /\ p.Next_Station = port[s].Next_Station
        /\ p.Poll_Station = port[s].Poll_Station
    BY <1>1, <1>8
    DEF ReceivedToken, DeclareSoleMaster, Become, Inv, TypeOK, Port
  <2>2. QED
    BY <1>4, <2>1 DEF InGap
<1>9. CASE PollNextStation(s) \/ SendNextPFM(s)
  <2>1. p.Next_Station = s
    BY <1>1, <1>9
    DEF PollNextStation, NextStationUnknown, SendNextPFM, Send, Inv, TypeOK,
        Port
  <2>2. QED
    BY <2>1 DEF InGap
<1>10. CASE ResetMaintenancePFM(s) \/ ReceivedReplyToPFM(s)
  <2>1. p.Poll_Station = s /\ p.Next_Station \in Address
    <3>1. CASE ResetMaintenancePFM(s)
      BY <1>1, <1>2, <3>1
      DEF ResetMaintenancePFM, PassToken, Send, Inv, TypeOK, Port
    <3>2. CASE ReceivedReplyToPFM(s)
      BY <1>1, <3>2, ReceivedFrame
      DEF ReceivedReplyToPFM, Send, Inv, TypeOK, Port
    <3>3. QED
      BY <1>10, <3>1, <3>2
  <2>2. QED
    BY <1>1, <2>1, AfterSucc DEF InGap
<1>11. CASE SendMaintenancePFM(s)
  <2>1. /\ p.Next_Station = port[s].Next_Station
        /\ p.Poll_Station = Succ(port[s].Poll_Station)
        /\ Succ(port[s].Poll_Station) # port[s].Next_Station
    BY <1>1, <1>11
    DEF SendMaintenancePFM, AllPolled, Send, Inv, TypeOK, Port
  <2>2. ASSUME port[s].Next_Station # s
        PROVE  After(s, Succ(port[s].Poll_Station))
                 < After(s, port[s].Next_Station)
    <3>1. After(s, port[s].Poll_Station) < After(s, port[s].Next_Station)
      BY <1>4, <2>2 DEF InGap
    <3>2. After(s, Succ(port[s].Poll_Station)) # After(s, port[s].Next_Station)
      BY <1>1, <1>2, <2>1, SuccType, AfterDiffers
    <3>3. QED
      BY <1>1, <1>2, <2>2, <3>1, <3>2, AfterSucc
  <2>3. QED
    BY <2>1, <2>2 DEF InGap
<1>12. QED
  BY <1>5, <1>6, <1>7, <1>8, <1>9, <1>10, <1>11, StepRoute DEF Reroutes

LEMMA OthersKeepGap ==
  ASSUME Inv, PollsOnlyTheGap, NEW s \in Station,
         Stall(s) \/ Resume(s) \/ PowerOff(s) \/ PowerOn(s)
  PROVE  PollsOnlyTheGap'
<1>1. CASE Stall(s) \/ Resume(s)
  BY <1>1 DEF Stall, Resume, PollsOnlyTheGap, After
<1>2. CASE PowerOff(s) \/ PowerOn(s)
  <2>1. port' = [port EXCEPT ![s] = MSTP_Init(s)]
    BY <1>2 DEF PowerOff, PowerOn
  <2>2. InGap(s, MSTP_Init(s))
    BY DEF InGap, MSTP_Init
  <2>3. QED
    BY <2>1, <2>2, GapKept
<1>3. QED
  BY <1>1, <1>2

LEMMA TickRoute ==
  ASSUME Inv, Tick, NEW t \in Station
  PROVE  /\ port'[t].Next_Station = port[t].Next_Station
         /\ port'[t].Poll_Station = port[t].Poll_Station
         /\ port'[t].SoleMaster = port[t].SoleMaster
         /\ on' = on
<1>1. port[t] \in Port
  BY PortOf
<1>2. ASSUME NEW heard, Arrive(heard)
      PROVE  /\ port'[t].Next_Station = port[t].Next_Station
             /\ port'[t].Poll_Station = port[t].Poll_Station
             /\ port'[t].SoleMaster = port[t].SoleMaster
             /\ on' = on
  BY <1>1, <1>2 DEF Arrive, HasRead, Quieter, Port
<1>3. \E heard : Arrive(heard)
  BY DEF Tick, Silence, Delivery, Loss, Collision
<1>4. QED
  BY <1>2, <1>3

LEMMA AlwaysInGap == Safety => [](Inv /\ PollsOnlyTheGap)
<1>1. Init => Inv /\ PollsOnlyTheGap
  BY InitInv DEF Init, PollsOnlyTheGap, MSTP_Init
<1>2. (Inv /\ PollsOnlyTheGap) /\ [Next]_vars => (Inv /\ PollsOnlyTheGap)'
  <2> SUFFICES ASSUME Inv, PollsOnlyTheGap, [Next]_vars
               PROVE  PollsOnlyTheGap'
    BY NextKeeps
  <2>1. CASE UNCHANGED vars
    BY <2>1 DEF vars, PollsOnlyTheGap, After
  <2>2. CASE Tick
    BY <2>2, TickRoute DEF PollsOnlyTheGap, After
  <2>3. QED
    BY <2>1, <2>2, StepKeepsGap, OthersKeepGap DEF Next
<1>3. QED
  BY <1>1, <1>2, PTL DEF Safety

(* Whatever is lost, damaged, switched off or on, a station that has found *)
(* the next one polls only addresses between the two, and begins again     *)
(* when it has polled them all (Next_Station and Poll_Station in           *)
(* DONE_WITH_TOKEN and POLL_FOR_MASTER).                                   *)
THEOREM MstpPollsOnlyTheGap == Safety => []PollsOnlyTheGap
<1>1. QED
  BY AlwaysInGap, PTL
=============================================================================
