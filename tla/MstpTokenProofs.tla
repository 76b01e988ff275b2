-------------------------- MODULE MstpTokenProofs --------------------------
(* One token and no collision, for any segment without damaged frames; who *)
(* has the token keeps it, and a ring that has closed stays closed.        *)
EXTENDS MstpProofs, FiniteSetTheorems

(* What a station has to do with the token.                                *)
State(s) == port[s].master_state
Sil(s) == port[s].SilenceTimer
Rcvd(s) == port[s].Received

Talking(s) == air[s] # NoFrame
Holding(s) == UsesToken(s) \/ (s \in on /\ IsToken(Rcvd(s)))

(* It has sent the token and heard nobody use it yet.                      *)
Passing(s) == s \in on /\ State(s) = "PASS_TOKEN" /\ ~ port[s].EventCount
Bearer(s) == Holding(s) \/ Passing(s)

(* It has received a frame that it will answer.                            *)
Demand == {"POLL_FOR_MASTER", "DATA_EXPECTING_REPLY"}
Owes(s) ==
  s \in on /\ Rcvd(s).flag = "Valid" /\ Rcvd(s).frame.type \in Demand

(* A frame has arrived in this tick, and the stations agree on the silence.*)
AllHeard == \A u \in on : Sil(u) = 0
Agree == \A s, t \in on : Sil(s) = Sil(t)

(* The token was received in this tick and nothing has been sent with it.  *)
Engaged(s) ==
  IsToken(Rcvd(s)) \/ State(s) \in {"USE_TOKEN", "DONE_WITH_TOKEN"}

(* What a holder has asked, and what it will take for the answer.          *)
Polls(s) == State(s) = "POLL_FOR_MASTER"
Polled(s) == port[s].Poll_Station

QuestionOf(s, f) == f.src = s /\ (Polls(s) <=> f.type = "POLL_FOR_MASTER")
AnswerTo(s, f) ==
  IF Polls(s)
    THEN IsReplyToPFM(f, s)
    ELSE IsReply(f, s) /\ f.type # "DATA_EXPECTING_REPLY"

(* A holder that waits for an answer, and will until it comes.             *)
Patient(s) ==
  /\ Rcvd(s) = Nothing /\ ~ Talking(s)
  /\ \/ State(s) = "POLL_FOR_MASTER" /\ Sil(s) = 0
     \/ State(s) = "WAIT_FOR_REPLY" /\ Sil(s) <= Treply_delay + 1

-----------------------------------------------------------------------------
(* What holds of each station that is on.                                  *)

NothingKept(s) ==
  /\ State(s) = "INITIALIZE" => Rcvd(s) = Nothing /\ ~ Talking(s)
  /\ State(s) \in {"USE_TOKEN", "DONE_WITH_TOKEN"} => Rcvd(s) = Nothing

Noticed(s) ==
  State(s) \in {"NO_TOKEN", "PASS_TOKEN"} /\ Rcvd(s) # Nothing
    => port[s].EventCount

(* The state a station is in while it sends a frame.                       *)
SentIn(s, type) ==
  CASE type = "TOKEN" -> Passing(s)
    [] type = "POLL_FOR_MASTER" -> State(s) = "POLL_FOR_MASTER"
    [] type = "DATA_EXPECTING_REPLY" -> State(s) = "WAIT_FOR_REPLY"
    [] type = "DATA_NOT_EXPECTING_REPLY" ->
         State(s) \in {"IDLE", "DONE_WITH_TOKEN"}
    [] OTHER -> State(s) = "IDLE"

Sends(s) ==
  Talking(s) =>
    /\ Rcvd(s) = Nothing
    /\ SentIn(s, air[s].type)
    /\ air[s].src = s
    /\ air[s].type = "POLL_FOR_MASTER" => air[s].dst = Polled(s)
    /\ air[s].type = "TOKEN" => air[s].dst = port[s].Next_Station
    /\ air[s].type \in {"TOKEN"} \cup Demand => air[s].dst # Broadcast

Answers(s) ==
  State(s) = "ANSWER_DATA_REQUEST" =>
    /\ Rcvd(s).flag = "Valid"
    /\ Rcvd(s).frame.type = "DATA_EXPECTING_REPLY"
    /\ Sil(s) <= Treply_delay + 1

Expects(s) ==
  State(s) \in {"WAIT_FOR_REPLY", "POLL_FOR_MASTER"} /\ Rcvd(s) # Nothing =>
    /\ Rcvd(s).flag = "Valid"
    /\ AnswerTo(s, Rcvd(s).frame)
    /\ Polls(s) => Rcvd(s).frame.src = Polled(s) /\ Polled(s) # s

(* Nobody lets its turn pass.                                              *)
InTime(s) ==
  /\ Bearer(s) /\ ~ Talking(s) => Sil(s) < Tno_token
  /\ Sil(s) <= SlotBegin(s)

(* What has been heard is dealt with before time passes.                   *)
Fresh(s) ==
  \/ State(s) = "PASS_TOKEN" /\ port[s].EventCount
  \/ Rcvd(s) # Nothing /\ State(s) # "ANSWER_DATA_REQUEST"
  => AllHeard

(* Nobody measures a longer silence than those who have to act.            *)
Eldest(s) == Bearer(s) \/ Owes(s) => \A u \in on : Sil(u) <= Sil(s)

Alone(s) ==
  /\ NothingKept(s) /\ Noticed(s) /\ Sends(s) /\ Answers(s) /\ Expects(s)
  /\ InTime(s) /\ Fresh(s) /\ Eldest(s)

-----------------------------------------------------------------------------
(* What holds of two stations that are on.                                 *)

OneSpeaks(s, t) ==
  /\ ~ (Talking(s) /\ Talking(t))
  /\ ~ (Owes(s) /\ Owes(t))
  /\ ~ (Talking(s) /\ Owes(t))
  /\ Talking(t) => Sil(s) < SlotBegin(s)

OneHolds(s, t) ==
  /\ ~ (Holding(s) /\ Holding(t))
  /\ Holding(s) /\ (Owes(t) \/ Talking(t))
       => Patient(s) /\ (Polls(s) => t = Polled(s))
  /\ Holding(s) /\ Owes(t) => QuestionOf(s, Rcvd(t).frame)
  /\ Holding(s) /\ Talking(t) => AnswerTo(s, air[t])

(* A token that was passed is used in the tick in which it arrives.        *)
OnePasses(s, t) ==
  /\ ~ (Passing(s) /\ Owes(t))
  /\ Passing(s) /\ Passing(t) => AllHeard /\ (Talking(s) \/ Talking(t))
  /\ Passing(s) /\ Holding(t)
       => AllHeard /\ (Talking(t) \/ Engaged(t)) /\ ~ Talking(s)
  /\ Passing(s) /\ Talking(t) => AllHeard /\ Bearer(t)

Together(s, t) == OneSpeaks(s, t) /\ OneHolds(s, t) /\ OnePasses(s, t)

(* Frames are read as they arrive, and nobody sends who is off.            *)
NothingWaits ==
  /\ busy = {}
  /\ \A s \in Station : uart[s] = <<>>
  /\ \A s \in Station \ on : air[s] = NoFrame

Orderly ==
  /\ NothingWaits
  /\ (\E s \in on : Bearer(s)) \/ Agree
  /\ \A s \in on : Alone(s)
  /\ \A s, t \in on : s # t => Together(s, t)

OrderlyWhileClean == clean => Orderly
-----------------------------------------------------------------------------
(* Numbers and types.                                                      *)

LEMMA Times ==
  /\ Tno_token \in Nat /\ Tslot \in Nat \ {0}
  /\ Tusage_timeout \in Nat /\ Treply_delay \in Nat /\ Treply_timeout \in Nat
  /\ Tusage_timeout + 1 < Tno_token /\ Treply_delay + 1 < Treply_timeout
  /\ Treply_timeout < Tno_token
  /\ Station \subseteq Nat /\ Broadcast \notin Address
BY MstpAssumption, MstpTiming DEF Address, Broadcast

(* No two stations have their turn at the same time.                       *)
LEMMA TurnsDiffer ==
  ASSUME NEW s \in Station, NEW t \in Station, s # t
  PROVE  SlotBegin(s) # SlotBegin(t)
<1>1. ASSUME NEW a \in Nat, NEW d \in Nat \ {0}
      PROVE  Tslot * (a + d) # Tslot * a
  <2>1. Tslot * (a + d) = Tslot * a + Tslot * d
    BY Times
  <2>2. Tslot * d >= 1 /\ Tslot * a \in Nat
    BY Times
  <2>3. QED
    BY <2>1, <2>2, Times
<1>2. Tslot * s # Tslot * t
  <2>1. CASE s < t
    <3>1. s \in Nat /\ t - s \in Nat \ {0} /\ t = s + (t - s)
      BY <2>1, Times
    <3>2. QED
      BY <1>1, <3>1
  <2>2. CASE t < s
    <3>1. t \in Nat /\ s - t \in Nat \ {0} /\ s = t + (s - t)
      BY <2>2, Times
    <3>2. QED
      BY <1>1, <3>1
  <2>3. QED
    BY <2>1, <2>2, Times
<1>3. Tslot * s \in Nat /\ Tslot * t \in Nat
  BY Times
<1>4. QED
  BY <1>2, <1>3, Times DEF SlotBegin

LEMMA TurnType ==
  ASSUME NEW s \in Station
  PROVE  SlotBegin(s) \in Nat /\ Tno_token <= SlotBegin(s)
                              /\ SlotBegin(s) < MaxSilence
<1>1. Nmax_master + 1 - s \in Nat \ {0} /\ s \in Nat
  BY MstpAssumption
<1>2. Tslot * s \in Nat /\ Tslot * (Nmax_master + 1 - s) \in Nat
  BY <1>1, Times
<1>3. Tslot * (Nmax_master + 1) = Tslot * s + Tslot * (Nmax_master + 1 - s)
  BY <1>1, Times, MstpAssumption
<1>4. QED
  BY <1>2, <1>3, Times DEF SlotBegin, MaxSilence

LEMMA StationTypes ==
  ASSUME Inv, NEW s \in Station
  PROVE  /\ port[s] \in Port
         /\ Sil(s) \in Nat /\ Rcvd(s) \in Reception
         /\ State(s) \in MasterState
         /\ air[s] \in Frame \cup {NoFrame}
         /\ Rcvd(s) = Nothing \/ Rcvd(s).flag # "None"
         /\ Rcvd(s).flag # "Valid" => Rcvd(s).frame.type = "NONE"
         /\ Rcvd(s).flag = "Valid" => Rcvd(s).frame \in Frame
<1>1. port[s] \in Port /\ air[s] \in Frame \cup {NoFrame}
  BY DEF Inv, TypeOK
<1>2. port[s].Received \in Reception
  BY <1>1 DEF Port
<1>3. /\ Rcvd(s) = Nothing \/ Rcvd(s).flag # "None"
      /\ Rcvd(s).flag # "Valid" => Rcvd(s).frame.type = "NONE"
      /\ Rcvd(s).flag = "Valid" => Rcvd(s).frame \in Frame
  BY <1>2 DEF Rcvd, Reception, Nothing, NoFrame
<1>4. port[s].SilenceTimer \in Nat /\ port[s].master_state \in MasterState
  BY <1>1, Numbers DEF Port
<1>5. QED
  BY <1>1, <1>2, <1>3, <1>4 DEF Sil, State, Rcvd

(* Who owes an answer has nothing to do with the token.                    *)
LEMMA OwerHasNoToken ==
  ASSUME Inv, NEW s \in on, Alone(s), Owes(s)
  PROVE  /\ ~ Bearer(s) /\ ~ Talking(s) /\ Rcvd(s) # Nothing
         /\ State(s) \in {"IDLE", "NO_TOKEN", "PASS_TOKEN",
                          "ANSWER_DATA_REQUEST"}
<1>1. s \in Station
  BY DEF Inv, TypeOK
<1>2. Rcvd(s) # Nothing
  BY DEF Owes, Nothing
<1>3. State(s) \notin {"INITIALIZE", "USE_TOKEN", "DONE_WITH_TOKEN",
                       "WAIT_FOR_REPLY", "POLL_FOR_MASTER"}
  BY <1>2 DEF Alone, NothingKept, Expects, Owes, AnswerTo, IsReply,
              IsReplyToPFM, Demand
<1>4. ~ Holding(s)
  BY <1>3 DEF Holding, UsesToken, State, IsToken, Owes, Demand
<1>5. ~ Passing(s)
  BY <1>2 DEF Passing, Alone, Noticed
<1>6. ~ Talking(s)
  BY <1>2 DEF Alone, Sends
<1>7. QED
  BY <1>1, <1>2, <1>3, <1>4, <1>5, <1>6, StationTypes DEF Bearer, MasterState
-----------------------------------------------------------------------------
(* Stations that a step leaves alone.                                      *)

LEMMA RolesKept ==
  ASSUME NEW u \in on, u \in on', port'[u] = port[u], air'[u] = air[u]
  PROVE  /\ Sil(u)' = Sil(u) /\ State(u)' = State(u) /\ Rcvd(u)' = Rcvd(u)
         /\ Talking(u)' = Talking(u) /\ Owes(u)' = Owes(u)
         /\ Holding(u)' = Holding(u) /\ Passing(u)' = Passing(u)
         /\ Bearer(u)' = Bearer(u)
         /\ Engaged(u)' = Engaged(u) /\ Patient(u)' = Patient(u)
         /\ Polls(u)' = Polls(u) /\ Polled(u)' = Polled(u)
<1>1. /\ Sil(u)' = Sil(u) /\ State(u)' = State(u) /\ Rcvd(u)' = Rcvd(u)
      /\ Polls(u)' = Polls(u) /\ Polled(u)' = Polled(u)
  BY DEF Sil, State, Rcvd, Polls, Polled
<1>2. /\ Talking(u)' = Talking(u) /\ Owes(u)' = Owes(u)
      /\ Passing(u)' = Passing(u)
      /\ Engaged(u)' = Engaged(u)
  BY <1>1 DEF Talking, Owes, Passing, Engaged
<1>3. Holding(u)' = Holding(u)
  BY <1>1 DEF Holding, UsesToken
<1>4. Bearer(u)' = Bearer(u)
  BY <1>2, <1>3 DEF Bearer
<1>5. Patient(u)' = Patient(u)
  BY <1>1, <1>2 DEF Patient
<1>6. QED
  BY <1>1, <1>2, <1>3, <1>4, <1>5

(* Nobody has become older, and who had just heard a frame still has.      *)
NobodyAges ==
  /\ AllHeard => AllHeard'
  /\ \A v \in on' : Sil(v)' = 0 \/ (v \in on /\ Sil(v)' = Sil(v))

LEMMA AloneKept ==
  ASSUME Inv, NobodyAges, NEW u \in on, u \in on', Alone(u),
         port'[u] = port[u], air'[u] = air[u]
  PROVE  Alone(u)'
<1>1. /\ Sil(u)' = Sil(u) /\ State(u)' = State(u) /\ Rcvd(u)' = Rcvd(u)
      /\ Talking(u)' = Talking(u) /\ Owes(u)' = Owes(u)
      /\ Holding(u)' = Holding(u) /\ Passing(u)' = Passing(u)
      /\ Bearer(u)' = Bearer(u)
      /\ Polls(u)' = Polls(u) /\ Polled(u)' = Polled(u)
  BY RolesKept
<1>2. NothingKept(u)' /\ Noticed(u)' /\ Answers(u)' /\ Expects(u)'
  BY <1>1 DEF Alone, NothingKept, Noticed, Answers, Expects, AnswerTo,
              IsReply, IsReplyToPFM
<1>3. Sends(u)'
  BY <1>1 DEF Alone, Sends, SentIn
<1>4. InTime(u)' /\ Fresh(u)'
  BY <1>1 DEF Alone, InTime, Fresh, SlotBegin, NobodyAges
<1>5. Eldest(u)'
  <2>1. Sil(u) \in Nat
    BY StationTypes DEF Inv, TypeOK
  <2>2. QED
    BY <1>1, <2>1 DEF Alone, Eldest, NobodyAges
<1>6. QED
  BY <1>2, <1>3, <1>4, <1>5 DEF Alone

(* Two stations that do nothing stand to each other as they did.           *)
LEMMA TogetherKept ==
  ASSUME NobodyAges, NEW t \in on, t \in on', NEW u \in on, u \in on',
         Together(t, u), port'[t] = port[t], air'[t] = air[t],
         port'[u] = port[u], air'[u] = air[u]
  PROVE  Together(t, u)'
<1>1. /\ Sil(t)' = Sil(t) /\ State(t)' = State(t) /\ Rcvd(t)' = Rcvd(t)
      /\ Talking(t)' = Talking(t) /\ Owes(t)' = Owes(t)
      /\ Holding(t)' = Holding(t) /\ Passing(t)' = Passing(t)
      /\ Bearer(t)' = Bearer(t)
      /\ Engaged(t)' = Engaged(t) /\ Patient(t)' = Patient(t)
      /\ Polls(t)' = Polls(t) /\ Polled(t)' = Polled(t)
  BY RolesKept
<1>2. /\ Sil(u)' = Sil(u) /\ State(u)' = State(u) /\ Rcvd(u)' = Rcvd(u)
      /\ Talking(u)' = Talking(u) /\ Owes(u)' = Owes(u)
      /\ Holding(u)' = Holding(u) /\ Passing(u)' = Passing(u)
      /\ Bearer(u)' = Bearer(u)
      /\ Engaged(u)' = Engaged(u) /\ Patient(u)' = Patient(u)
      /\ Polls(u)' = Polls(u) /\ Polled(u)' = Polled(u)
  BY RolesKept
<1>3. AllHeard => AllHeard'
  BY DEF NobodyAges
<1>4. OneSpeaks(t, u)'
  BY <1>1, <1>2 DEF Together, OneSpeaks, SlotBegin
<1>5. OneHolds(t, u)'
  BY <1>1, <1>2 DEF Together, OneHolds, QuestionOf, AnswerTo, IsReply,
                    IsReplyToPFM
<1>6. OnePasses(t, u)'
  BY <1>1, <1>2, <1>3 DEF Together, OnePasses
<1>7. QED
  BY <1>4, <1>5, <1>6 DEF Together

-----------------------------------------------------------------------------
(* Steps of one station: they leave the timers and the others alone.       *)

Alters(s, p, f) ==
  /\ port' = [port EXCEPT ![s] = p] /\ air' = [air EXCEPT ![s] = f]
  /\ UNCHANGED <<uart, on, busy>>
  /\ p.SilenceTimer = Sil(s)

LEMMA Untouched ==
  ASSUME Inv, NEW s \in on, NEW p, NEW f, Alters(s, p, f),
         NEW u \in on, u # s
  PROVE  port'[u] = port[u] /\ air'[u] = air[u] /\ u \in on'
<1>1. u \in Station /\ port \in [Station -> Port]
      /\ air \in [Station -> Frame \cup {NoFrame}]
  BY DEF Inv, TypeOK
<1>2. QED
  BY <1>1 DEF Alters

LEMMA SilenceKept ==
  ASSUME Inv, NEW s \in on, NEW p, NEW f, Alters(s, p, f)
  PROVE  /\ on' = on /\ port'[s] = p /\ air'[s] = f
         /\ \A u \in on : Sil(u)' = Sil(u)
         /\ AllHeard' = AllHeard /\ Agree' = Agree /\ NobodyAges
<1>1. s \in Station /\ port \in [Station -> Port]
      /\ air \in [Station -> Frame \cup {NoFrame}]
  BY DEF Inv, TypeOK
<1>2. port'[s] = p /\ air'[s] = f /\ on' = on
  BY <1>1 DEF Alters
<1>3. Sil(s)' = Sil(s)
  BY <1>2 DEF Sil, Alters
<1>4. \A u \in on : Sil(u)' = Sil(u)
  BY <1>3, Untouched, RolesKept
<1>5. AllHeard' = AllHeard
  BY <1>2, <1>4 DEF AllHeard
<1>6. Agree' = Agree
  BY <1>2, <1>4 DEF Agree
<1>7. QED
  BY <1>2, <1>4, <1>5, <1>6 DEF NobodyAges

LEMMA OthersKept ==
  ASSUME Inv, Orderly, NEW s \in on, NEW p, NEW f, Alters(s, p, f)
  PROVE  /\ NothingWaits'
         /\ \A u \in on \ {s} : Alone(u)'
         /\ \A t, u \in on \ {s} : t # u => Together(t, u)'
<1>1. NothingWaits'
  <2>1. air \in [Station -> Frame \cup {NoFrame}] /\ on \subseteq Station
    BY DEF Inv, TypeOK
  <2>2. QED
    BY <2>1 DEF NothingWaits, Orderly, Alters
<1>2. \A u \in on \ {s} : Alone(u)'
  BY Untouched, SilenceKept, AloneKept DEF Orderly
<1>3. \A t, u \in on \ {s} : t # u => Together(t, u)'
  BY Untouched, SilenceKept, TogetherKept DEF Orderly
<1>4. QED
  BY <1>1, <1>2, <1>3

LEMMA OrderlyAfter ==
  ASSUME Inv, Orderly, NEW s \in on, NEW p, NEW f, Alters(s, p, f),
         Alone(s)', (\E t \in on : Bearer(t)') \/ Agree',
         \A t \in on \ {s} : Together(s, t)' /\ Together(t, s)'
  PROVE  Orderly'
<1>1. on' = on
  BY DEF Alters
<1>2. \A u \in on : Alone(u)'
  BY OthersKept
<1>3. \A t, u \in on : t # u => Together(t, u)'
  BY OthersKept
<1>4. QED
  BY <1>1, <1>2, <1>3, OthersKept DEF Orderly
(* A step in which nothing is sent and no role is taken on.                *)
LEMMA QuietStep ==
  ASSUME Inv, Orderly, NEW s \in on, NEW p, Awake(s), Become(s, p),
         p.SilenceTimer = Sil(s), p.Received \in {Rcvd(s), Nothing},
         State(s) # "ANSWER_DATA_REQUEST", ~ Passing(s),
         p.master_state \in {"IDLE", "ANSWER_DATA_REQUEST", "NO_TOKEN",
                             "USE_TOKEN", "DONE_WITH_TOKEN"},
         p.master_state \in {"NO_TOKEN", "USE_TOKEN", "DONE_WITH_TOKEN"}
           => p.Received = Nothing,
         p.master_state = "ANSWER_DATA_REQUEST"
           => Rcvd(s) = p.Received /\ Got(s, "DATA_EXPECTING_REPLY"),
         p.master_state \in {"USE_TOKEN", "DONE_WITH_TOKEN"}
           => Holding(s) /\ ~ Patient(s),
         Holding(s) =>
           \/ p.master_state \in {"USE_TOKEN", "DONE_WITH_TOKEN"}
           \/ IsToken(p.Received)
           \/ Rcvd(s) # Nothing
  PROVE  Orderly'
<1>1. Alters(s, p, air[s])
  BY DEF Become, Alters, Sil, Inv, TypeOK
<1>2. /\ on' = on /\ port'[s] = p /\ air'[s] = NoFrame
      /\ \A u \in on : Sil(u)' = Sil(u)
      /\ AllHeard' = AllHeard /\ Agree' = Agree
  BY <1>1, SilenceKept DEF Awake
<1>3. State(s)' = p.master_state /\ Rcvd(s)' = p.Received /\ ~ Talking(s)'
      /\ Sil(s)' = Sil(s) /\ ~ Talking(s)
  BY <1>2 DEF State, Rcvd, Talking, Awake
<1>4. s \in Station /\ Alone(s)
  BY DEF Inv, TypeOK, Orderly
<1>5. Nothing.flag = "None" /\ Nothing.frame.type = "NONE"
  BY DEF Nothing, NoFrame
<1>6. Holding(s)' => /\ Holding(s) /\ Engaged(s)' /\ ~ Patient(s)
  <2>1. Holding(s)' => p.master_state \in {"USE_TOKEN", "DONE_WITH_TOKEN"}
                       \/ IsToken(p.Received)
    BY <1>2, <1>3 DEF Holding, UsesToken, State
  <2>2. IsToken(p.Received) => IsToken(Rcvd(s)) /\ Rcvd(s) # Nothing
    BY <1>5 DEF IsToken
  <2>3. IsToken(Rcvd(s)) => Holding(s)
    BY DEF Holding
  <2>4. IsToken(Rcvd(s)) => ~ Patient(s)
    BY <1>5 DEF IsToken, Patient
  <2>5. QED
    BY <1>3, <2>1, <2>2, <2>3, <2>4 DEF Engaged
<1>7. ~ Passing(s)' /\ (Owes(s)' => Owes(s) /\ Rcvd(s)' = Rcvd(s))
  BY <1>2, <1>3, <1>5 DEF Passing, Owes
<1>8. Rcvd(s) # Nothing => AllHeard
  BY <1>4 DEF Alone, Fresh
<1>9. (\E t \in on : Bearer(t)') \/ Agree'
  <2>1. CASE Bearer(s) /\ ~ Bearer(s)'
    <3>1. Holding(s) /\ ~ Holding(s)'
      BY <2>1 DEF Bearer
    <3>2. Rcvd(s) # Nothing
      BY <1>2, <1>3, <3>1 DEF Holding, UsesToken, State
    <3>3. AllHeard => Agree
      BY DEF AllHeard, Agree
    <3>4. QED
      BY <1>2, <1>8, <3>2, <3>3
  <2>2. CASE \E t \in on : t # s /\ Bearer(t)
    BY <1>1, <2>2, Untouched, RolesKept
  <2>3. CASE \A t \in on : ~ Bearer(t)
    BY <1>2, <2>3 DEF Orderly
  <2>4. QED
    BY <2>1, <2>2, <2>3
<1>10. Alone(s)'
  <2>1. NothingKept(s)' /\ Noticed(s)' /\ Sends(s)'
    BY <1>3 DEF NothingKept, Noticed, Sends
  <2>2. Answers(s)'
    <3>1. CASE p.master_state = "ANSWER_DATA_REQUEST"
      <4>1. Rcvd(s) # Nothing /\ Rcvd(s).flag = "Valid"
            /\ Rcvd(s).frame.type = "DATA_EXPECTING_REPLY"
        BY <1>5, <3>1 DEF Got, Rcvd
      <4>2. Sil(s) = 0
        BY <1>8, <4>1 DEF AllHeard
      <4>3. QED
        BY <1>3, <3>1, <4>1, <4>2, Times DEF Answers
    <3>2. QED
      BY <1>3, <3>1 DEF Answers
  <2>3. Expects(s)' /\ Fresh(s)'
    BY <1>2, <1>3, <1>8 DEF Expects, Fresh
  <2>4. InTime(s)'
    BY <1>3, <1>4, <1>6, <1>7 DEF InTime, Alone, Bearer, SlotBegin
  <2>5. Eldest(s)'
    BY <1>2, <1>4, <1>6, <1>7 DEF Eldest, Alone, Bearer
  <2>6. QED
    BY <2>1, <2>2, <2>3, <2>4, <2>5 DEF Alone
<1>11. ASSUME NEW t \in on \ {s}
       PROVE  Together(s, t)' /\ Together(t, s)'
  <2>1. Together(s, t) /\ Together(t, s) /\ t # s
    BY DEF Orderly
  <2>2. /\ Sil(t)' = Sil(t) /\ State(t)' = State(t) /\ Rcvd(t)' = Rcvd(t)
        /\ Talking(t)' = Talking(t) /\ Owes(t)' = Owes(t)
        /\ Holding(t)' = Holding(t) /\ Passing(t)' = Passing(t)
        /\ Bearer(t)' = Bearer(t)
        /\ Engaged(t)' = Engaged(t) /\ Patient(t)' = Patient(t)
        /\ Polls(t)' = Polls(t) /\ Polled(t)' = Polled(t)
    BY <1>1, Untouched, RolesKept
  <2>3. OneSpeaks(s, t)' /\ OneSpeaks(t, s)'
    BY <1>3, <1>7, <2>1, <2>2 DEF Together, OneSpeaks, SlotBegin
  <2>4. OneHolds(s, t)' /\ OneHolds(t, s)'
    BY <1>3, <1>6, <1>7, <2>1, <2>2 DEF Together, OneHolds, QuestionOf
  <2>5. OnePasses(s, t)' /\ OnePasses(t, s)'
    BY <1>2, <1>3, <1>6, <1>7, <2>1, <2>2 DEF Together, OnePasses
  <2>6. QED
    BY <2>3, <2>4, <2>5 DEF Together
<1>12. QED
  BY <1>1, <1>9, <1>10, <1>11, OrderlyAfter

(* The line is free for s, which knows of no one with the token.           *)
Free(s) ==
  /\ s \in on /\ ~ Talking(s)
  /\ \A u \in on : Sil(u) <= Sil(s)
  /\ \A t \in on \ {s} :
       /\ ~ Talking(t) /\ ~ Owes(t) /\ ~ Holding(t)
       /\ Passing(t) => AllHeard
       /\ Sil(t) < SlotBegin(t)

(* A frame is sent by who has the token, and with the last one it goes.    *)
LEMMA TalkStep ==
  ASSUME Inv, Orderly, NEW s \in on, NEW p, NEW type, NEW dst, Free(s),
         Send(s, p, type, dst), p.SilenceTimer = Sil(s),
         p.Received = Nothing,
         type # "DATA_NOT_EXPECTING_REPLY" => dst # Broadcast,
         type = "TOKEN" => dst = p.Next_Station,
         type = "POLL_FOR_MASTER" => dst = p.Poll_Station,
         \/ /\ type = "TOKEN"
            /\ p.master_state = "PASS_TOKEN" /\ ~ p.EventCount
         \/ type = "POLL_FOR_MASTER" /\ p.master_state = "POLL_FOR_MASTER"
         \/ type = "DATA_EXPECTING_REPLY" /\ p.master_state = "WAIT_FOR_REPLY"
         \/ /\ type = "DATA_NOT_EXPECTING_REPLY"
            /\ p.master_state = "DONE_WITH_TOKEN"
  PROVE  Orderly'
<1> DEFINE f == [type |-> type, src |-> s, dst |-> dst]
<1>1. Alters(s, p, f)
  BY DEF Send, Alters
<1>2. /\ on' = on /\ port'[s] = p /\ air'[s] = f
      /\ \A u \in on : Sil(u)' = Sil(u)
      /\ AllHeard' = AllHeard
  BY <1>1, SilenceKept
<1>3. /\ State(s)' = p.master_state /\ Rcvd(s)' = Nothing
      /\ Sil(s)' = Sil(s)
  BY <1>2 DEF State, Rcvd
<1>4. Talking(s)'
  BY <1>2 DEF Talking, NoFrame
<1>5. s \in Station /\ Alone(s)
  BY DEF Inv, TypeOK, Orderly
<1>6. Nothing.flag = "None" /\ Nothing.frame.type = "NONE"
  BY DEF Nothing, NoFrame
<1>7. Bearer(s)' /\ (Passing(s)' <=> type = "TOKEN") /\ ~ Owes(s)'
      /\ (Holding(s)' <=> type # "TOKEN")
  BY <1>2, <1>3, <1>6 DEF Bearer, Passing, Holding, UsesToken, State, Owes,
                          IsToken
<1>8. Alone(s)'
  <2>1. NothingKept(s)' /\ Noticed(s)' /\ Answers(s)' /\ Expects(s)'
    BY <1>3, <1>6 DEF NothingKept, Noticed, Answers, Expects, Demand
  <2>2. Sends(s)'
    BY <1>2, <1>3, <1>7 DEF Sends, SentIn, Demand, Polled
  <2>3. InTime(s)'
    BY <1>3, <1>4, <1>5 DEF InTime, Alone, SlotBegin
  <2>4. Fresh(s)'
    BY <1>2, <1>3 DEF Fresh
  <2>5. Eldest(s)'
    BY <1>2 DEF Eldest, Free
  <2>6. QED
    BY <2>1, <2>2, <2>3, <2>4, <2>5 DEF Alone
<1>9. ASSUME NEW t \in on \ {s}
      PROVE  Together(s, t)' /\ Together(t, s)'
  <2>1. /\ ~ Talking(t) /\ ~ Owes(t) /\ ~ Holding(t)
        /\ Passing(t) => AllHeard
        /\ Sil(t) < SlotBegin(t)
    BY DEF Free
  <2>2. /\ Sil(t)' = Sil(t)
        /\ Talking(t)' = Talking(t) /\ Owes(t)' = Owes(t)
        /\ Holding(t)' = Holding(t) /\ Passing(t)' = Passing(t)
    BY <1>1, Untouched, RolesKept
  <2>3. OneSpeaks(s, t)' /\ OneSpeaks(t, s)'
    BY <1>7, <2>1, <2>2 DEF OneSpeaks, SlotBegin
  <2>4. OneHolds(s, t)' /\ OneHolds(t, s)'
    BY <1>7, <2>1, <2>2 DEF OneHolds
  <2>5. OnePasses(s, t)' /\ OnePasses(t, s)'
    BY <1>2, <1>4, <1>7, <2>1, <2>2 DEF OnePasses
  <2>6. QED
    BY <2>3, <2>4, <2>5 DEF Together
<1>10. QED
  BY <1>1, <1>2, <1>7, <1>8, <1>9, OrderlyAfter

(* An answer is sent by who was asked.                                     *)
LEMMA RespondStep ==
  ASSUME Inv, Orderly, NEW s \in on, NEW p, NEW type, NEW dst, Owes(s),
         Send(s, p, type, dst), p.SilenceTimer = Sil(s),
         p.Received = Nothing, p.master_state = "IDLE",
         State(s) \in {"IDLE", "ANSWER_DATA_REQUEST"},
         dst = Rcvd(s).frame.src,
         IF Rcvd(s).frame.type = "POLL_FOR_MASTER"
           THEN type = "REPLY_TO_POLL_FOR_MASTER"
           ELSE type \in {"REPLY_POSTPONED", "DATA_NOT_EXPECTING_REPLY"}
  PROVE  Orderly'
<1> DEFINE f == [type |-> type, src |-> s, dst |-> dst]
<1>1. Alters(s, p, f)
  BY DEF Send, Alters
<1>2. /\ on' = on /\ port'[s] = p /\ air'[s] = f
      /\ \A u \in on : Sil(u)' = Sil(u)
      /\ AllHeard' = AllHeard /\ Agree' = Agree
  BY <1>1, SilenceKept
<1>3. /\ State(s)' = "IDLE" /\ Rcvd(s)' = Nothing
      /\ Sil(s)' = Sil(s)
  BY <1>2 DEF State, Rcvd
<1>4. s \in Station /\ Alone(s)
  BY DEF Inv, TypeOK, Orderly
<1>5. Nothing.flag = "None" /\ Nothing.frame.type = "NONE"
  BY DEF Nothing, NoFrame
<1>6. ~ Bearer(s)' /\ ~ Passing(s)' /\ ~ Holding(s)' /\ ~ Owes(s)'
  BY <1>2, <1>3, <1>5 DEF Bearer, Passing, Holding, UsesToken, State, Owes,
                          IsToken
<1>7. ~ Bearer(s) /\ Rcvd(s) # Nothing
  BY <1>4, OwerHasNoToken
<1>8. Sil(s) < Tno_token
  <2>1. CASE State(s) = "ANSWER_DATA_REQUEST"
    BY <1>4, <2>1, Times, StationTypes DEF Alone, Answers
  <2>2. CASE State(s) # "ANSWER_DATA_REQUEST"
    BY <1>4, <1>7, <2>2, Times DEF Alone, Fresh, AllHeard
  <2>3. QED
    BY <2>1, <2>2
<1>9. Alone(s)'
  <2>1. NothingKept(s)' /\ Noticed(s)' /\ Answers(s)' /\ Expects(s)'
    BY <1>3, <1>5 DEF NothingKept, Noticed, Answers, Expects, Demand
  <2>2. Sends(s)'
    BY <1>2, <1>3 DEF Sends, SentIn, Demand
  <2>3. InTime(s)'
    BY <1>3, <1>4, <1>6 DEF InTime, Alone, SlotBegin
  <2>4. Fresh(s)' /\ Eldest(s)'
    BY <1>3, <1>6 DEF Fresh, Eldest
  <2>5. QED
    BY <2>1, <2>2, <2>3, <2>4 DEF Alone
<1>10. ASSUME NEW t \in on \ {s}
       PROVE  Together(s, t)' /\ Together(t, s)'
  <2>1. Together(s, t) /\ Together(t, s) /\ t # s
    BY DEF Orderly
  <2>2. /\ Sil(t)' = Sil(t) /\ State(t)' = State(t) /\ Rcvd(t)' = Rcvd(t)
        /\ Talking(t)' = Talking(t) /\ Owes(t)' = Owes(t)
        /\ Holding(t)' = Holding(t) /\ Passing(t)' = Passing(t)
        /\ Patient(t)' = Patient(t)
        /\ Polls(t)' = Polls(t) /\ Polled(t)' = Polled(t)
    BY <1>1, Untouched, RolesKept
  <2>3. /\ ~ Talking(t) /\ ~ Owes(t) /\ ~ Passing(t)
        /\ Holding(t) => Patient(t)
    BY <2>1 DEF Together, OneSpeaks, OneHolds, OnePasses
  <2>4. Sil(t) < SlotBegin(t)
    <3>1. Sil(t) <= Sil(s) /\ t \in Station /\ s \in Station
      BY <1>4 DEF Alone, Eldest, Inv, TypeOK
    <3>2. Sil(t) \in Nat /\ Sil(s) \in Nat /\ SlotBegin(t) \in Nat
          /\ Tno_token <= SlotBegin(t)
      BY <3>1, StationTypes, TurnType
    <3>3. QED
      BY <1>8, <3>1, <3>2, Times
  <2>5. OneSpeaks(s, t)' /\ OneSpeaks(t, s)'
    BY <1>6, <2>2, <2>3, <2>4 DEF OneSpeaks, SlotBegin
  <2>6. OneHolds(s, t)' /\ OneHolds(t, s)'
    <3>1. Holding(t) => (Polls(t) => s = Polled(t))
                        /\ QuestionOf(t, Rcvd(s).frame)
      BY <2>1 DEF Together, OneHolds
    <3>2. Holding(t) => AnswerTo(t, f)
      BY <3>1 DEF QuestionOf, AnswerTo, IsReply, IsReplyToPFM
    <3>3. Holding(t) => AnswerTo(t, f)'
      BY <2>2, <3>2 DEF AnswerTo, IsReply, IsReplyToPFM
    <3>4. QED
      BY <1>2, <1>6, <2>2, <2>3, <3>1, <3>3 DEF OneHolds
  <2>7. OnePasses(s, t)' /\ OnePasses(t, s)'
    BY <1>6, <2>2, <2>3 DEF OnePasses
  <2>8. QED
    BY <2>5, <2>6, <2>7 DEF Together
<1>11. (\E t \in on : Bearer(t)') \/ Agree'
  <2>1. CASE \E t \in on : Bearer(t)
    BY <1>1, <1>7, <2>1, Untouched, RolesKept
  <2>2. QED
    BY <1>2, <2>1 DEF Orderly
<1>12. QED
  BY <1>1, <1>9, <1>10, <1>11, OrderlyAfter
-----------------------------------------------------------------------------
(* When the line is free.                                                  *)

LEMMA HolderIsFree ==
  ASSUME Inv, Orderly, NEW s \in on, Holding(s), ~ Patient(s), ~ Talking(s)
  PROVE  Free(s)
<1>1. s \in Station /\ Alone(s)
  BY DEF Inv, TypeOK, Orderly
<1>2. \A u \in on : Sil(u) <= Sil(s)
  BY <1>1 DEF Alone, Eldest, Bearer
<1>3. Sil(s) < Tno_token
  BY <1>1 DEF Alone, InTime, Bearer
<1>4. ASSUME NEW t \in on \ {s}
      PROVE  /\ ~ Talking(t) /\ ~ Owes(t) /\ ~ Holding(t)
             /\ Passing(t) => AllHeard
             /\ Sil(t) < SlotBegin(t)
  <2>1. Together(s, t) /\ Together(t, s) /\ t \in Station
    BY DEF Orderly, Inv, TypeOK
  <2>2. /\ ~ Talking(t) /\ ~ Owes(t) /\ ~ Holding(t)
        /\ Passing(t) => AllHeard
    BY <2>1 DEF Together, OneHolds, OnePasses
  <2>3. Sil(t) \in Nat /\ Sil(s) \in Nat /\ SlotBegin(t) \in Nat
        /\ Tno_token <= SlotBegin(t) /\ Sil(t) <= Sil(s)
    BY <1>1, <1>2, <2>1, StationTypes, TurnType
  <2>4. QED
    BY <1>3, <2>2, <2>3, Times
<1>5. QED
  BY <1>2, <1>4 DEF Free

(* A token that was sent has not been used.                                *)
LEMMA PasserIsFree ==
  ASSUME Inv, Orderly, NEW s \in on, State(s) = "PASS_TOKEN",
         Sil(s) > Tusage_timeout, ~ Talking(s)
  PROVE  Free(s) /\ Passing(s) /\ Rcvd(s) = Nothing
<1>1. s \in Station /\ Alone(s)
  BY DEF Inv, TypeOK, Orderly
<1>2. ~ AllHeard
  BY <1>1, StationTypes, Times DEF AllHeard
<1>3. Passing(s) /\ Rcvd(s) = Nothing
  <2>1. ~ port[s].EventCount
    BY <1>1, <1>2 DEF Alone, Fresh
  <2>2. QED
    BY <1>1, <2>1 DEF Passing, Alone, Noticed
<1>4. \A u \in on : Sil(u) <= Sil(s)
  BY <1>1, <1>3 DEF Alone, Eldest, Bearer
<1>5. Sil(s) < Tno_token
  BY <1>1, <1>3 DEF Alone, InTime, Bearer
<1>6. ASSUME NEW t \in on \ {s}
      PROVE  /\ ~ Talking(t) /\ ~ Owes(t) /\ ~ Holding(t)
             /\ Passing(t) => AllHeard
             /\ Sil(t) < SlotBegin(t)
  <2>1. Together(s, t) /\ Together(t, s) /\ t \in Station
    BY DEF Orderly, Inv, TypeOK
  <2>2. /\ ~ Talking(t) /\ ~ Owes(t) /\ ~ Holding(t)
        /\ Passing(t) => AllHeard
    BY <1>2, <1>3, <2>1 DEF Together, OnePasses
  <2>3. Sil(t) \in Nat /\ Sil(s) \in Nat /\ SlotBegin(t) \in Nat
        /\ Tno_token <= SlotBegin(t) /\ Sil(t) <= Sil(s)
    BY <1>1, <1>4, <2>1, StationTypes, TurnType
  <2>4. QED
    BY <1>5, <2>2, <2>3, Times
<1>7. QED
  BY <1>3, <1>4, <1>6 DEF Free

(* Whose turn it is to replace the token: it is lost, and nobody else has  *)
(* this turn.                                                              *)
LEMMA GeneratorIsFree ==
  ASSUME Inv, Orderly, NEW s \in on, State(s) = "NO_TOKEN",
         Sil(s) >= SlotBegin(s), ~ Talking(s)
  PROVE  Free(s) /\ Rcvd(s) = Nothing
<1>1. s \in Station /\ Alone(s)
  BY DEF Inv, TypeOK, Orderly
<1>2. Sil(s) \in Nat /\ SlotBegin(s) \in Nat /\ Tno_token <= SlotBegin(s)
  BY <1>1, StationTypes, TurnType
<1>3. Sil(s) = SlotBegin(s)
  BY <1>1, <1>2 DEF Alone, InTime
<1>4. ~ AllHeard
  BY <1>2, <1>3, Times DEF AllHeard
<1>5. Rcvd(s) = Nothing
  BY <1>1, <1>4 DEF Alone, Fresh
<1>6. ~ Bearer(s)
  BY <1>5 DEF Bearer, Holding, UsesToken, Passing, State, IsToken, Nothing
<1>7. \A t \in on \ {s} : t \in Station /\ Sil(t) \in Nat /\ ~ Talking(t)
  <2>1. ASSUME NEW t \in on \ {s} PROVE t \in Station /\ Sil(t) \in Nat
    BY StationTypes DEF Inv, TypeOK
  <2>2. ASSUME NEW t \in on \ {s} PROVE ~ Talking(t)
    BY <1>2, <1>3 DEF Orderly, Together, OneSpeaks
  <2>3. QED
    BY <2>1, <2>2
<1>8. \A t \in on : ~ Bearer(t)
  <2>1. ASSUME NEW t \in on \ {s}, Bearer(t) PROVE FALSE
    <3>1. Sil(t) < Tno_token /\ Sil(s) <= Sil(t)
      BY <1>7, <2>1 DEF Orderly, Alone, InTime, Eldest
    <3>2. QED
      BY <1>2, <1>3, <1>7, <3>1, Times
  <2>2. QED
    BY <1>6, <2>1
<1>9. \A t \in on : Sil(t) = Sil(s)
  BY <1>8 DEF Orderly, Agree
<1>10. ASSUME NEW t \in on \ {s}
       PROVE  ~ Owes(t) /\ Sil(t) < SlotBegin(t)
  <2>1. t \in Station /\ Alone(t) /\ Sil(t) = Sil(s) /\ Sil(t) \in Nat
    BY <1>7, <1>9 DEF Orderly
  <2>2. ~ Owes(t)
    <3>1. SUFFICES ASSUME Owes(t) PROVE FALSE
      OBVIOUS
    <3>2. Rcvd(t) # Nothing
      BY <2>1, <3>1, OwerHasNoToken
    <3>3. State(t) = "ANSWER_DATA_REQUEST"
      BY <1>4, <2>1, <3>2 DEF Alone, Fresh
    <3>4. Sil(t) <= Treply_delay + 1
      BY <2>1, <3>3 DEF Alone, Answers
    <3>5. QED
      BY <1>2, <1>3, <2>1, <3>4, Times
  <2>3. SlotBegin(t) # SlotBegin(s) /\ SlotBegin(t) \in Nat
        /\ Sil(t) <= SlotBegin(t)
    BY <1>1, <2>1, TurnsDiffer, TurnType DEF Alone, InTime
  <2>4. QED
    BY <1>2, <1>3, <2>1, <2>2, <2>3
<1>11. ~ Talking(s) /\ \A u \in on : Sil(u) <= Sil(s)
  BY <1>2, <1>3, <1>9
<1>12. \A t \in on \ {s} : ~ Holding(t) /\ ~ Passing(t)
  BY <1>8 DEF Bearer
<1>13. QED
  BY <1>5, <1>7, <1>10, <1>11, <1>12 DEF Free
-----------------------------------------------------------------------------
(* The steps of a station, state by state.                                 *)

LEMMA Runner ==
  ASSUME Inv, Orderly, NEW s \in Station, NEW st, Runs(s, st)
  PROVE  /\ s \in on /\ Awake(s) /\ ~ Talking(s)
         /\ State(s) = st /\ port[s].master_state = st
         /\ port[s].Received = Rcvd(s) /\ port[s].SilenceTimer = Sil(s)
         /\ port[s] \in Port /\ s \in Address
         /\ NothingKept(s) /\ Noticed(s) /\ Answers(s) /\ Expects(s)
         /\ Rcvd(s) # Nothing /\ st # "ANSWER_DATA_REQUEST" => AllHeard
<1>1. s \in on /\ Awake(s) /\ ~ Talking(s) /\ State(s) = st
  BY DEF Runs, Awake, Talking, State
<1>2. Alone(s)
  BY <1>1 DEF Orderly
<1>3. QED
  BY <1>1, <1>2, PortOf DEF Alone, Fresh, State, Rcvd, Sil

(* Who has the token in these states is not patient.                       *)
LEMMA UserHolds ==
  ASSUME NEW s \in on, State(s) \in {"USE_TOKEN", "DONE_WITH_TOKEN"}
  PROVE  Holding(s) /\ ~ Patient(s) /\ ~ Passing(s)
BY DEF Holding, UsesToken, State, Patient, Passing

LEMMA WaiterHolds ==
  ASSUME NEW s \in on, State(s) \in {"WAIT_FOR_REPLY", "POLL_FOR_MASTER"}
  PROVE  Holding(s) /\ ~ Passing(s) /\ (Rcvd(s) # Nothing => ~ Patient(s))
BY DEF Holding, UsesToken, State, Passing, Patient

LEMMA ListenerHolds ==
  ASSUME NEW s \in on, State(s) \in {"INITIALIZE", "IDLE", "NO_TOKEN"}
  PROVE  /\ ~ Passing(s)
         /\ Holding(s) <=> IsToken(Rcvd(s))
         /\ Holding(s) => Rcvd(s) # Nothing /\ ~ Patient(s)
BY DEF Holding, UsesToken, State, Passing, Patient, IsToken, Nothing

LEMMA ListeningKeepsOrder ==
  ASSUME Inv, Orderly, NEW s \in Station,
         DoneInitializing(s) \/ ReceivedBad(s) \/
           ReceivedToken(s) \/ ReceivedNoReplyNeeded(s) \/
           ReceivedDataNeedingReply(s) \/ LostToken(s) \/
           SawFrame(s) \/ SawTokenUser(s)
  PROVE  Orderly'
<1>1. CASE DoneInitializing(s)
  <2> DEFINE p ==
              [port[s] EXCEPT !.Next_Station = s, !.Poll_Station = s,
              !.TokenCount = Npoll, !.SoleMaster = FALSE, !.master_state =
              "IDLE"]
  <2>1. Runs(s, "INITIALIZE") /\ Become(s, p)
    BY <1>1 DEF DoneInitializing
  <2>2. p.SilenceTimer = Sil(s) /\ p.Received = Rcvd(s)
        /\ p.master_state = "IDLE"
    BY <2>1, Runner DEF Port
  <2> HIDE DEF p
  <2>3. ~ Passing(s) /\ ~ Holding(s)
    BY <2>1, Runner, ListenerHolds DEF NothingKept
  <2>4. QED
    BY <2>1, <2>2, <2>3, Runner, QuietStep
<1>2. CASE ReceivedBad(s)
  <2> DEFINE p ==
              [port[s] EXCEPT !.Received = Nothing]
  <2>1. Runs(s, "IDLE") /\ Become(s, p)
    BY <1>2 DEF ReceivedBad
  <2>2. p.SilenceTimer = Sil(s) /\ p.Received = Nothing
        /\ p.master_state = "IDLE"
    BY <2>1, Runner DEF Port
  <2> HIDE DEF p
  <2>3. ~ Passing(s) /\ (Holding(s) => Rcvd(s) # Nothing)
    BY <2>1, Runner, ListenerHolds
  <2>4. QED
    BY <2>1, <2>2, <2>3, Runner, QuietStep
<1>3. CASE ReceivedToken(s)
  <2> DEFINE p ==
              [port[s] EXCEPT !.Received = Nothing, !.FrameCount = 0,
              !.SoleMaster = FALSE, !.master_state = "USE_TOKEN"]
  <2>1. Runs(s, "IDLE") /\ Become(s, p)
    BY <1>3 DEF ReceivedToken
  <2>2. p.SilenceTimer = Sil(s) /\ p.Received = Nothing
        /\ p.master_state = "USE_TOKEN"
    BY <2>1, Runner DEF Port
  <2> HIDE DEF p
  <2>3. ~ Passing(s) /\ Holding(s) /\ ~ Patient(s)
    BY <1>3, <2>1, Runner, ListenerHolds DEF ReceivedToken, Got, IsToken
  <2>4. QED
    BY <2>1, <2>2, <2>3, Runner, QuietStep
<1>4. CASE ReceivedNoReplyNeeded(s)
  <2> DEFINE p ==
              [port[s] EXCEPT !.Received = Nothing]
  <2>1. Runs(s, "IDLE") /\ Become(s, p)
    BY <1>4 DEF ReceivedNoReplyNeeded
  <2>2. p.SilenceTimer = Sil(s) /\ p.Received = Nothing
        /\ p.master_state = "IDLE"
    BY <2>1, Runner DEF Port
  <2> HIDE DEF p
  <2>3. ~ Passing(s) /\ (Holding(s) => Rcvd(s) # Nothing)
    BY <2>1, Runner, ListenerHolds
  <2>4. QED
    BY <2>1, <2>2, <2>3, Runner, QuietStep
<1>5. CASE ReceivedDataNeedingReply(s)
  <2> DEFINE p ==
              [port[s] EXCEPT !.master_state = "ANSWER_DATA_REQUEST"]
  <2>1. Runs(s, "IDLE") /\ Become(s, p)
    BY <1>5 DEF ReceivedDataNeedingReply
  <2>2. p.SilenceTimer = Sil(s) /\ p.Received = Rcvd(s)
        /\ p.master_state = "ANSWER_DATA_REQUEST"
    BY <2>1, Runner DEF Port
  <2> HIDE DEF p
  <2>3. ~ Passing(s) /\ (Holding(s) => Rcvd(s) # Nothing)
        /\ Got(s, "DATA_EXPECTING_REPLY")
    BY <1>5, <2>1, Runner, ListenerHolds DEF ReceivedDataNeedingReply
  <2>4. QED
    BY <2>1, <2>2, <2>3, Runner, QuietStep
<1>6. CASE LostToken(s)
  <2> DEFINE p ==
              [port[s] EXCEPT !.EventCount = FALSE, !.master_state = "NO_TOKEN"]
  <2>1. Runs(s, "IDLE") /\ Become(s, p)
    BY <1>6 DEF LostToken
  <2>2. p.SilenceTimer = Sil(s) /\ p.Received = Rcvd(s)
        /\ p.master_state = "NO_TOKEN"
    BY <2>1, Runner DEF Port
  <2> HIDE DEF p
  <2>3. ~ Passing(s) /\ ~ Holding(s) /\ Rcvd(s) = Nothing
    BY <1>6, <2>1, Runner, ListenerHolds DEF LostToken
  <2>4. QED
    BY <2>1, <2>2, <2>3, Runner, QuietStep
<1>7. CASE SawFrame(s)
  <2> DEFINE p ==
              [port[s] EXCEPT !.master_state = "IDLE"]
  <2>1. Runs(s, "NO_TOKEN") /\ Become(s, p)
    BY <1>7 DEF SawFrame
  <2>2. p.SilenceTimer = Sil(s) /\ p.Received = Rcvd(s)
        /\ p.master_state = "IDLE"
    BY <2>1, Runner DEF Port
  <2> HIDE DEF p
  <2>3. ~ Passing(s) /\ (Holding(s) => Rcvd(s) # Nothing)
    BY <2>1, Runner, ListenerHolds
  <2>4. QED
    BY <2>1, <2>2, <2>3, Runner, QuietStep
<1>8. CASE SawTokenUser(s)
  <2> DEFINE p ==
              [port[s] EXCEPT !.master_state = "IDLE"]
  <2>1. Runs(s, "PASS_TOKEN") /\ Become(s, p)
    BY <1>8 DEF SawTokenUser
  <2>2. p.SilenceTimer = Sil(s) /\ p.Received = Rcvd(s)
        /\ p.master_state = "IDLE"
    BY <2>1, Runner DEF Port
  <2> HIDE DEF p
  <2>3. ~ Passing(s) /\ (Holding(s) => Rcvd(s) # Nothing)
    BY <1>8, <2>1, Runner
    DEF SawTokenUser, Passing, Holding, UsesToken, State, IsToken, Nothing
  <2>4. QED
    BY <2>1, <2>2, <2>3, Runner, QuietStep
<1>9. QED
  BY <1>1, <1>2, <1>3, <1>4, <1>5, <1>6, <1>7, <1>8

LEMMA UsingKeepsOrder ==
  ASSUME Inv, Orderly, NEW s \in Station,
         NothingToSend(s) \/ SendAnotherFrame(s) \/
           SoleMaster(s)
  PROVE  Orderly'
<1>1. CASE NothingToSend(s)
  <2> DEFINE p ==
              [port[s] EXCEPT !.FrameCount = Nmax_info_frames, !.master_state =
              "DONE_WITH_TOKEN"]
  <2>1. Runs(s, "USE_TOKEN") /\ Become(s, p)
    BY <1>1 DEF NothingToSend
  <2>2. p.SilenceTimer = Sil(s) /\ p.Received = Rcvd(s)
        /\ p.master_state = "DONE_WITH_TOKEN"
    BY <2>1, Runner DEF Port
  <2> HIDE DEF p
  <2>3. ~ Passing(s) /\ Holding(s) /\ ~ Patient(s) /\ Rcvd(s) = Nothing
    BY <2>1, Runner, UserHolds DEF NothingKept
  <2>4. QED
    BY <2>1, <2>2, <2>3, Runner, QuietStep
<1>2. CASE SendAnotherFrame(s)
  <2> DEFINE p ==
              [port[s] EXCEPT !.master_state = "USE_TOKEN"]
  <2>1. Runs(s, "DONE_WITH_TOKEN") /\ Become(s, p)
    BY <1>2 DEF SendAnotherFrame
  <2>2. p.SilenceTimer = Sil(s) /\ p.Received = Rcvd(s)
        /\ p.master_state = "USE_TOKEN"
    BY <2>1, Runner DEF Port
  <2> HIDE DEF p
  <2>3. ~ Passing(s) /\ Holding(s) /\ ~ Patient(s) /\ Rcvd(s) = Nothing
    BY <2>1, Runner, UserHolds DEF NothingKept
  <2>4. QED
    BY <2>1, <2>2, <2>3, Runner, QuietStep
<1>3. CASE SoleMaster(s)
  <2> DEFINE p ==
              [port[s] EXCEPT !.FrameCount = 0, !.TokenCount = @ + 1,
              !.master_state = "USE_TOKEN"]
  <2>1. Runs(s, "DONE_WITH_TOKEN") /\ Become(s, p)
    BY <1>3 DEF SoleMaster, Finished
  <2>2. p.SilenceTimer = Sil(s) /\ p.Received = Rcvd(s)
        /\ p.master_state = "USE_TOKEN"
    BY <2>1, Runner DEF Port
  <2> HIDE DEF p
  <2>3. ~ Passing(s) /\ Holding(s) /\ ~ Patient(s) /\ Rcvd(s) = Nothing
    BY <2>1, Runner, UserHolds DEF NothingKept
  <2>4. QED
    BY <2>1, <2>2, <2>3, Runner, QuietStep
<1>4. QED
  BY <1>1, <1>2, <1>3

LEMMA PollFailedHolds ==
  ASSUME Inv, Orderly, NEW s \in Station, PollFailed(s)
  PROVE  Holding(s) /\ ~ Patient(s) /\ ~ Passing(s) /\ ~ Talking(s)
<1>1. Runs(s, "POLL_FOR_MASTER")
  BY DEF PollFailed
<1>2. Rcvd(s) # Nothing \/ Sil(s) > Tusage_timeout
  BY <1>1, Runner DEF PollFailed, GotBad, Nothing
<1>3. Sil(s) > Tusage_timeout => Sil(s) # 0
  BY Times, StationTypes
<1>4. QED
  BY <1>1, <1>2, <1>3, Runner, WaiterHolds DEF Patient

LEMMA WaitingKeepsOrder ==
  ASSUME Inv, Orderly, NEW s \in Station,
         ReplyTimeout(s) \/ InvalidReply(s) \/
           ReceivedReply(s) \/ WaitUnexpectedFrame(s) \/
           PollUnexpectedFrame(s) \/ SoleMasterPollFailed(s) \/
           DeclareSoleMaster(s)
  PROVE  Orderly'
<1>1. CASE ReplyTimeout(s)
  <2> DEFINE p ==
              [port[s] EXCEPT !.FrameCount = Nmax_info_frames, !.master_state =
              "DONE_WITH_TOKEN"]
  <2>1. Runs(s, "WAIT_FOR_REPLY") /\ Become(s, p)
    BY <1>1 DEF ReplyTimeout
  <2>2. p.SilenceTimer = Sil(s) /\ p.Received = Rcvd(s)
        /\ p.master_state = "DONE_WITH_TOKEN"
    BY <2>1, Runner DEF Port
  <2> HIDE DEF p
  <2>3. Sil(s) >= Treply_timeout /\ Sil(s) \in Nat
    BY <1>1, <2>1, Runner, StationTypes DEF ReplyTimeout, ReplyOverdue
  <2>4. ~ Passing(s) /\ Holding(s) /\ ~ Patient(s)
    BY <2>1, <2>3, Runner, WaiterHolds, Times DEF Patient
  <2>5. Rcvd(s) = Nothing
    BY <2>1, <2>3, Runner, Times DEF AllHeard
  <2>6. QED
    BY <2>1, <2>2, <2>4, <2>5, Runner, QuietStep
<1>2. CASE InvalidReply(s)
  <2> DEFINE p ==
              [port[s] EXCEPT !.Received = Nothing, !.master_state =
              "DONE_WITH_TOKEN"]
  <2>1. Runs(s, "WAIT_FOR_REPLY") /\ Become(s, p)
    BY <1>2 DEF InvalidReply, Waiting
  <2>2. p.SilenceTimer = Sil(s) /\ p.Received = Nothing
        /\ p.master_state = "DONE_WITH_TOKEN"
    BY <2>1, Runner DEF Port
  <2> HIDE DEF p
  <2>3. Rcvd(s) # Nothing
    BY <1>2, <2>1, Runner DEF InvalidReply, GotBad, Nothing
  <2>4. ~ Passing(s) /\ Holding(s) /\ ~ Patient(s)
    BY <2>1, <2>3, Runner, WaiterHolds
  <2>5. QED
    BY <2>1, <2>2, <2>3, <2>4, Runner, QuietStep
<1>3. CASE ReceivedReply(s)
  <2> DEFINE p ==
              [port[s] EXCEPT !.Received = Nothing, !.master_state =
              "DONE_WITH_TOKEN"]
  <2>1. Runs(s, "WAIT_FOR_REPLY") /\ Become(s, p)
    BY <1>3 DEF ReceivedReply, Waiting
  <2>2. p.SilenceTimer = Sil(s) /\ p.Received = Nothing
        /\ p.master_state = "DONE_WITH_TOKEN"
    BY <2>1, Runner DEF Port
  <2> HIDE DEF p
  <2>3. Rcvd(s) # Nothing
    BY <1>3, <2>1, Runner DEF ReceivedReply, GotBad, Nothing
  <2>4. ~ Passing(s) /\ Holding(s) /\ ~ Patient(s)
    BY <2>1, <2>3, Runner, WaiterHolds
  <2>5. QED
    BY <2>1, <2>2, <2>3, <2>4, Runner, QuietStep
<1>4. CASE WaitUnexpectedFrame(s)
  <2> DEFINE p ==
              [port[s] EXCEPT !.Received = Nothing, !.master_state = "IDLE"]
  <2>1. Runs(s, "WAIT_FOR_REPLY") /\ Become(s, p)
    BY <1>4 DEF WaitUnexpectedFrame, Waiting
  <2>2. p.SilenceTimer = Sil(s) /\ p.Received = Nothing
        /\ p.master_state = "IDLE"
    BY <2>1, Runner DEF Port
  <2> HIDE DEF p
  <2>3. Rcvd(s) # Nothing
    BY <1>4, <2>1, Runner DEF WaitUnexpectedFrame, GotBad, Nothing
  <2>4. ~ Passing(s) /\ Holding(s) /\ ~ Patient(s)
    BY <2>1, <2>3, Runner, WaiterHolds
  <2>5. QED
    BY <2>1, <2>2, <2>3, <2>4, Runner, QuietStep
<1>5. CASE PollUnexpectedFrame(s)
  <2> DEFINE p ==
              [port[s] EXCEPT !.Received = Nothing, !.master_state = "IDLE"]
  <2>1. Runs(s, "POLL_FOR_MASTER") /\ Become(s, p)
    BY <1>5 DEF PollUnexpectedFrame
  <2>2. p.SilenceTimer = Sil(s) /\ p.Received = Nothing
        /\ p.master_state = "IDLE"
    BY <2>1, Runner DEF Port
  <2> HIDE DEF p
  <2>3. Rcvd(s) # Nothing
    BY <1>5, <2>1, Runner DEF PollUnexpectedFrame, GotBad, Nothing
  <2>4. ~ Passing(s) /\ Holding(s) /\ ~ Patient(s)
    BY <2>1, <2>3, Runner, WaiterHolds
  <2>5. QED
    BY <2>1, <2>2, <2>3, <2>4, Runner, QuietStep
<1>6. CASE SoleMasterPollFailed(s)
  <2> DEFINE p ==
              [port[s] EXCEPT !.FrameCount = 0, !.Received = Nothing,
              !.master_state = "USE_TOKEN"]
  <2>1. Runs(s, "POLL_FOR_MASTER") /\ Become(s, p)
    BY <1>6 DEF SoleMasterPollFailed, PollFailed
  <2>2. p.SilenceTimer = Sil(s) /\ p.Received = Nothing
        /\ p.master_state = "USE_TOKEN"
    BY <2>1, Runner DEF Port
  <2> HIDE DEF p
  <2>3. ~ Passing(s) /\ Holding(s) /\ ~ Patient(s)
    BY <1>6, <2>1, Runner, PollFailedHolds DEF SoleMasterPollFailed
  <2>4. QED
    BY <2>1, <2>2, <2>3, Runner, QuietStep
<1>7. CASE DeclareSoleMaster(s)
  <2> DEFINE p ==
              [port[s] EXCEPT !.SoleMaster = TRUE, !.FrameCount = 0, !.Received
              = Nothing, !.master_state = "USE_TOKEN"]
  <2>1. Runs(s, "POLL_FOR_MASTER") /\ Become(s, p)
    BY <1>7 DEF DeclareSoleMaster, PollFailed
  <2>2. p.SilenceTimer = Sil(s) /\ p.Received = Nothing
        /\ p.master_state = "USE_TOKEN"
    BY <2>1, Runner DEF Port
  <2> HIDE DEF p
  <2>3. ~ Passing(s) /\ Holding(s) /\ ~ Patient(s)
    BY <1>7, <2>1, Runner, PollFailedHolds DEF DeclareSoleMaster
  <2>4. QED
    BY <2>1, <2>2, <2>3, Runner, QuietStep
<1>8. QED
  BY <1>1, <1>2, <1>3, <1>4, <1>5, <1>6, <1>7
LEMMA AnswersKeepOrder ==
  ASSUME Inv, Orderly, NEW s \in Station,
         ReceivedPFM(s) \/ Reply(s) \/
           DeferredReply(s)
  PROVE  Orderly'
<1>1. CASE ReceivedPFM(s)
  <2> DEFINE p ==
              [port[s] EXCEPT !.Received = Nothing]
  <2>1. /\ Runs(s, "IDLE")
        /\ Send(s, p, "REPLY_TO_POLL_FOR_MASTER", port[s].Received.frame.src)
    BY <1>1 DEF ReceivedPFM
  <2>2. p.SilenceTimer = Sil(s) /\ p.Received = Nothing
        /\ p.master_state = "IDLE"
    BY <2>1, Runner DEF Port
  <2> HIDE DEF p
  <2>3. Owes(s)
    BY <1>1, <2>1, Runner DEF ReceivedPFM, Got, Owes, Demand, Answers
  <2>4. Rcvd(s).frame.type = "POLL_FOR_MASTER"
    BY <1>1, <2>1, Runner DEF ReceivedPFM, Got
  <2>5. QED
    BY <2>1, <2>2, <2>3, <2>4, Runner, RespondStep
<1>2. CASE Reply(s)
  <2> DEFINE p ==
              [port[s] EXCEPT !.Received = Nothing, !.master_state = "IDLE"]
  <2>1. /\ Runs(s, "ANSWER_DATA_REQUEST")
        /\ Send(s, p, "DATA_NOT_EXPECTING_REPLY", port[s].Received.frame.src)
    BY <1>2 DEF Reply
  <2>2. p.SilenceTimer = Sil(s) /\ p.Received = Nothing
        /\ p.master_state = "IDLE"
    BY <2>1, Runner DEF Port
  <2> HIDE DEF p
  <2>3. Owes(s)
    BY <1>2, <2>1, Runner DEF Reply, Got, Owes, Demand, Answers
  <2>4. Rcvd(s).frame.type = "DATA_EXPECTING_REPLY"
    BY <2>1, Runner DEF Answers
  <2>5. QED
    BY <2>1, <2>2, <2>3, <2>4, Runner, RespondStep
<1>3. CASE DeferredReply(s)
  <2> DEFINE p ==
              [port[s] EXCEPT !.Received = Nothing, !.master_state = "IDLE"]
  <2>1. /\ Runs(s, "ANSWER_DATA_REQUEST")
        /\ Send(s, p, "REPLY_POSTPONED", port[s].Received.frame.src)
    BY <1>3 DEF DeferredReply
  <2>2. p.SilenceTimer = Sil(s) /\ p.Received = Nothing
        /\ p.master_state = "IDLE"
    BY <2>1, Runner DEF Port
  <2> HIDE DEF p
  <2>3. Owes(s)
    BY <1>3, <2>1, Runner DEF DeferredReply, Got, Owes, Demand, Answers
  <2>4. Rcvd(s).frame.type = "DATA_EXPECTING_REPLY"
    BY <2>1, Runner DEF Answers
  <2>5. QED
    BY <2>1, <2>2, <2>3, <2>4, Runner, RespondStep
<1>4. QED
  BY <1>1, <1>2, <1>3

LEMMA DoneWithTokenKeepsOrder ==
  ASSUME Inv, Orderly, NEW s \in Station,
         PollNextStation(s) \/ SendToken(s) \/
           SoleMasterRestartMaintenancePFM(s) \/ ResetMaintenancePFM(s) \/
           SendMaintenancePFM(s)
  PROVE  Orderly'
<1>1. CASE PollNextStation(s)
  <2> DEFINE p ==
              [port[s] EXCEPT !.Poll_Station = Succ(s), !.RetryCount = 0,
              !.master_state = "POLL_FOR_MASTER"]
  <2>1. /\ Runs(s, "DONE_WITH_TOKEN")
        /\ Send(s, p, "POLL_FOR_MASTER", Succ(s))
    BY <1>1 DEF PollNextStation, NextStationUnknown, Finished
  <2>2. p.SilenceTimer = Sil(s) /\ p.Received = Rcvd(s)
        /\ p.master_state = "POLL_FOR_MASTER"
        /\ p.Poll_Station = Succ(s)
    BY <2>1, Runner DEF Port
  <2> HIDE DEF p
  <2>3. Free(s) /\ Rcvd(s) = Nothing /\ Succ(s) \in Address
    BY <2>1, Runner, UserHolds, HolderIsFree, SuccType DEF NothingKept, Port
  <2>4. QED
    BY <2>1, <2>2, <2>3, Runner, TalkStep, Times
<1>2. CASE SendToken(s)
  <2> DEFINE p ==
              [port[s] EXCEPT !.TokenCount = port[s].TokenCount + 1,
              !.Poll_Station = port[s].Poll_Station, !.RetryCount = 0,
              !.EventCount = FALSE, !.master_state = "PASS_TOKEN"]
  <2>1. /\ Runs(s, "DONE_WITH_TOKEN")
        /\ Send(s, p, "TOKEN", port[s].Next_Station)
    BY <1>2 DEF SendToken, PassToken, Finished
  <2>2. p.SilenceTimer = Sil(s) /\ p.Received = Rcvd(s)
        /\ p.master_state = "PASS_TOKEN" /\ ~ p.EventCount
        /\ p.Next_Station = port[s].Next_Station
    BY <2>1, Runner DEF Port
  <2> HIDE DEF p
  <2>3. Free(s) /\ Rcvd(s) = Nothing /\ port[s].Next_Station \in Address
    BY <2>1, Runner, UserHolds, HolderIsFree, SuccType DEF NothingKept, Port
  <2>4. QED
    BY <2>1, <2>2, <2>3, Runner, TalkStep, Times
<1>3. CASE SoleMasterRestartMaintenancePFM(s)
  <2> DEFINE p ==
              [port[s] EXCEPT !.Poll_Station = Succ(port[s].Next_Station),
              !.Next_Station = s, !.RetryCount = 0, !.TokenCount = 1,
              !.master_state = "POLL_FOR_MASTER"]
  <2>1. /\ Runs(s, "DONE_WITH_TOKEN")
        /\ Send(s, p, "POLL_FOR_MASTER", Succ(port[s].Next_Station))
    BY <1>3 DEF SoleMasterRestartMaintenancePFM, FindSuccessor, Finished
  <2>2. p.SilenceTimer = Sil(s) /\ p.Received = Rcvd(s)
        /\ p.master_state = "POLL_FOR_MASTER"
        /\ p.Poll_Station = Succ(port[s].Next_Station)
    BY <2>1, Runner DEF Port
  <2> HIDE DEF p
  <2>3. Free(s) /\ Rcvd(s) = Nothing /\ Succ(port[s].Next_Station) \in Address
    BY <2>1, Runner, UserHolds, HolderIsFree, SuccType DEF NothingKept, Port
  <2>4. QED
    BY <2>1, <2>2, <2>3, Runner, TalkStep, Times
<1>4. CASE ResetMaintenancePFM(s)
  <2> DEFINE p ==
              [port[s] EXCEPT !.TokenCount = 1, !.Poll_Station = s, !.RetryCount
              = 0, !.EventCount = FALSE, !.master_state = "PASS_TOKEN"]
  <2>1. /\ Runs(s, "DONE_WITH_TOKEN")
        /\ Send(s, p, "TOKEN", port[s].Next_Station)
    BY <1>4 DEF ResetMaintenancePFM, PassToken, Finished
  <2>2. p.SilenceTimer = Sil(s) /\ p.Received = Rcvd(s)
        /\ p.master_state = "PASS_TOKEN" /\ ~ p.EventCount
        /\ p.Next_Station = port[s].Next_Station
    BY <2>1, Runner DEF Port
  <2> HIDE DEF p
  <2>3. Free(s) /\ Rcvd(s) = Nothing /\ port[s].Next_Station \in Address
    BY <2>1, Runner, UserHolds, HolderIsFree, SuccType DEF NothingKept, Port
  <2>4. QED
    BY <2>1, <2>2, <2>3, Runner, TalkStep, Times
<1>5. CASE SendMaintenancePFM(s)
  <2> DEFINE p ==
              [port[s] EXCEPT !.Poll_Station = Succ(@), !.RetryCount = 0,
              !.master_state = "POLL_FOR_MASTER"]
  <2>1. /\ Runs(s, "DONE_WITH_TOKEN")
        /\ Send(s, p, "POLL_FOR_MASTER", Succ(port[s].Poll_Station))
    BY <1>5 DEF SendMaintenancePFM, Finished
  <2>2. p.SilenceTimer = Sil(s) /\ p.Received = Rcvd(s)
        /\ p.master_state = "POLL_FOR_MASTER"
        /\ p.Poll_Station = Succ(port[s].Poll_Station)
    BY <2>1, Runner DEF Port
  <2> HIDE DEF p
  <2>3. Free(s) /\ Rcvd(s) = Nothing /\ Succ(port[s].Poll_Station) \in Address
    BY <2>1, Runner, UserHolds, HolderIsFree, SuccType DEF NothingKept, Port
  <2>4. QED
    BY <2>1, <2>2, <2>3, Runner, TalkStep, Times
<1>6. QED
  BY <1>1, <1>2, <1>3, <1>4, <1>5

LEMMA LostTokenKeepsOrder ==
  ASSUME Inv, Orderly, NEW s \in Station,
         RetrySendToken(s) \/ FindNewSuccessor(s) \/
           GenerateToken(s)
  PROVE  Orderly'
<1>1. CASE RetrySendToken(s)
  <2> DEFINE p ==
              [port[s] EXCEPT !.RetryCount = @ + 1, !.EventCount = FALSE]
  <2>1. /\ Runs(s, "PASS_TOKEN")
        /\ Send(s, p, "TOKEN", port[s].Next_Station)
    BY <1>1 DEF RetrySendToken
  <2>2. p.SilenceTimer = Sil(s) /\ p.Received = Rcvd(s)
        /\ p.master_state = "PASS_TOKEN" /\ ~ p.EventCount
        /\ p.Next_Station = port[s].Next_Station
    BY <2>1, Runner DEF Port
  <2> HIDE DEF p
  <2>3. Free(s) /\ Rcvd(s) = Nothing /\ port[s].Next_Station \in Address
    BY <1>1, <2>1, Runner, PasserIsFree, SuccType DEF RetrySendToken, Port
  <2>4. QED
    BY <2>1, <2>2, <2>3, Runner, TalkStep, Times
<1>2. CASE FindNewSuccessor(s)
  <2> DEFINE p ==
              [port[s] EXCEPT !.Poll_Station = Succ(port[s].Next_Station),
              !.Next_Station = s, !.RetryCount = 0, !.TokenCount = 0,
              !.master_state = "POLL_FOR_MASTER"]
  <2>1. /\ Runs(s, "PASS_TOKEN")
        /\ Send(s, p, "POLL_FOR_MASTER", Succ(port[s].Next_Station))
    BY <1>2 DEF FindNewSuccessor, FindSuccessor
  <2>2. p.SilenceTimer = Sil(s) /\ p.Received = Rcvd(s)
        /\ p.master_state = "POLL_FOR_MASTER"
        /\ p.Poll_Station = Succ(port[s].Next_Station)
    BY <2>1, Runner DEF Port
  <2> HIDE DEF p
  <2>3. Free(s) /\ Rcvd(s) = Nothing /\ Succ(port[s].Next_Station) \in Address
    BY <1>2, <2>1, Runner, PasserIsFree, SuccType DEF FindNewSuccessor, Port
  <2>4. QED
    BY <2>1, <2>2, <2>3, Runner, TalkStep, Times
<1>3. CASE GenerateToken(s)
  <2> DEFINE p ==
              [port[s] EXCEPT !.Poll_Station = Succ(s), !.Next_Station = s,
              !.RetryCount = 0, !.TokenCount = 0, !.master_state =
              "POLL_FOR_MASTER"]
  <2>1. /\ Runs(s, "NO_TOKEN")
        /\ Send(s, p, "POLL_FOR_MASTER", Succ(s))
    BY <1>3 DEF GenerateToken
  <2>2. p.SilenceTimer = Sil(s) /\ p.Received = Rcvd(s)
        /\ p.master_state = "POLL_FOR_MASTER"
        /\ p.Poll_Station = Succ(s)
    BY <2>1, Runner DEF Port
  <2> HIDE DEF p
  <2>3. Free(s) /\ Rcvd(s) = Nothing /\ Succ(s) \in Address
    BY <1>3, <2>1, Runner, GeneratorIsFree, SuccType DEF GenerateToken, HasSlot
  <2>4. QED
    BY <2>1, <2>2, <2>3, Runner, TalkStep, Times
<1>4. QED
  BY <1>1, <1>2, <1>3

LEMMA PollKeepsOrder ==
  ASSUME Inv, Orderly, NEW s \in Station,
         ReceivedReplyToPFM(s) \/ DoneWithPFM(s) \/
           SendNextPFM(s)
  PROVE  Orderly'
<1>1. CASE ReceivedReplyToPFM(s)
  <2> DEFINE p ==
              [port[s] EXCEPT !.SoleMaster = FALSE, !.Next_Station =
              port[s].Received.frame.src, !.EventCount = FALSE, !.Poll_Station =
              s, !.TokenCount = 0, !.RetryCount = 0, !.Received = Nothing,
              !.master_state = "PASS_TOKEN"]
  <2>1. /\ Runs(s, "POLL_FOR_MASTER")
        /\ Send(s, p, "TOKEN", port[s].Received.frame.src)
    BY <1>1 DEF ReceivedReplyToPFM
  <2>2. p.SilenceTimer = Sil(s) /\ p.Received = Nothing
        /\ p.master_state = "PASS_TOKEN" /\ ~ p.EventCount
        /\ p.Next_Station = port[s].Received.frame.src
    BY <2>1, Runner DEF Port
  <2> HIDE DEF p
  <2>3. Rcvd(s) # Nothing /\ port[s].Received.frame.src \in Address
    BY <1>1, <2>1, Runner, ReceivedFrame DEF ReceivedReplyToPFM, Nothing
  <2>4. Free(s)
    BY <2>1, <2>3, Runner, WaiterHolds, HolderIsFree
  <2>5. QED
    BY <2>1, <2>2, <2>3, <2>4, Runner, TalkStep, Times
<1>2. CASE DoneWithPFM(s)
  <2> DEFINE p ==
              [port[s] EXCEPT !.EventCount = FALSE, !.RetryCount = 0, !.Received
              = Nothing, !.master_state = "PASS_TOKEN"]
  <2>1. /\ Runs(s, "POLL_FOR_MASTER")
        /\ Send(s, p, "TOKEN", port[s].Next_Station)
    BY <1>2 DEF DoneWithPFM, PollFailed
  <2>2. p.SilenceTimer = Sil(s) /\ p.Received = Nothing
        /\ p.master_state = "PASS_TOKEN" /\ ~ p.EventCount
        /\ p.Next_Station = port[s].Next_Station
    BY <2>1, Runner DEF Port
  <2> HIDE DEF p
  <2>3. Free(s) /\ port[s].Next_Station \in Address
    BY <1>2, PollFailedHolds, HolderIsFree, PortOf, SuccType
    DEF DoneWithPFM, Holding, UsesToken, Port
  <2>4. QED
    BY <2>1, <2>2, <2>3, Runner, TalkStep, Times
<1>3. CASE SendNextPFM(s)
  <2> DEFINE p ==
              [port[s] EXCEPT !.Poll_Station = Succ(@), !.RetryCount = 0,
              !.Received = Nothing]
  <2>1. /\ Runs(s, "POLL_FOR_MASTER")
        /\ Send(s, p, "POLL_FOR_MASTER", Succ(port[s].Poll_Station))
    BY <1>3 DEF SendNextPFM, PollFailed
  <2>2. p.SilenceTimer = Sil(s) /\ p.Received = Nothing
        /\ p.master_state = "POLL_FOR_MASTER"
        /\ p.Poll_Station = Succ(port[s].Poll_Station)
    BY <2>1, Runner DEF Port
  <2> HIDE DEF p
  <2>3. Free(s) /\ Succ(port[s].Poll_Station) \in Address
    BY <1>3, PollFailedHolds, HolderIsFree, PortOf, SuccType
    DEF SendNextPFM, Holding, UsesToken, Port
  <2>4. QED
    BY <2>1, <2>2, <2>3, Runner, TalkStep, Times
<1>4. QED
  BY <1>1, <1>2, <1>3

LEMMA SendInfoFrameKeepsOrder ==
  ASSUME Inv, Orderly, NEW s \in Station, NEW d \in Data,
         SendInfoFrame(s, d[1], d[3])
  PROVE  Orderly'
<1> DEFINE st == IF d[1] = "DATA_EXPECTING_REPLY" THEN "WAIT_FOR_REPLY"
                                                 ELSE "DONE_WITH_TOKEN"
           p == [port[s] EXCEPT !.FrameCount = @ + 1, !.master_state = st]
<1>1. Runs(s, "USE_TOKEN") /\ Send(s, p, d[1], d[3])
  BY DEF SendInfoFrame
<1>2. p.SilenceTimer = Sil(s) /\ p.Received = Rcvd(s)
      /\ p.master_state = st
  BY <1>1, Runner DEF Port
<1>3. Free(s) /\ Rcvd(s) = Nothing
  BY <1>1, Runner, UserHolds, HolderIsFree DEF NothingKept
<1>4. \/ d[1] = "DATA_NOT_EXPECTING_REPLY"
      \/ d[1] = "DATA_EXPECTING_REPLY" /\ d[3] \in Address
  BY MstpAssumption, Constants
<1> HIDE DEF p
<1>5. QED
  BY <1>1, <1>2, <1>3, <1>4, Runner, TalkStep, Times

LEMMA StepKeepsOrder ==
  ASSUME Inv, Orderly, NEW s \in Station, Step(s)
  PROVE  Orderly'
<1>1. ~ Read(s)
  BY DEF Read, CanRead, Orderly, NothingWaits
<1>2. QED
  BY <1>1, ListeningKeepsOrder, UsingKeepsOrder, WaitingKeepsOrder,
     AnswersKeepOrder, DoneWithTokenKeepsOrder, LostTokenKeepsOrder,
     PollKeepsOrder, SendInfoFrameKeepsOrder
  DEF Step, MustAct
-----------------------------------------------------------------------------
(* Stations are switched off and on.                                       *)

LEMMA InitOrderly == Init => Orderly
<1> SUFFICES ASSUME Init PROVE Orderly
  OBVIOUS
<1>1. on \subseteq Station /\ busy = {}
  BY DEF Init
<1>2. NothingWaits
  BY <1>1 DEF Init, NothingWaits
<1>3. ASSUME NEW s \in on
      PROVE  /\ State(s) = "INITIALIZE" /\ Sil(s) = 0 /\ Rcvd(s) = Nothing
             /\ ~ Talking(s)
  BY <1>1 DEF Init, MSTP_Init, State, Sil, Rcvd, Talking
<1>4. Nothing.flag = "None" /\ Nothing.frame.type = "NONE"
  BY DEF Nothing, NoFrame
<1>5. ASSUME NEW s \in on
      PROVE  ~ Holding(s) /\ ~ Passing(s) /\ ~ Owes(s)
  BY <1>3, <1>4 DEF Holding, UsesToken, State, IsToken, Passing, Owes
<1>6. ASSUME NEW s \in on
      PROVE  Alone(s)
  <2>1. NothingKept(s) /\ Noticed(s) /\ Sends(s) /\ Answers(s) /\ Expects(s)
    BY <1>3 DEF NothingKept, Noticed, Sends, Answers, Expects
  <2>2. InTime(s)
    BY <1>1, <1>3, <1>5, TurnType DEF InTime, Bearer
  <2>3. Fresh(s) /\ Eldest(s)
    BY <1>3, <1>5 DEF Fresh, Eldest, Bearer
  <2>4. QED
    BY <2>1, <2>2, <2>3 DEF Alone
<1>7. ASSUME NEW s \in on, NEW t \in on
      PROVE  Together(s, t)
  BY <1>3, <1>5 DEF Together, OneSpeaks, OneHolds, OnePasses
<1>8. Agree
  BY <1>3 DEF Agree
<1>9. QED
  BY <1>2, <1>6, <1>7, <1>8 DEF Orderly

LEMMA PowerOffKeepsOrder ==
  ASSUME Inv, Orderly, NEW s \in Station, PowerOff(s), clean'
  PROVE  Orderly'
<1>1. /\ port \in [Station -> Port] /\ on \subseteq Station
      /\ air \in [Station -> Frame \cup {NoFrame}]
      /\ uart \in [Station -> Seq(Reception)]
  BY DEF Inv, TypeOK
<1>2. on' = on \ {s} /\ \A t \in on' : t \in on /\ t \in Station
  BY <1>1 DEF PowerOff
<1>3. \A t \in on' : port'[t] = port[t] /\ air'[t] = air[t]
  BY <1>1, <1>2 DEF PowerOff
<1>4. \A t \in on' : Sil(t)' = Sil(t)
  BY <1>3 DEF Sil
<1>5. Agree'
  BY <1>2, <1>4 DEF PowerOff, Agree, Sil
<1>6. NobodyAges
  BY <1>2, <1>4 DEF NobodyAges, AllHeard
<1>7. NothingWaits'
  BY <1>1 DEF PowerOff, NothingWaits, Orderly
<1>8. \A t \in on' : Alone(t)'
  BY <1>2, <1>3, <1>6, AloneKept DEF Orderly
<1>9. \A t, u \in on' : t # u => Together(t, u)'
  BY <1>2, <1>3, <1>6, TogetherKept DEF Orderly
<1>10. QED
  BY <1>5, <1>7, <1>8, <1>9 DEF Orderly

(* A token that exists is with someone, unless its use has just been heard.*)
LEMMA SomebodyHasIt ==
  ASSUME Inv, Orderly, TokenExists
  PROVE  (\E s \in on : Bearer(s)) \/ AllHeard
<1>1. CASE TokenHolder # {}
  <2>1. PICK s \in Station : UsesToken(s)
    BY <1>1 DEF TokenHolder
  <2>2. QED
    BY <2>1 DEF UsesToken, Bearer, Holding
<1>2. CASE TokenInAir # {}
  <2>1. PICK s \in Station : air[s].type = "TOKEN"
    BY <1>2 DEF TokenInAir
  <2>2. Talking(s)
    BY <2>1 DEF Talking, NoFrame
  <2>3. s \in on /\ Alone(s)
    BY <2>2 DEF Talking, Orderly, NothingWaits
  <2>4. Passing(s)
    BY <2>1, <2>2, <2>3 DEF Alone, Sends, SentIn
  <2>5. QED
    BY <2>3, <2>4 DEF Bearer
<1>3. CASE TokenArrived # {}
  BY <1>3 DEF TokenArrived, Bearer, Holding, Rcvd
<1>4. CASE \E s \in on : port[s].master_state = "PASS_TOKEN"
  <2>1. PICK s \in on : State(s) = "PASS_TOKEN"
    BY <1>4 DEF State
  <2>2. Passing(s) \/ AllHeard
    BY <2>1 DEF Orderly, Alone, Fresh, Passing
  <2>3. QED
    BY <2>2 DEF Bearer
<1>5. QED
  BY <1>1, <1>2, <1>3, <1>4 DEF TokenExists

LEMMA PowerOnKeepsOrder ==
  ASSUME Inv, Orderly, NEW s \in Station, PowerOn(s), clean'
  PROVE  Orderly'
<1>1. /\ port \in [Station -> Port] /\ on \subseteq Station
      /\ s \notin on /\ on' = on \cup {s} /\ air' = air
  BY DEF Inv, TypeOK, PowerOn
<1>2. \A t \in on : t \in on' /\ port'[t] = port[t] /\ air'[t] = air[t]
  BY <1>1 DEF PowerOn
<1>3. /\ State(s)' = "INITIALIZE" /\ Sil(s)' = 0 /\ Rcvd(s)' = Nothing
      /\ ~ Talking(s)'
  BY <1>1
  DEF PowerOn, MSTP_Init, State, Sil, Rcvd, Talking, Orderly, NothingWaits
<1>4. ~ Holding(s)' /\ ~ Passing(s)' /\ ~ Owes(s)' /\ ~ Bearer(s)'
  BY <1>3 DEF Holding, UsesToken, State, IsToken, Passing, Owes, Nothing,
              Bearer
<1>5. \A t \in on : Sil(t)' = Sil(t)
  BY <1>2 DEF Sil
<1>6. NobodyAges /\ (AllHeard => AllHeard')
  <2>1. \A v \in on' : Sil(v)' = 0 \/ (v \in on /\ Sil(v)' = Sil(v))
    BY <1>1, <1>3, <1>5
  <2>2. QED
    BY <2>1 DEF NobodyAges, AllHeard
<1>7. NothingWaits'
  BY <1>1 DEF PowerOn, NothingWaits, Orderly
<1>8. \A t \in on : Alone(t)'
  BY <1>2, <1>6, AloneKept DEF Orderly
<1>9. \A t, u \in on : t # u => Together(t, u)'
  BY <1>2, <1>6, TogetherKept DEF Orderly
<1>10. Alone(s)'
  <2>1. NothingKept(s)' /\ Noticed(s)' /\ Sends(s)' /\ Answers(s)'
        /\ Expects(s)'
    BY <1>3 DEF NothingKept, Noticed, Sends, Answers, Expects
  <2>2. InTime(s)'
    BY <1>3, <1>4, TurnType DEF InTime, SlotBegin
  <2>3. Fresh(s)' /\ Eldest(s)'
    BY <1>3, <1>4 DEF Fresh, Eldest
  <2>4. QED
    BY <2>1, <2>2, <2>3 DEF Alone
<1>11. ASSUME NEW t \in on
       PROVE  Together(s, t)' /\ Together(t, s)'
  <2>1. Sil(s)' < SlotBegin(s)
    BY <1>3, TurnType, Times
  <2>2. OneSpeaks(s, t)' /\ OneSpeaks(t, s)'
    BY <1>3, <1>4, <2>1 DEF OneSpeaks, SlotBegin
  <2>3. OneHolds(s, t)' /\ OneHolds(t, s)'
    BY <1>3, <1>4 DEF OneHolds
  <2>4. OnePasses(s, t)' /\ OnePasses(t, s)'
    BY <1>3, <1>4 DEF OnePasses
  <2>5. QED
    BY <2>2, <2>3, <2>4 DEF Together
<1>12. (\E t \in on' : Bearer(t)') \/ Agree'
  <2>1. TokenExists
    BY DEF PowerOn
  <2>2. CASE AllHeard
    BY <1>6, <2>2 DEF AllHeard, Agree
  <2>3. CASE \E t \in on : Bearer(t)
    BY <1>2, <2>3, RolesKept
  <2>4. QED
    BY <2>1, <2>2, <2>3, SomebodyHasIt
<1>13. (\A t \in on' : Alone(t)')
       /\ \A t, u \in on' : t # u => Together(t, u)'
  BY <1>1, <1>8, <1>9, <1>10, <1>11
<1>14. QED
  BY <1>7, <1>12, <1>13 DEF Orderly
-----------------------------------------------------------------------------
(* Time passes.                                                            *)

(* What a station that is on and silent is doing when time passes.         *)
LEMMA Settled ==
  ASSUME Inv, Orderly, NobodyIsDue, NEW t \in on, ~ Talking(t)
  PROVE  /\ State(t) \in {"IDLE", "WAIT_FOR_REPLY", "POLL_FOR_MASTER",
                          "ANSWER_DATA_REQUEST", "PASS_TOKEN", "NO_TOKEN"}
         /\ State(t) = "IDLE" => Sil(t) < Tno_token
         /\ State(t) = "WAIT_FOR_REPLY" => Sil(t) < Treply_timeout
         /\ State(t) = "POLL_FOR_MASTER" => Sil(t) <= Tusage_timeout
         /\ State(t) = "PASS_TOKEN" => Sil(t) <= Tusage_timeout /\ Passing(t)
         /\ State(t) = "ANSWER_DATA_REQUEST" => Sil(t) <= Treply_delay
         /\ State(t) = "NO_TOKEN" => ~ HasSlot(t)
         /\ Rcvd(t) # Nothing => State(t) = "ANSWER_DATA_REQUEST"
<1>1. t \in Station /\ Alone(t) /\ Sil(t) \in Nat /\ State(t) \in MasterState
  BY StationTypes DEF Inv, TypeOK, Orderly
<1>2. Awake(t) /\ ~ CanRead(t)
  BY <1>1 DEF Awake, CanRead, Talking, Orderly, NothingWaits
<1>3. ~ Due(t)
  BY <1>1 DEF NobodyIsDue, DueStation
<1>4. /\ State(t) \notin {"INITIALIZE", "USE_TOKEN", "DONE_WITH_TOKEN"}
      /\ State(t) \in {"IDLE", "WAIT_FOR_REPLY", "POLL_FOR_MASTER"}
           => Rcvd(t) = Nothing
      /\ State(t) = "IDLE" => ~ (Sil(t) >= Tno_token)
      /\ State(t) = "WAIT_FOR_REPLY" => ~ (Sil(t) >= Treply_timeout)
      /\ State(t) = "POLL_FOR_MASTER" => ~ (Sil(t) > Tusage_timeout)
      /\ State(t) = "ANSWER_DATA_REQUEST" => ~ (Sil(t) > Treply_delay)
      /\ State(t) = "PASS_TOKEN"
           => ~ port[t].EventCount /\ ~ (Sil(t) > Tusage_timeout)
      /\ State(t) = "NO_TOKEN" => ~ port[t].EventCount /\ ~ HasSlot(t)
  BY <1>2, <1>3 DEF Due, State, Sil, Rcvd, ReplyOverdue
<1>5. State(t) \in {"PASS_TOKEN", "NO_TOKEN"} => Rcvd(t) = Nothing
  BY <1>1, <1>4 DEF Alone, Noticed
<1>6. State(t) \in {"IDLE", "WAIT_FOR_REPLY", "POLL_FOR_MASTER",
                    "ANSWER_DATA_REQUEST", "PASS_TOKEN", "NO_TOKEN"}
  BY <1>1, <1>4 DEF MasterState
<1>7. QED
  BY <1>1, <1>4, <1>5, <1>6, Times DEF Passing

LEMMA SettledRoles ==
  ASSUME Inv, Orderly, NobodyIsDue, NEW t \in on, ~ Talking(t)
  PROVE  /\ Holding(t) <=> State(t) \in {"WAIT_FOR_REPLY", "POLL_FOR_MASTER"}
         /\ Owes(t) <=> State(t) = "ANSWER_DATA_REQUEST"
         /\ Passing(t) <=> State(t) = "PASS_TOKEN"
         /\ Owes(t) => Rcvd(t).frame.type = "DATA_EXPECTING_REPLY"
         /\ ~ Engaged(t)
<1>1. Nothing.flag = "None"
  BY DEF Nothing
<1>2. State(t) = "ANSWER_DATA_REQUEST"
        => Rcvd(t).flag = "Valid"
           /\ Rcvd(t).frame.type = "DATA_EXPECTING_REPLY"
  BY DEF Orderly, Alone, Answers
<1>3. ~ IsToken(Rcvd(t))
  BY <1>1, <1>2, Settled DEF IsToken
<1>4. QED
  BY <1>1, <1>2, <1>3, Settled
  DEF Holding, UsesToken, State, Owes, Demand, Passing, Engaged

(* Nobody lets its turn come and go.                                       *)
LEMMA SettledInTime ==
  ASSUME Inv, Orderly, NobodyIsDue, NEW t \in on, ~ Talking(t)
  PROVE  /\ Sil(t) + 1 <= SlotBegin(t) /\ Sil(t) < MaxSilence
         /\ Bearer(t) => Sil(t) + 1 < Tno_token
<1>1. t \in Station /\ Sil(t) \in Nat /\ SlotBegin(t) \in Nat
      /\ Tno_token <= SlotBegin(t) /\ SlotBegin(t) < MaxSilence
      /\ MaxSilence \in Int /\ t \in Nat
  BY StationTypes, TurnType, Numbers, Times DEF Inv, TypeOK
<1>2. State(t) # "NO_TOKEN" => Sil(t) < Tno_token
  BY <1>1, Settled, Times
<1>3. State(t) = "NO_TOKEN" => Sil(t) < SlotBegin(t)
  <2>1. Tslot * (t + 1) = Tslot * t + Tslot /\ Tslot * t \in Nat
    BY <1>1, Times
  <2>2. SlotBegin(t) < SlotEnd(t)
    BY <2>1, Times DEF SlotBegin, SlotEnd
  <2>3. Sil(t) <= SlotBegin(t)
    BY DEF Orderly, Alone, InTime
  <2>4. Sil(t) = SlotBegin(t) => HasSlot(t)
    BY <1>1, <2>2 DEF HasSlot, Sil
  <2>5. QED
    BY <1>1, <2>3, <2>4, Settled
<1>4. Bearer(t) => State(t) \in {"WAIT_FOR_REPLY", "POLL_FOR_MASTER",
                                 "PASS_TOKEN"}
  BY SettledRoles DEF Bearer
<1>5. QED
  BY <1>1, <1>2, <1>3, <1>4, Settled, Times

LEMMA SilenceKeepsOrder ==
  ASSUME Inv, Orderly, Silence
  PROVE  Orderly'
<1>1. NobodyIsDue /\ \A t \in Station : ~ Talking(t)
  BY DEF Silence, TimePasses, Talker, Talking
<1>2. on \subseteq Station /\ uart \in [Station -> Seq(Reception)]
  BY DEF Inv, TypeOK
<1>3. /\ port' = [t \in Station |-> Quieter(port[t])] /\ uart' = uart
      /\ air' = [t \in Station |-> NoFrame] /\ on' = on /\ busy' = busy
  <2> DEFINE heard == [t \in Station |-> Nothing]
  <2>1. Arrive(heard) /\ Talker = {} /\ \A t \in Station : heard[t] = Nothing
    BY DEF Silence
  <2>2. QED
    BY <1>2, <2>1 DEF Arrive
<1>4. NothingWaits'
  BY <1>2, <1>3 DEF NothingWaits, Orderly
<1>5. \A t \in on : ~ Talking(t)
  BY <1>1, <1>2
<1>6. ASSUME NEW t \in on
      PROVE  /\ State(t)' = State(t) /\ Rcvd(t)' = Rcvd(t)
             /\ port'[t].EventCount = port[t].EventCount
             /\ Sil(t)' = Sil(t) + 1 /\ ~ Talking(t)'
             /\ Sil(t) \in Nat
             /\ Polls(t)' = Polls(t) /\ Polled(t)' = Polled(t)
  <2>1. t \in Station /\ port[t] \in Port /\ Sil(t) \in Nat
        /\ Sil(t) < MaxSilence
    BY <1>1, <1>2, <1>5, StationTypes, SettledInTime
  <2>2. port'[t] = [port[t] EXCEPT !.SilenceTimer = Sil(t) + 1]
    BY <1>3, <2>1 DEF Quieter, Sil
  <2>3. QED
    BY <1>3, <2>1, <2>2 DEF State, Rcvd, Sil, Talking, Port, Polls, Polled
<1>7. ASSUME NEW t \in on
      PROVE  /\ Holding(t)' = Holding(t) /\ Passing(t)' = Passing(t)
             /\ Owes(t)' = Owes(t) /\ Bearer(t)' = Bearer(t)
  <2>1. Passing(t)' = Passing(t) /\ Owes(t)' = Owes(t)
    BY <1>3, <1>6 DEF Passing, Owes
  <2>2. Holding(t)' = Holding(t)
    BY <1>3, <1>6 DEF Holding, UsesToken, State
  <2>3. QED
    BY <2>1, <2>2 DEF Bearer
<1>8. (\E t \in on : Bearer(t)') \/ Agree'
  BY <1>3, <1>6, <1>7 DEF Agree, Orderly
<1>9. ASSUME NEW t \in on
      PROVE  Alone(t)'
  <2>1. Alone(t)
    BY DEF Orderly
  <2>2. NothingKept(t)' /\ Noticed(t)' /\ Sends(t)' /\ Expects(t)'
    BY <1>6, <2>1 DEF Alone, NothingKept, Noticed, Sends, Expects, AnswerTo,
                      IsReply, IsReplyToPFM
  <2>3. Answers(t)'
    BY <1>1, <1>5, <1>6, <2>1, Settled, Times DEF Alone, Answers
  <2>4. InTime(t)'
    BY <1>1, <1>5, <1>6, <1>7, SettledInTime DEF InTime, SlotBegin
  <2>5. Fresh(t)'
    BY <1>1, <1>5, <1>6, Settled DEF Fresh, Passing
  <2>6. Eldest(t)'
    BY <1>3, <1>6, <1>7, <2>1 DEF Alone, Eldest
  <2>7. QED
    BY <2>2, <2>3, <2>4, <2>5, <2>6 DEF Alone
<1>10. ASSUME NEW s \in on, NEW t \in on, s # t
       PROVE  Together(s, t)'
  <2>1. Together(s, t) /\ Alone(t)
    BY <1>10 DEF Orderly
  <2>2. OneSpeaks(s, t)'
    BY <1>6, <1>7, <2>1 DEF Together, OneSpeaks
  <2>3. OneHolds(s, t)'
    <3>1. CASE Holding(s) /\ Owes(t)
      <4>1. /\ Patient(s) /\ Rcvd(t).frame.type = "DATA_EXPECTING_REPLY"
            /\ QuestionOf(s, Rcvd(t).frame)
        BY <1>1, <1>5, <2>1, <3>1, SettledRoles DEF Together, OneHolds
      <4>2. State(s) = "WAIT_FOR_REPLY" /\ Rcvd(s) = Nothing
        BY <4>1 DEF Patient, QuestionOf, Polls
      <4>3. Sil(s) <= Sil(t) /\ Sil(t) <= Treply_delay
        BY <1>1, <1>5, <2>1, <3>1, Settled, SettledRoles DEF Alone, Eldest
      <4>4. Sil(s) + 1 <= Treply_delay + 1
        BY <1>6, <4>3, Times
      <4>5. Patient(s)' /\ State(s)' # "POLL_FOR_MASTER"
        BY <1>6, <4>2, <4>4 DEF Patient
      <4>6. QED
        BY <1>6, <1>7, <2>1, <4>1, <4>5
        DEF Together, OneHolds, Polls, QuestionOf
    <3>2. CASE ~ (Holding(s) /\ Owes(t))
      BY <1>6, <1>7, <2>1, <3>2 DEF Together, OneHolds
    <3>3. QED
      BY <3>1, <3>2
  <2>4. OnePasses(s, t)'
    <3>1. ~ (Passing(s) /\ Passing(t)) /\ ~ (Passing(s) /\ Holding(t))
      BY <1>1, <1>5, <2>1, SettledRoles DEF Together, OnePasses
    <3>2. QED
      BY <1>6, <1>7, <2>1, <3>1 DEF Together, OnePasses
  <2>5. QED
    BY <2>2, <2>3, <2>4 DEF Together
<1>11. QED
  BY <1>3, <1>4, <1>8, <1>9, <1>10 DEF Orderly
(* The frame s sends reaches every other station that is on.               *)
LEMMA Reached ==
  ASSUME Inv, Orderly, NobodyIsDue, NEW s \in Station, Talker = {s},
         Arrive(Heard([t \in Station |-> AsReceived(air[s], t)]))
  PROVE  /\ s \in on /\ Talking(s) /\ on' = on /\ NothingWaits'
         /\ \A t \in on : Sil(t)' = 0 /\ ~ Talking(t)'
         /\ port'[s] = [port[s] EXCEPT !.SilenceTimer = 0]
         /\ \A t \in on \ {s} :
              /\ ~ Talking(t) /\ Rcvd(t) = Nothing
              /\ State(t) # "ANSWER_DATA_REQUEST"
              /\ port'[t] = HasRead(port[t], AsReceived(air[s], t))
<1> DEFINE all == [t \in Station |-> AsReceived(air[s], t)]
           heard == Heard(all)
<1>1. on \subseteq Station /\ uart \in [Station -> Seq(Reception)]
      /\ port \in [Station -> Port] /\ busy = {}
      /\ \A t \in Station : uart[t] = <<>>
  BY DEF Inv, TypeOK, Orderly, NothingWaits
<1>2. Talking(s) /\ \A t \in Station \ {s} : ~ Talking(t)
  BY DEF Talker, Talking
<1>3. s \in on
  BY <1>2 DEF Talking, Orderly, NothingWaits
<1>4. ASSUME NEW t \in on \ {s}
      PROVE  /\ ~ Talking(t) /\ Rcvd(t) = Nothing
             /\ State(t) # "ANSWER_DATA_REQUEST"
  <2>1. ~ Talking(t) /\ t \in on
    BY <1>1, <1>2
  <2>2. ~ Owes(t)
    BY <1>2, <1>3 DEF Orderly, Together, OneSpeaks
  <2>3. QED
    BY <2>1, <2>2, SettledRoles, Settled
<1>5. \A t \in Station : heard[t] = IF t \in on \ {s} THEN AsReceived(air[s], t)
                                                      ELSE Nothing
  BY DEF Heard, Listener
<1>6. \A t \in Station : AsReceived(air[s], t) # Nothing
  BY DEF AsReceived, Nothing
<1>7. \A t \in on \ {s} : ReadsAtOnce(t) /\ t \in Station
  BY <1>1, <1>4 DEF ReadsAtOnce, Rcvd
<1>8. Arrive(heard)
  OBVIOUS
<1> HIDE DEF heard
<1>9. /\ port' = [t \in Station |->
                    IF t \in Talker THEN [port[t] EXCEPT !.SilenceTimer = 0]
                    ELSE IF heard[t] # Nothing /\ ReadsAtOnce(t)
                      THEN HasRead(port[t], heard[t])
                    ELSE Quieter(port[t])]
      /\ uart' = [t \in Station |->
                    IF heard[t] # Nothing /\ ~ ReadsAtOnce(t)
                      THEN Append(uart[t], heard[t])
                      ELSE uart[t]]
      /\ air' = [t \in Station |-> NoFrame]
      /\ on' = on /\ busy' = busy
  BY <1>8 DEF Arrive
<1>10. port'[s] = [port[s] EXCEPT !.SilenceTimer = 0]
  BY <1>9
<1>11. ASSUME NEW t \in on \ {s}
       PROVE  port'[t] = HasRead(port[t], AsReceived(air[s], t))
  BY <1>5, <1>6, <1>7, <1>9
<1>12. ASSUME NEW t \in on
       PROVE  Sil(t)' = 0 /\ ~ Talking(t)'
  <2>1. t \in Station /\ port[t] \in Port
    BY <1>1
  <2>2. CASE t = s
    BY <1>9, <1>10, <2>1, <2>2 DEF Sil, Talking, Port
  <2>3. CASE t # s
    BY <1>9, <1>11, <2>1, <2>3 DEF Sil, Talking, Port, HasRead
  <2>4. QED
    BY <2>2, <2>3
<1>13. NothingWaits'
  <2>1. \A t \in Station : uart'[t] = <<>>
    BY <1>1, <1>5, <1>7, <1>9
  <2>2. QED
    BY <1>1, <1>9, <2>1 DEF NothingWaits
<1>14. QED
  BY <1>2, <1>3, <1>4, <1>9, <1>10, <1>11, <1>12, <1>13
(* The roles of who sends a frame, and of the others.                      *)
LEMMA SenderRoles ==
  ASSUME Inv, Orderly, NEW s \in on, Talking(s)
  PROVE  /\ Rcvd(s) = Nothing /\ State(s) # "ANSWER_DATA_REQUEST"
         /\ air[s].type \in {"TOKEN"} \cup Demand => air[s].dst # Broadcast
         /\ air[s].type = "TOKEN"
              => Passing(s) /\ \A t \in on : ~ Holding(t)
         /\ air[s].type # "TOKEN" => ~ Passing(s)
         /\ air[s].type \in Demand
              => /\ State(s) \in {"POLL_FOR_MASTER", "WAIT_FOR_REPLY"}
                 /\ QuestionOf(s, air[s])
                 /\ Polls(s) => air[s].dst = Polled(s)
                 /\ \A t \in on \ {s} : ~ Holding(t)
         /\ \A t \in on \ {s} : Holding(t) =>
              AnswerTo(t, air[s]) /\ (Polls(t) => s = Polled(t))
         /\ air[s].src = s
         /\ air[s].type = "TOKEN" => air[s].dst = port[s].Next_Station
<1>1. s \in Station /\ Alone(s) /\ air[s] \in Frame
  BY StationTypes DEF Inv, TypeOK, Orderly, Talking
<1>2. /\ Rcvd(s) = Nothing /\ SentIn(s, air[s].type)
      /\ air[s].type \in {"TOKEN"} \cup Demand => air[s].dst # Broadcast
      /\ air[s].src = s
      /\ air[s].type = "TOKEN" => air[s].dst = port[s].Next_Station
  BY <1>1 DEF Alone, Sends
<1>3. Rcvd(s).flag # "Valid"
  BY <1>2 DEF Nothing
<1>4. State(s) # "ANSWER_DATA_REQUEST"
  BY <1>1, <1>3 DEF Alone, Answers
<1>5. ASSUME air[s].type = "TOKEN"
      PROVE  Passing(s) /\ \A t \in on : ~ Holding(t)
  <2>1. Passing(s)
    BY <1>2, <1>5 DEF SentIn
  <2>2. ~ Holding(s)
    BY <1>3, <2>1 DEF Passing, Holding, UsesToken, State, IsToken
  <2>3. QED
    BY <2>1, <2>2 DEF Orderly, Together, OnePasses
<1>6. air[s].type # "TOKEN" => ~ Passing(s)
  BY <1>1, <1>2 DEF SentIn, Passing, State
<1>7. ASSUME air[s].type \in Demand
      PROVE  /\ State(s) \in {"POLL_FOR_MASTER", "WAIT_FOR_REPLY"}
             /\ QuestionOf(s, air[s])
             /\ Polls(s) => air[s].dst = Polled(s)
             /\ \A t \in on \ {s} : ~ Holding(t)
  <2>1. /\ State(s) \in {"POLL_FOR_MASTER", "WAIT_FOR_REPLY"}
        /\ QuestionOf(s, air[s])
        /\ Polls(s) => air[s].dst = Polled(s)
    BY <1>1, <1>2, <1>7
    DEF Alone, Sends, SentIn, Demand, QuestionOf, Polls
  <2>2. Holding(s)
    BY <2>1, WaiterHolds
  <2>3. QED
    BY <2>1, <2>2 DEF Orderly, Together, OneHolds
<1>8. \A t \in on \ {s} : Holding(t) =>
        AnswerTo(t, air[s]) /\ (Polls(t) => s = Polled(t))
  BY DEF Orderly, Together, OneHolds
<1>9. QED
  BY <1>2, <1>4, <1>5, <1>6, <1>7, <1>8

LEMMA DeliveryKeepsOrder ==
  ASSUME Inv, Orderly, Delivery
  PROVE  Orderly'
<1>1. PICK s \in Station :
        /\ Talker = {s}
        /\ Arrive(Heard([t \in Station |-> AsReceived(air[s], t)]))
  <2>1. Talker \subseteq Station
    BY DEF Talker
  <2>2. QED
    BY <2>1 DEF Delivery
<1>2. NobodyIsDue
  BY DEF Delivery, TimePasses
<1>3. /\ s \in on /\ Talking(s) /\ on' = on /\ NothingWaits'
      /\ \A t \in on : Sil(t)' = 0 /\ ~ Talking(t)'
      /\ port'[s] = [port[s] EXCEPT !.SilenceTimer = 0]
      /\ \A t \in on \ {s} :
           /\ ~ Talking(t) /\ Rcvd(t) = Nothing
           /\ State(t) # "ANSWER_DATA_REQUEST"
           /\ port'[t] = HasRead(port[t], AsReceived(air[s], t))
  BY <1>1, <1>2, Reached
<1> DEFINE f == air[s]
<1>4. /\ Rcvd(s) = Nothing /\ State(s) # "ANSWER_DATA_REQUEST"
      /\ f.type \in {"TOKEN"} \cup Demand => f.dst # Broadcast
      /\ f.type = "TOKEN" => Passing(s) /\ \A t \in on : ~ Holding(t)
      /\ f.type # "TOKEN" => ~ Passing(s)
      /\ f.type \in Demand
           => /\ State(s) \in {"POLL_FOR_MASTER", "WAIT_FOR_REPLY"}
              /\ QuestionOf(s, f) /\ (Polls(s) => f.dst = Polled(s))
              /\ \A t \in on \ {s} : ~ Holding(t)
      /\ \A t \in on \ {s} :
           Holding(t) => AnswerTo(t, f) /\ (Polls(t) => s = Polled(t))
      /\ f.src = s
  BY <1>3, SenderRoles
<1> HIDE DEF f
<1>5. on \subseteq Station /\ \A t \in on : port[t] \in Port
  BY DEF Inv, TypeOK
<1>6. /\ State(s)' = State(s) /\ Rcvd(s)' = Nothing
      /\ Passing(s)' = Passing(s) /\ Holding(s)' = Holding(s) /\ ~ Owes(s)'
      /\ Polls(s)' = Polls(s) /\ Polled(s)' = Polled(s)
  <2>1. port[s] \in Port
    BY <1>3, <1>5
  <2>2. /\ State(s)' = State(s) /\ Rcvd(s)' = Nothing
        /\ port'[s].EventCount = port[s].EventCount
        /\ Polls(s)' = Polls(s) /\ Polled(s)' = Polled(s)
    BY <1>3, <1>4, <2>1 DEF State, Rcvd, Port, Polls, Polled
  <2>3. QED
    BY <1>3, <1>4, <2>2
    DEF Passing, Holding, UsesToken, State, Owes, Nothing
<1>7. ASSUME NEW t \in on \ {s}
      PROVE  /\ State(t)' = State(t) /\ Rcvd(t)' = AsReceived(f, t)
             /\ port'[t].EventCount /\ ~ Passing(t)'
             /\ Holding(t)' => \/ Holding(t)
                               \/ f.type = "TOKEN" /\ f.dst = t
                                    /\ IsToken(Rcvd(t))'
             /\ Owes(t)' => /\ f.type \in Demand /\ f.dst = t
                            /\ Rcvd(t)'.frame = f
             /\ Polls(t)' = Polls(t) /\ Polled(t)' = Polled(t)
  <2>1. t \in on /\ port[t] \in Port
    BY <1>5
  <2>2. /\ State(t)' = State(t) /\ Rcvd(t)' = AsReceived(f, t)
        /\ port'[t].EventCount
        /\ Polls(t)' = Polls(t) /\ Polled(t)' = Polled(t)
    BY <1>3, <2>1 DEF HasRead, State, Rcvd, Port, Polls, Polled, f
  <2>3. Rcvd(t)'.flag = "Valid"
             => f.dst \in {t, Broadcast} /\ Rcvd(t)'.frame = f
    BY <2>2 DEF AsReceived, NoFrame
  <2>4. Holding(t)' => \/ Holding(t)
                       \/ f.type = "TOKEN" /\ f.dst = t
                            /\ IsToken(Rcvd(t))'
    BY <1>3, <1>4, <2>2, <2>3 DEF Holding, UsesToken, State, IsToken
  <2>5. Owes(t)' => f.type \in Demand /\ f.dst = t /\ Rcvd(t)'.frame = f
    BY <1>3, <1>4, <2>2, <2>3 DEF Owes
  <2>6. QED
    BY <2>2, <2>3, <2>4, <2>5 DEF Passing
<1>8. AllHeard' /\ Agree'
  BY <1>3 DEF AllHeard, Agree
<1>9. ASSUME NEW t \in on
      PROVE  Alone(t)'
  <2>1. t \in Station /\ Alone(t)
    BY <1>5 DEF Orderly
  <2>2. InTime(t)' /\ Fresh(t)' /\ Sends(t)'
    BY <1>3, <1>8, <2>1, TurnType, Times DEF InTime, Fresh, Sends, SlotBegin
  <2>3. Eldest(t)'
    BY <1>3 DEF Eldest
  <2>4. NothingKept(t)' /\ Noticed(t)' /\ Answers(t)' /\ Expects(t)'
    <3>1. CASE t = s
      BY <1>3, <1>4, <1>6, <3>1
      DEF NothingKept, Noticed, Answers, Expects, Demand, Nothing, NoFrame
    <3>2. CASE t # s
      <4>1. t \in on \ {s} /\ ~ Talking(t)
        BY <1>3, <3>2
      <4>2. NothingKept(t)' /\ Noticed(t)' /\ Answers(t)'
        BY <1>2, <1>3, <1>7, <4>1, Settled
        DEF NothingKept, Noticed, Answers
      <4>3. Expects(t)'
        <5>1. SUFFICES ASSUME State(t) \in {"WAIT_FOR_REPLY",
                                            "POLL_FOR_MASTER"}
                       PROVE  Expects(t)'
          BY <1>7, <4>1 DEF Expects
        <5>2. /\ AnswerTo(t, f) /\ f.src = s
              /\ Polls(t) => s = Polled(t) /\ Polled(t) # t
          BY <1>4, <4>1, <5>1, WaiterHolds
        <5>3. f.dst = t
          BY <5>2 DEF AnswerTo, IsReply, IsReplyToPFM
        <5>4. Rcvd(t)'.flag = "Valid" /\ Rcvd(t)'.frame = f
          BY <1>7, <4>1, <5>3 DEF AsReceived
        <5>5. IF Polls(t)'
                THEN IsReplyToPFM(f, t)
                ELSE IsReply(f, t) /\ f.type # "DATA_EXPECTING_REPLY"
          BY <1>7, <4>1, <5>2 DEF AnswerTo
        <5>6. AnswerTo(t, Rcvd(t).frame)'
          BY <5>4, <5>5 DEF AnswerTo, IsReply, IsReplyToPFM
        <5>7. QED
          BY <1>7, <4>1, <5>2, <5>4, <5>6 DEF Expects
      <4>4. QED
        BY <4>2, <4>3
    <3>3. QED
      BY <3>1, <3>2
  <2>5. QED
    BY <2>2, <2>3, <2>4 DEF Alone
<1>10. ASSUME NEW t \in on, NEW u \in on, t # u
       PROVE  Together(t, u)'
  <2>1. Together(t, u) /\ Together(u, t)
    BY <1>10 DEF Orderly
  <2>2. OneSpeaks(t, u)'
    BY <1>3, <1>6, <1>7, <1>10 DEF OneSpeaks
  <2>3. ~ (Holding(t)' /\ Holding(u)')
    BY <1>4, <1>6, <1>7, <1>10, <2>1 DEF Together, OneHolds
  <2>4. ASSUME Holding(t)', Owes(u)'
        PROVE  /\ Patient(t)' /\ QuestionOf(t, Rcvd(u).frame)'
               /\ Polls(t)' => u = Polled(t)'
    <3>1. u # s /\ f.type \in Demand /\ Rcvd(u)'.frame = f /\ f.dst = u
      BY <1>6, <1>7, <2>4
    <3>2. t = s
      BY <1>4, <1>7, <2>4, <3>1 DEF Demand
    <3>3. Patient(s)'
      BY <1>3, <1>4, <1>6, <3>1, Times DEF Patient
    <3>4. QuestionOf(s, f) /\ (Polls(s) => u = Polled(s))
      BY <1>4, <3>1
    <3>5. QED
      BY <1>6, <3>1, <3>2, <3>3, <3>4 DEF QuestionOf
  <2>5. OneHolds(t, u)'
    BY <1>3, <2>3, <2>4 DEF OneHolds
  <2>6. OnePasses(t, u)'
    <3>1. ASSUME Passing(t)'
          PROVE  t = s /\ f.type = "TOKEN"
      BY <1>4, <1>6, <1>7, <3>1
    <3>2. ~ (Passing(t)' /\ Owes(u)') /\ ~ (Passing(t)' /\ Passing(u)')
      BY <1>7, <1>10, <3>1 DEF Demand
    <3>3. Passing(t)' /\ Holding(u)' => Engaged(u)'
      BY <1>4, <1>7, <1>10, <3>1 DEF Engaged
    <3>4. QED
      BY <1>3, <1>8, <3>2, <3>3 DEF OnePasses
  <2>7. QED
    BY <2>2, <2>5, <2>6 DEF Together
<1>11. QED
  BY <1>3, <1>8, <1>9, <1>10 DEF Orderly
-----------------------------------------------------------------------------
(* The invariant, and what it means for the token and the line.            *)

LEMMA NextKeepsOrder ==
  ASSUME Inv, Inv', OrderlyWhileClean, [Next]_vars
  PROVE  OrderlyWhileClean'
<1> SUFFICES ASSUME clean' PROVE Orderly'
  BY DEF OrderlyWhileClean
<1>1. CASE UNCHANGED vars
  <2>1. clean /\ Orderly
    BY <1>1 DEF vars, OrderlyWhileClean
  <2>2. /\ on' = on /\ \A t \in on : port'[t] = port[t] /\ air'[t] = air[t]
        /\ NothingWaits'
    BY <1>1, <2>1 DEF vars, Orderly, NothingWaits
  <2>3. /\ \A t \in on : Sil(t)' = Sil(t)
        /\ \A t \in on : Bearer(t)' = Bearer(t)
    BY <2>2, RolesKept
  <2>4. NobodyAges /\ Agree' = Agree
    BY <2>2, <2>3 DEF NobodyAges, AllHeard, Agree
  <2>5. \A t \in on' : Alone(t)'
    BY <2>1, <2>2, <2>4, AloneKept DEF Orderly
  <2>6. \A t, u \in on' : t # u => Together(t, u)'
    BY <2>1, <2>2, <2>4, TogetherKept DEF Orderly
  <2>7. QED
    BY <2>1, <2>2, <2>3, <2>4, <2>5, <2>6 DEF Orderly
<1>2. ASSUME NEW s \in Station, Step(s)
      PROVE  Orderly'
  <2>1. clean' = clean
    BY <1>2
    DEF Step, MustAct, Become, Send, Read, DoneInitializing, ReceivedBad,
        ReceivedToken, ReceivedPFM, ReceivedNoReplyNeeded,
        ReceivedDataNeedingReply, LostToken, NothingToSend, SendInfoFrame,
        ReplyTimeout, InvalidReply, ReceivedReply, WaitUnexpectedFrame,
        SendAnotherFrame, PollNextStation, SoleMaster, SendToken, PassToken,
        SoleMasterRestartMaintenancePFM, FindSuccessor, ResetMaintenancePFM,
        SendMaintenancePFM, SawTokenUser, RetrySendToken, FindNewSuccessor,
        SawFrame, GenerateToken, ReceivedReplyToPFM, PollUnexpectedFrame,
        SoleMasterPollFailed, DoneWithPFM, SendNextPFM, DeclareSoleMaster,
        DeferredReply, Reply
  <2>2. QED
    BY <1>2, <2>1, StepKeepsOrder DEF OrderlyWhileClean
<1>3. ASSUME NEW s \in Station,
             Stall(s) \/ Resume(s) \/ PowerOff(s) \/ PowerOn(s)
      PROVE  Orderly'
  <2>1. clean /\ ~ Stall(s)
    BY <1>3 DEF Stall, Resume, PowerOff, PowerOn, Inv, TypeOK
  <2>2. Orderly
    BY <2>1 DEF OrderlyWhileClean
  <2>3. ~ Resume(s)
    BY <2>2 DEF Resume, Orderly, NothingWaits
  <2>4. QED
    BY <1>3, <2>1, <2>2, <2>3, PowerOffKeepsOrder, PowerOnKeepsOrder
<1>4. ASSUME Tick
      PROVE  Orderly'
  <2>1. ~ Loss /\ ~ Collision
    BY DEF Loss, Collision
  <2>2. clean /\ (Silence \/ Delivery)
    BY <1>4, <2>1 DEF Tick, Silence, Delivery
  <2>3. QED
    BY <2>2, SilenceKeepsOrder, DeliveryKeepsOrder DEF OrderlyWhileClean
<1>5. QED
  BY <1>1, <1>2, <1>3, <1>4 DEF Next

(* A set with no two members.                                              *)
LEMMA AtMostOne ==
  ASSUME NEW S, \A x, y \in S : x = y
  PROVE  /\ Cardinality(S) \in 0 .. 1
         /\ Cardinality(S) = 0 <=> S = {}
<1>1. CASE S = {}
  BY <1>1, FS_EmptySet
<1>2. CASE S # {}
  <2>1. PICK x \in S : S = {x}
    BY <1>2
  <2>2. Cardinality(S) = 1
    BY <2>1, FS_Singleton
  <2>3. QED
    BY <1>2, <2>2
<1>3. QED
  BY <1>1, <1>2

LEMMA OneTalker ==
  ASSUME Inv, Orderly
  PROVE  \A s, t \in Talker : s = t
<1>1. \A s \in Talker : s \in on /\ Talking(s)
  BY DEF Talker, Talking, Orderly, NothingWaits
<1>2. QED
  BY <1>1 DEF Orderly, Together, OneSpeaks

LEMMA OrderlyOneToken ==
  ASSUME Inv, Orderly
  PROVE  Cardinality(TokenHolder) + Cardinality(TokenInAir)
           + Cardinality(TokenArrived) <= 1
<1>1. \A s \in TokenHolder : s \in on /\ Holding(s)
  BY DEF TokenHolder, Holding, UsesToken
<1>2. \A s \in TokenArrived : s \in on /\ Holding(s)
  BY DEF TokenArrived, Holding, Rcvd
<1>3. \A s \in TokenInAir : s \in Talker
  BY DEF TokenInAir, Talker, NoFrame
<1>4. \A s, t \in on : Holding(s) /\ Holding(t) => s = t
  BY DEF Orderly, Together, OneHolds
<1>5. \A s, t \in TokenHolder : s = t
  BY <1>1, <1>4
<1>6. \A s, t \in TokenArrived : s = t
  BY <1>2, <1>4
<1>7. \A s, t \in TokenInAir : s = t
  BY <1>3, OneTalker
<1>8. TokenHolder = {} \/ TokenArrived = {}
  <2>1. SUFFICES ASSUME NEW s \in TokenHolder, s \in TokenArrived
                 PROVE  FALSE
    BY <1>1, <1>2, <1>4
  <2>2. s \in on /\ UsesToken(s) /\ IsToken(Rcvd(s)) /\ Alone(s)
    BY <2>1 DEF TokenHolder, TokenArrived, UsesToken, Rcvd, Orderly
  <2>3. QED
    BY <2>2 DEF UsesToken, IsToken, Alone, NothingKept, Expects, State,
                Nothing, AnswerTo, IsReply, IsReplyToPFM
<1>9. TokenInAir = {} \/ (TokenHolder = {} /\ TokenArrived = {})
  <2>1. SUFFICES ASSUME NEW s \in TokenInAir
                 PROVE  \A t \in on : ~ Holding(t)
    BY <1>1, <1>2
  <2>2. s \in on /\ Talking(s) /\ air[s].type = "TOKEN"
    BY <1>3, <2>1
    DEF TokenInAir, Talker, Talking, Orderly, NothingWaits
  <2>3. QED
    BY <2>2, SenderRoles
<1>10. /\ Cardinality(TokenHolder) \in 0 .. 1
       /\ Cardinality(TokenHolder) = 0 <=> TokenHolder = {}
  BY <1>5, AtMostOne
<1>11. /\ Cardinality(TokenArrived) \in 0 .. 1
       /\ Cardinality(TokenArrived) = 0 <=> TokenArrived = {}
  BY <1>6, AtMostOne
<1>12. /\ Cardinality(TokenInAir) \in 0 .. 1
       /\ Cardinality(TokenInAir) = 0 <=> TokenInAir = {}
  BY <1>7, AtMostOne
<1>13. QED
  BY <1>8, <1>9, <1>10, <1>11, <1>12

LEMMA AlwaysOrderly == Safety => [](Inv /\ OrderlyWhileClean)
<1>1. Init => Inv /\ OrderlyWhileClean
  BY InitInv, InitOrderly DEF OrderlyWhileClean
<1>2. (Inv /\ OrderlyWhileClean) /\ [Next]_vars
        => (Inv /\ OrderlyWhileClean)'
  BY NextKeeps, NextKeepsOrder
<1>3. QED
  BY <1>1, <1>2, PTL DEF Safety

(* While no frame is damaged there is one token at most: with a station    *)
(* that uses it, on the line, or received and not yet used.  It holds on   *)
(* any segment, whoever joins or fails and whatever there is to send: who  *)
(* generates a token knows that nobody has one (GenerateToken in NO_TOKEN).*)
THEOREM OneTokenAlways == Safety => []OneToken
<1>1. Inv /\ OrderlyWhileClean => OneToken
  BY OrderlyOneToken DEF OrderlyWhileClean, OneToken
<1>2. QED
  BY <1>1, AlwaysOrderly, PTL

(* While no frame is damaged no two stations send at once: the turns to    *)
(* generate a token, the waits for an answer, a poll and the use of a      *)
(* token keep them apart.                                                  *)
THEOREM NoCollisionAlways == Safety => []NoCollision
<1>1. Inv /\ OrderlyWhileClean => NoCollision
  <2>1. SUFFICES ASSUME Inv, Orderly PROVE Cardinality(Talker) <= 1
    BY DEF OrderlyWhileClean, NoCollision
  <2>2. Cardinality(Talker) \in 0 .. 1
    BY <2>1, OneTalker, AtMostOne
  <2>3. QED
    BY <2>2
<1>2. QED
  BY <1>1, AlwaysOrderly, PTL
-----------------------------------------------------------------------------
(* What a station that acts does with the token.                           *)

(* A station that is alone has the token, and looks for the next one from  *)
(* the start.                                                              *)
SoleUses(s) == port[s].SoleMaster => UsesToken(s) /\ port[s].Next_Station = s

(* It has not found anyone.                                                *)
Unmet(s) == port[s].Next_Station = s /\ ~ port[s].SoleMaster

Carries(s) ==
  /\ Holding(s) => Holding(s)' \/ State(s)' = "PASS_TOKEN"
  /\ Bearer(s) => Bearer(s)'
  /\ State(s)' \in {"POLL_FOR_MASTER", "PASS_TOKEN"} => Talking(s)'
  /\ State(s)' # "INITIALIZE"
  /\ SoleUses(s) => SoleUses(s)'
  /\ Unmet(s) => Unmet(s)' \/ Bearer(s)'
  /\ port[s].Next_Station = s => port'[s].Next_Station = s \/ Bearer(s)'

LEMMA StepShape ==
  ASSUME Inv, Orderly, NEW s \in Station, Step(s)
  PROVE  /\ s \in on /\ on' = on /\ clean' = clean /\ faults' = faults
         /\ \A t \in on \ {s} : port'[t] = port[t] /\ air'[t] = air[t]
<1>1. s \in on
  BY DEF Step, MustAct, DueStation, Due, Awake, Reply, Runs
<1>2. ~ Read(s)
  BY DEF Read, CanRead, Orderly, NothingWaits
<1>3. (\E p : Become(s, p)) \/ (\E p, type, dst : Send(s, p, type, dst))
  BY <1>2
  DEF Step, MustAct, DoneInitializing, ReceivedBad,
      ReceivedToken, ReceivedPFM, ReceivedNoReplyNeeded,
      ReceivedDataNeedingReply, LostToken, NothingToSend, SendInfoFrame,
      ReplyTimeout, InvalidReply, ReceivedReply, WaitUnexpectedFrame,
      SendAnotherFrame, PollNextStation, SoleMaster, SendToken, PassToken,
      SoleMasterRestartMaintenancePFM, FindSuccessor, ResetMaintenancePFM,
      SendMaintenancePFM, SawTokenUser, RetrySendToken, FindNewSuccessor,
      SawFrame, GenerateToken, ReceivedReplyToPFM, PollUnexpectedFrame,
      SoleMasterPollFailed, DoneWithPFM, SendNextPFM, DeclareSoleMaster,
      DeferredReply, Reply
<1>4. port \in [Station -> Port] /\ air \in [Station -> Frame \cup {NoFrame}]
      /\ on \subseteq Station
  BY DEF Inv, TypeOK
<1>5. CASE \E p : Become(s, p)
  BY <1>1, <1>4, <1>5 DEF Become
<1>6. CASE \E p, type, dst : Send(s, p, type, dst)
  BY <1>1, <1>4, <1>6 DEF Send
<1>7. QED
  BY <1>3, <1>5, <1>6

(* The stations that are bound to do something with the token.             *)
Bearing == {"USE_TOKEN", "WAIT_FOR_REPLY", "DONE_WITH_TOKEN",
            "POLL_FOR_MASTER", "PASS_TOKEN"}

LEMMA Carried ==
  ASSUME NEW s \in on, NEW p, port'[s] = p, on' = on,
         Bearer(s) => p.master_state \in Bearing \/ IsToken(p.Received),
         p.master_state \in {"POLL_FOR_MASTER", "PASS_TOKEN"} => Talking(s)',
         p.master_state = "PASS_TOKEN" => ~ p.EventCount,
         p.master_state # "INITIALIZE",
         p.SoleMaster /\ SoleUses(s)
           => p.master_state \in Bearing \ {"PASS_TOKEN"}
              /\ p.Next_Station = s,
         \/ p.master_state \in Bearing
         \/ /\ p.Next_Station \in {s, port[s].Next_Station}
            /\ p.SoleMaster => port[s].SoleMaster
  PROVE  Carries(s)
<1>1. State(s)' = p.master_state /\ Rcvd(s)' = p.Received
  BY DEF State, Rcvd
<1>2. p.master_state \in Bearing \ {"PASS_TOKEN"}
        => UsesToken(s)' /\ Holding(s)'
  BY DEF UsesToken, Holding, Bearing
<1>3. p.master_state = "PASS_TOKEN" => Passing(s)'
  BY <1>1 DEF Passing
<1>4. IsToken(p.Received) => Holding(s)'
  BY <1>1 DEF Holding
<1>5. p.master_state \in Bearing => Bearer(s)'
  BY <1>2, <1>3 DEF Bearer
<1>6. Holding(s) => Holding(s)' \/ State(s)' = "PASS_TOKEN"
  BY <1>1, <1>2, <1>4 DEF Bearer
<1>7. Bearer(s) => Bearer(s)'
  BY <1>4, <1>5 DEF Bearer
<1>8. SoleUses(s) => SoleUses(s)'
  BY <1>2 DEF SoleUses
<1>9. /\ Unmet(s) => Unmet(s)' \/ Bearer(s)'
      /\ port[s].Next_Station = s => port'[s].Next_Station = s \/ Bearer(s)'
  BY <1>5 DEF Unmet
<1>10. QED
  BY <1>1, <1>6, <1>7, <1>8, <1>9 DEF Carries

LEMMA ListeningCarries ==
  ASSUME Inv, Orderly, NEW s \in Station,
         DoneInitializing(s) \/ ReceivedBad(s) \/
           ReceivedToken(s) \/ ReceivedPFM(s) \/
           ReceivedNoReplyNeeded(s) \/ ReceivedDataNeedingReply(s) \/
           LostToken(s) \/ SawFrame(s)
  PROVE  Carries(s)
<1>0. /\ port \in [Station -> Port]
      /\ air \in [Station -> Frame \cup {NoFrame}]
  BY DEF Inv, TypeOK
<1>1. CASE DoneInitializing(s)
  <2> DEFINE p == [port[s] EXCEPT !.Next_Station = s, !.Poll_Station = s,
               !.TokenCount = Npoll, !.SoleMaster = FALSE, !.master_state =
               "IDLE"]
  <2>1. Runs(s, "INITIALIZE") /\ Become(s, p)
    BY <1>1 DEF DoneInitializing
  <2>2. /\ p.master_state = "IDLE" /\ p.Received = Rcvd(s)
        /\ p.Next_Station = s
        /\ p.SoleMaster = FALSE
    BY <2>1, Runner DEF Port
  <2> HIDE DEF p
  <2>3. s \in on /\ port'[s] = p /\ on' = on
    BY <1>0, <2>1, Runner DEF Become
  <2>4. ~ Passing(s) /\ ~ UsesToken(s) /\ (Holding(s) => IsToken(p.Received))
    BY <1>1, <2>1, <2>2, Runner, ListenerHolds
    DEF NothingKept, UsesToken, State
  <2>5. QED
    BY <2>2, <2>3, <2>4, Carried DEF Bearing, Bearer, SoleUses
<1>2. CASE ReceivedBad(s)
  <2> DEFINE p == [port[s] EXCEPT !.Received = Nothing]
  <2>1. Runs(s, "IDLE") /\ Become(s, p)
    BY <1>2 DEF ReceivedBad
  <2>2. /\ p.master_state = "IDLE" /\ p.Received = Nothing
        /\ p.Next_Station = port[s].Next_Station
        /\ p.SoleMaster = port[s].SoleMaster
    BY <2>1, Runner DEF Port
  <2> HIDE DEF p
  <2>3. s \in on /\ port'[s] = p /\ on' = on
    BY <1>0, <2>1, Runner DEF Become
  <2>4. ~ Passing(s) /\ ~ UsesToken(s) /\ (Holding(s) => IsToken(p.Received))
    BY <1>2, <2>1, <2>2, Runner, ListenerHolds
    DEF ReceivedBad, GotBad, UsesToken, State, IsToken
  <2>5. QED
    BY <2>2, <2>3, <2>4, Carried DEF Bearing, Bearer, SoleUses
<1>3. CASE ReceivedToken(s)
  <2> DEFINE p == [port[s] EXCEPT !.Received = Nothing, !.FrameCount = 0,
               !.SoleMaster = FALSE, !.master_state = "USE_TOKEN"]
  <2>1. Runs(s, "IDLE") /\ Become(s, p)
    BY <1>3 DEF ReceivedToken
  <2>2. /\ p.master_state = "USE_TOKEN" /\ p.Received = Nothing
        /\ p.Next_Station = port[s].Next_Station
        /\ p.SoleMaster = FALSE
    BY <2>1, Runner DEF Port
  <2> HIDE DEF p
  <2>3. s \in on /\ port'[s] = p /\ on' = on
    BY <1>0, <2>1, Runner DEF Become
  <2>4. QED
    BY <2>2, <2>3, Carried DEF Bearing
<1>4. CASE ReceivedPFM(s)
  <2> DEFINE p == [port[s] EXCEPT !.Received = Nothing]
  <2>1. Runs(s, "IDLE") /\ Send(s, p, "REPLY_TO_POLL_FOR_MASTER",
                                    port[s].Received.frame.src)
    BY <1>4 DEF ReceivedPFM
  <2>2. /\ p.master_state = "IDLE" /\ p.Received = Nothing
        /\ p.Next_Station = port[s].Next_Station
        /\ p.SoleMaster = port[s].SoleMaster
    BY <2>1, Runner DEF Port
  <2> HIDE DEF p
  <2>3. s \in on /\ port'[s] = p /\ on' = on /\ Talking(s)'
    BY <1>0, <2>1, Runner DEF Send, Talking, NoFrame
  <2>4. ~ Passing(s) /\ ~ UsesToken(s) /\ (Holding(s) => IsToken(p.Received))
    BY <1>4, <2>1, <2>2, Runner, ListenerHolds
    DEF ReceivedPFM, Got, UsesToken, State, IsToken
  <2>5. QED
    BY <2>2, <2>3, <2>4, Carried DEF Bearing, Bearer, SoleUses
<1>5. CASE ReceivedNoReplyNeeded(s)
  <2> DEFINE p == [port[s] EXCEPT !.Received = Nothing]
  <2>1. Runs(s, "IDLE") /\ Become(s, p)
    BY <1>5 DEF ReceivedNoReplyNeeded
  <2>2. /\ p.master_state = "IDLE" /\ p.Received = Nothing
        /\ p.Next_Station = port[s].Next_Station
        /\ p.SoleMaster = port[s].SoleMaster
    BY <2>1, Runner DEF Port
  <2> HIDE DEF p
  <2>3. s \in on /\ port'[s] = p /\ on' = on
    BY <1>0, <2>1, Runner DEF Become
  <2>4. ~ Passing(s) /\ ~ UsesToken(s) /\ (Holding(s) => IsToken(p.Received))
    BY <1>5, <2>1, <2>2, Runner, ListenerHolds
    DEF ReceivedNoReplyNeeded, Got, UsesToken, State, IsToken
  <2>5. QED
    BY <2>2, <2>3, <2>4, Carried DEF Bearing, Bearer, SoleUses
<1>6. CASE ReceivedDataNeedingReply(s)
  <2> DEFINE p == [port[s] EXCEPT !.master_state = "ANSWER_DATA_REQUEST"]
  <2>1. Runs(s, "IDLE") /\ Become(s, p)
    BY <1>6 DEF ReceivedDataNeedingReply
  <2>2. /\ p.master_state = "ANSWER_DATA_REQUEST" /\ p.Received = Rcvd(s)
        /\ p.Next_Station = port[s].Next_Station
        /\ p.SoleMaster = port[s].SoleMaster
    BY <2>1, Runner DEF Port
  <2> HIDE DEF p
  <2>3. s \in on /\ port'[s] = p /\ on' = on
    BY <1>0, <2>1, Runner DEF Become
  <2>4. ~ Passing(s) /\ ~ UsesToken(s) /\ (Holding(s) => IsToken(p.Received))
    BY <1>6, <2>1, <2>2, Runner, ListenerHolds
    DEF UsesToken, State, IsToken
  <2>5. QED
    BY <2>2, <2>3, <2>4, Carried DEF Bearing, Bearer, SoleUses
<1>7. CASE LostToken(s)
  <2> DEFINE p == [port[s] EXCEPT !.EventCount = FALSE, !.master_state =
               "NO_TOKEN"]
  <2>1. Runs(s, "IDLE") /\ Become(s, p)
    BY <1>7 DEF LostToken
  <2>2. /\ p.master_state = "NO_TOKEN" /\ p.Received = Rcvd(s)
        /\ p.Next_Station = port[s].Next_Station
        /\ p.SoleMaster = port[s].SoleMaster
    BY <2>1, Runner DEF Port
  <2> HIDE DEF p
  <2>3. s \in on /\ port'[s] = p /\ on' = on
    BY <1>0, <2>1, Runner DEF Become
  <2>4. ~ Passing(s) /\ ~ UsesToken(s) /\ (Holding(s) => IsToken(p.Received))
    BY <1>7, <2>1, <2>2, Runner, ListenerHolds
    DEF UsesToken, State, IsToken
  <2>5. QED
    BY <2>2, <2>3, <2>4, Carried DEF Bearing, Bearer, SoleUses
<1>8. CASE SawFrame(s)
  <2> DEFINE p == [port[s] EXCEPT !.master_state = "IDLE"]
  <2>1. Runs(s, "NO_TOKEN") /\ Become(s, p)
    BY <1>8 DEF SawFrame
  <2>2. /\ p.master_state = "IDLE" /\ p.Received = Rcvd(s)
        /\ p.Next_Station = port[s].Next_Station
        /\ p.SoleMaster = port[s].SoleMaster
    BY <2>1, Runner DEF Port
  <2> HIDE DEF p
  <2>3. s \in on /\ port'[s] = p /\ on' = on
    BY <1>0, <2>1, Runner DEF Become
  <2>4. ~ Passing(s) /\ ~ UsesToken(s) /\ (Holding(s) => IsToken(p.Received))
    BY <1>8, <2>1, <2>2, Runner, ListenerHolds
    DEF UsesToken, State, IsToken
  <2>5. QED
    BY <2>2, <2>3, <2>4, Carried DEF Bearing, Bearer, SoleUses
<1>9. QED
  BY <1>1, <1>2, <1>3, <1>4, <1>5, <1>6, <1>7, <1>8

LEMMA TakingUpCarries ==
  ASSUME Inv, Orderly, NEW s \in Station,
         SawTokenUser(s) \/ RetrySendToken(s) \/
           FindNewSuccessor(s) \/ GenerateToken(s) \/
           Reply(s) \/ DeferredReply(s)
  PROVE  Carries(s)
<1>0. /\ port \in [Station -> Port]
      /\ air \in [Station -> Frame \cup {NoFrame}]
  BY DEF Inv, TypeOK
<1>1. CASE SawTokenUser(s)
  <2> DEFINE p == [port[s] EXCEPT !.master_state = "IDLE"]
  <2>1. Runs(s, "PASS_TOKEN") /\ Become(s, p)
    BY <1>1 DEF SawTokenUser
  <2>2. /\ p.master_state = "IDLE" /\ p.Received = Rcvd(s)
        /\ p.Next_Station = port[s].Next_Station
        /\ p.SoleMaster = port[s].SoleMaster
    BY <2>1, Runner DEF Port
  <2> HIDE DEF p
  <2>3. s \in on /\ port'[s] = p /\ on' = on
    BY <1>0, <2>1, Runner DEF Become
  <2>4. ~ Passing(s) /\ ~ UsesToken(s) /\ (Holding(s) => IsToken(p.Received))
    BY <1>1, <2>1, <2>2, Runner
    DEF SawTokenUser, Passing, Holding, UsesToken, State
  <2>5. QED
    BY <2>2, <2>3, <2>4, Carried DEF Bearing, Bearer, SoleUses
<1>2. CASE RetrySendToken(s)
  <2> DEFINE p == [port[s] EXCEPT !.RetryCount = @ + 1, !.EventCount = FALSE]
  <2>1. Runs(s, "PASS_TOKEN") /\ Send(s, p, "TOKEN", port[s].Next_Station)
    BY <1>2 DEF RetrySendToken
  <2>2. /\ p.master_state = "PASS_TOKEN" /\ p.Received = Rcvd(s)
        /\ ~ p.EventCount
        /\ p.Next_Station = port[s].Next_Station
        /\ p.SoleMaster = port[s].SoleMaster
    BY <2>1, Runner DEF Port
  <2> HIDE DEF p
  <2>3. s \in on /\ port'[s] = p /\ on' = on /\ Talking(s)'
    BY <1>0, <2>1, Runner DEF Send, Talking, NoFrame
  <2>4. ~ UsesToken(s)
    BY <2>1, Runner DEF UsesToken
  <2>5. QED
    BY <2>2, <2>3, <2>4, Carried DEF Bearing, SoleUses
<1>3. CASE FindNewSuccessor(s)
  <2> DEFINE p == [port[s] EXCEPT !.Poll_Station = Succ(port[s].Next_Station),
               !.Next_Station = s, !.RetryCount = 0, !.TokenCount = 0,
               !.master_state = "POLL_FOR_MASTER"]
  <2>1. Runs(s, "PASS_TOKEN") /\ Send(s, p, "POLL_FOR_MASTER",
                                          Succ(port[s].Next_Station))
    BY <1>3 DEF FindNewSuccessor, FindSuccessor
  <2>2. /\ p.master_state = "POLL_FOR_MASTER" /\ p.Received = Rcvd(s)
        /\ p.Next_Station = s
        /\ p.SoleMaster = port[s].SoleMaster
    BY <2>1, Runner DEF Port
  <2> HIDE DEF p
  <2>3. s \in on /\ port'[s] = p /\ on' = on /\ Talking(s)'
    BY <1>0, <2>1, Runner DEF Send, Talking, NoFrame
  <2>4. QED
    BY <2>2, <2>3, Carried DEF Bearing
<1>4. CASE GenerateToken(s)
  <2> DEFINE p == [port[s] EXCEPT !.Poll_Station = Succ(s), !.Next_Station = s,
               !.RetryCount = 0, !.TokenCount = 0, !.master_state =
               "POLL_FOR_MASTER"]
  <2>1. Runs(s, "NO_TOKEN") /\ Send(s, p, "POLL_FOR_MASTER", Succ(s))
    BY <1>4 DEF GenerateToken
  <2>2. /\ p.master_state = "POLL_FOR_MASTER" /\ p.Received = Rcvd(s)
        /\ p.Next_Station = s
        /\ p.SoleMaster = port[s].SoleMaster
    BY <2>1, Runner DEF Port
  <2> HIDE DEF p
  <2>3. s \in on /\ port'[s] = p /\ on' = on /\ Talking(s)'
    BY <1>0, <2>1, Runner DEF Send, Talking, NoFrame
  <2>4. QED
    BY <2>2, <2>3, Carried DEF Bearing
<1>5. CASE Reply(s)
  <2> DEFINE p == [port[s] EXCEPT !.Received = Nothing, !.master_state =
               "IDLE"]
  <2>1. /\ Runs(s, "ANSWER_DATA_REQUEST")
        /\ Send(s, p, "DATA_NOT_EXPECTING_REPLY", port[s].Received.frame.src)
    BY <1>5 DEF Reply
  <2>2. /\ p.master_state = "IDLE" /\ p.Received = Nothing
        /\ p.Next_Station = port[s].Next_Station
        /\ p.SoleMaster = port[s].SoleMaster
    BY <2>1, Runner DEF Port
  <2> HIDE DEF p
  <2>3. s \in on /\ port'[s] = p /\ on' = on /\ Talking(s)'
    BY <1>0, <2>1, Runner DEF Send, Talking, NoFrame
  <2>4. ~ Passing(s) /\ ~ Holding(s) /\ ~ UsesToken(s)
    BY <2>1, Runner DEF Passing, Holding, UsesToken, IsToken, Answers
  <2>5. QED
    BY <2>2, <2>3, <2>4, Carried DEF Bearing, Bearer, SoleUses
<1>6. CASE DeferredReply(s)
  <2> DEFINE p == [port[s] EXCEPT !.Received = Nothing, !.master_state =
               "IDLE"]
  <2>1. /\ Runs(s, "ANSWER_DATA_REQUEST")
        /\ Send(s, p, "REPLY_POSTPONED", port[s].Received.frame.src)
    BY <1>6 DEF DeferredReply
  <2>2. /\ p.master_state = "IDLE" /\ p.Received = Nothing
        /\ p.Next_Station = port[s].Next_Station
        /\ p.SoleMaster = port[s].SoleMaster
    BY <2>1, Runner DEF Port
  <2> HIDE DEF p
  <2>3. s \in on /\ port'[s] = p /\ on' = on /\ Talking(s)'
    BY <1>0, <2>1, Runner DEF Send, Talking, NoFrame
  <2>4. ~ Passing(s) /\ ~ Holding(s) /\ ~ UsesToken(s)
    BY <2>1, Runner DEF Passing, Holding, UsesToken, IsToken, Answers
  <2>5. QED
    BY <2>2, <2>3, <2>4, Carried DEF Bearing, Bearer, SoleUses
<1>7. QED
  BY <1>1, <1>2, <1>3, <1>4, <1>5, <1>6

LEMMA UsingCarries ==
  ASSUME Inv, Orderly, NEW s \in Station,
         NothingToSend(s) \/ SendAnotherFrame(s) \/
           SoleMaster(s) \/ ReplyTimeout(s) \/
           InvalidReply(s) \/ ReceivedReply(s) \/
           WaitUnexpectedFrame(s)
  PROVE  Carries(s)
<1>0. /\ port \in [Station -> Port]
      /\ air \in [Station -> Frame \cup {NoFrame}]
  BY DEF Inv, TypeOK
<1>1. CASE NothingToSend(s)
  <2> DEFINE p == [port[s] EXCEPT !.FrameCount = Nmax_info_frames,
               !.master_state = "DONE_WITH_TOKEN"]
  <2>1. Runs(s, "USE_TOKEN") /\ Become(s, p)
    BY <1>1 DEF NothingToSend
  <2>2. /\ p.master_state = "DONE_WITH_TOKEN" /\ p.Received = Rcvd(s)
        /\ p.Next_Station = port[s].Next_Station
        /\ p.SoleMaster = port[s].SoleMaster
    BY <2>1, Runner DEF Port
  <2> HIDE DEF p
  <2>3. s \in on /\ port'[s] = p /\ on' = on
    BY <1>0, <2>1, Runner DEF Become
  <2>4. QED
    BY <2>2, <2>3, Carried DEF Bearing, SoleUses
<1>2. CASE SendAnotherFrame(s)
  <2> DEFINE p == [port[s] EXCEPT !.master_state = "USE_TOKEN"]
  <2>1. Runs(s, "DONE_WITH_TOKEN") /\ Become(s, p)
    BY <1>2 DEF SendAnotherFrame
  <2>2. /\ p.master_state = "USE_TOKEN" /\ p.Received = Rcvd(s)
        /\ p.Next_Station = port[s].Next_Station
        /\ p.SoleMaster = port[s].SoleMaster
    BY <2>1, Runner DEF Port
  <2> HIDE DEF p
  <2>3. s \in on /\ port'[s] = p /\ on' = on
    BY <1>0, <2>1, Runner DEF Become
  <2>4. QED
    BY <2>2, <2>3, Carried DEF Bearing, SoleUses
<1>3. CASE SoleMaster(s)
  <2> DEFINE p == [port[s] EXCEPT !.FrameCount = 0, !.TokenCount = @ + 1,
               !.master_state = "USE_TOKEN"]
  <2>1. Runs(s, "DONE_WITH_TOKEN") /\ Become(s, p)
    BY <1>3 DEF SoleMaster, Finished
  <2>2. /\ p.master_state = "USE_TOKEN" /\ p.Received = Rcvd(s)
        /\ p.Next_Station = port[s].Next_Station
        /\ p.SoleMaster = port[s].SoleMaster
    BY <2>1, Runner DEF Port
  <2> HIDE DEF p
  <2>3. s \in on /\ port'[s] = p /\ on' = on
    BY <1>0, <2>1, Runner DEF Become
  <2>4. QED
    BY <2>2, <2>3, Carried DEF Bearing, SoleUses
<1>4. CASE ReplyTimeout(s)
  <2> DEFINE p == [port[s] EXCEPT !.FrameCount = Nmax_info_frames,
               !.master_state = "DONE_WITH_TOKEN"]
  <2>1. Runs(s, "WAIT_FOR_REPLY") /\ Become(s, p)
    BY <1>4 DEF ReplyTimeout
  <2>2. /\ p.master_state = "DONE_WITH_TOKEN" /\ p.Received = Rcvd(s)
        /\ p.Next_Station = port[s].Next_Station
        /\ p.SoleMaster = port[s].SoleMaster
    BY <2>1, Runner DEF Port
  <2> HIDE DEF p
  <2>3. s \in on /\ port'[s] = p /\ on' = on
    BY <1>0, <2>1, Runner DEF Become
  <2>4. QED
    BY <2>2, <2>3, Carried DEF Bearing, SoleUses
<1>5. CASE InvalidReply(s)
  <2> DEFINE p == [port[s] EXCEPT !.Received = Nothing, !.master_state =
               "DONE_WITH_TOKEN"]
  <2>1. Runs(s, "WAIT_FOR_REPLY") /\ Become(s, p)
    BY <1>5 DEF InvalidReply, Waiting
  <2>2. /\ p.master_state = "DONE_WITH_TOKEN" /\ p.Received = Nothing
        /\ p.Next_Station = port[s].Next_Station
        /\ p.SoleMaster = port[s].SoleMaster
    BY <2>1, Runner DEF Port
  <2> HIDE DEF p
  <2>3. s \in on /\ port'[s] = p /\ on' = on
    BY <1>0, <2>1, Runner DEF Become
  <2>4. QED
    BY <2>2, <2>3, Carried DEF Bearing, SoleUses
<1>6. CASE ReceivedReply(s)
  <2> DEFINE p == [port[s] EXCEPT !.Received = Nothing, !.master_state =
               "DONE_WITH_TOKEN"]
  <2>1. Runs(s, "WAIT_FOR_REPLY") /\ Become(s, p)
    BY <1>6 DEF ReceivedReply, Waiting
  <2>2. /\ p.master_state = "DONE_WITH_TOKEN" /\ p.Received = Nothing
        /\ p.Next_Station = port[s].Next_Station
        /\ p.SoleMaster = port[s].SoleMaster
    BY <2>1, Runner DEF Port
  <2> HIDE DEF p
  <2>3. s \in on /\ port'[s] = p /\ on' = on
    BY <1>0, <2>1, Runner DEF Become
  <2>4. QED
    BY <2>2, <2>3, Carried DEF Bearing, SoleUses
<1>7. CASE WaitUnexpectedFrame(s)
  <2>1. Runs(s, "WAIT_FOR_REPLY") /\ Rcvd(s) # Nothing
        /\ ~ IsReply(Rcvd(s).frame, s)
    BY <1>7 DEF WaitUnexpectedFrame, Waiting, Rcvd, Nothing
  <2>2. FALSE
    BY <2>1, Runner DEF Expects, AnswerTo, Polls
  <2>3. QED
    BY <2>2
<1>8. QED
  BY <1>1, <1>2, <1>3, <1>4, <1>5, <1>6, <1>7

LEMMA PassingOnCarries ==
  ASSUME Inv, Orderly, NEW s \in Station,
         PollNextStation(s) \/ SendToken(s) \/
           SoleMasterRestartMaintenancePFM(s) \/ ResetMaintenancePFM(s) \/
           SendMaintenancePFM(s) \/
           (\E d \in Data : SendInfoFrame(s, d[1], d[3]))
  PROVE  Carries(s)
<1>0. /\ port \in [Station -> Port]
      /\ air \in [Station -> Frame \cup {NoFrame}]
  BY DEF Inv, TypeOK
<1>1. CASE PollNextStation(s)
  <2> DEFINE p == [port[s] EXCEPT !.Poll_Station = Succ(s), !.RetryCount = 0,
               !.master_state = "POLL_FOR_MASTER"]
  <2>1. Runs(s, "DONE_WITH_TOKEN") /\ Send(s, p, "POLL_FOR_MASTER", Succ(s))
    BY <1>1 DEF PollNextStation, NextStationUnknown, Finished
  <2>2. /\ p.master_state = "POLL_FOR_MASTER" /\ p.Received = Rcvd(s)
        /\ p.Next_Station = port[s].Next_Station
        /\ p.SoleMaster = port[s].SoleMaster
    BY <2>1, Runner DEF Port
  <2> HIDE DEF p
  <2>3. s \in on /\ port'[s] = p /\ on' = on /\ Talking(s)'
    BY <1>0, <2>1, Runner DEF Send, Talking, NoFrame
  <2>4. QED
    BY <2>2, <2>3, Carried DEF Bearing, SoleUses
<1>2. CASE SendToken(s)
  <2> DEFINE p == [port[s] EXCEPT !.TokenCount = port[s].TokenCount + 1,
               !.Poll_Station = port[s].Poll_Station, !.RetryCount = 0,
               !.EventCount = FALSE, !.master_state = "PASS_TOKEN"]
  <2>1. Runs(s, "DONE_WITH_TOKEN") /\ Send(s, p, "TOKEN", port[s].Next_Station)
    BY <1>2 DEF SendToken, PassToken, Finished
  <2>2. /\ p.master_state = "PASS_TOKEN" /\ p.Received = Rcvd(s)
        /\ ~ p.EventCount
        /\ p.Next_Station = port[s].Next_Station
        /\ p.SoleMaster = port[s].SoleMaster
    BY <2>1, Runner DEF Port
  <2> HIDE DEF p
  <2>3. s \in on /\ port'[s] = p /\ on' = on /\ Talking(s)'
    BY <1>0, <2>1, Runner DEF Send, Talking, NoFrame
  <2>4. Succ(s) # s
    BY <2>1, Runner, SuccIs, Numbers DEF Address
  <2>5. ~ (p.SoleMaster /\ SoleUses(s))
    BY <1>2, <2>2, <2>4 DEF SendToken, SoleUses
  <2>6. QED
    BY <2>2, <2>3, <2>5, Carried DEF Bearing
<1>3. CASE SoleMasterRestartMaintenancePFM(s)
  <2> DEFINE p == [port[s] EXCEPT !.Poll_Station = Succ(port[s].Next_Station),
               !.Next_Station = s, !.RetryCount = 0, !.TokenCount = 1,
               !.master_state = "POLL_FOR_MASTER"]
  <2>1. Runs(s, "DONE_WITH_TOKEN") /\ Send(s, p, "POLL_FOR_MASTER",
                                               Succ(port[s].Next_Station))
    BY <1>3 DEF SoleMasterRestartMaintenancePFM, FindSuccessor, Finished
  <2>2. /\ p.master_state = "POLL_FOR_MASTER" /\ p.Received = Rcvd(s)
        /\ p.Next_Station = s
        /\ p.SoleMaster = port[s].SoleMaster
    BY <2>1, Runner DEF Port
  <2> HIDE DEF p
  <2>3. s \in on /\ port'[s] = p /\ on' = on /\ Talking(s)'
    BY <1>0, <2>1, Runner DEF Send, Talking, NoFrame
  <2>4. QED
    BY <2>2, <2>3, Carried DEF Bearing, SoleUses
<1>4. CASE ResetMaintenancePFM(s)
  <2> DEFINE p == [port[s] EXCEPT !.TokenCount = 1, !.Poll_Station = s,
               !.RetryCount = 0, !.EventCount = FALSE, !.master_state =
               "PASS_TOKEN"]
  <2>1. Runs(s, "DONE_WITH_TOKEN") /\ Send(s, p, "TOKEN", port[s].Next_Station)
    BY <1>4 DEF ResetMaintenancePFM, PassToken, Finished
  <2>2. /\ p.master_state = "PASS_TOKEN" /\ p.Received = Rcvd(s)
        /\ ~ p.EventCount
        /\ p.Next_Station = port[s].Next_Station
        /\ p.SoleMaster = port[s].SoleMaster
    BY <2>1, Runner DEF Port
  <2> HIDE DEF p
  <2>3. s \in on /\ port'[s] = p /\ on' = on /\ Talking(s)'
    BY <1>0, <2>1, Runner DEF Send, Talking, NoFrame
  <2>4. QED
    BY <1>4, <2>2, <2>3, Carried DEF Bearing, ResetMaintenancePFM
<1>5. CASE SendMaintenancePFM(s)
  <2> DEFINE p == [port[s] EXCEPT !.Poll_Station = Succ(@), !.RetryCount = 0,
               !.master_state = "POLL_FOR_MASTER"]
  <2>1. Runs(s, "DONE_WITH_TOKEN") /\ Send(s, p, "POLL_FOR_MASTER",
                                               Succ(port[s].Poll_Station))
    BY <1>5 DEF SendMaintenancePFM, Finished
  <2>2. /\ p.master_state = "POLL_FOR_MASTER" /\ p.Received = Rcvd(s)
        /\ p.Next_Station = port[s].Next_Station
        /\ p.SoleMaster = port[s].SoleMaster
    BY <2>1, Runner DEF Port
  <2> HIDE DEF p
  <2>3. s \in on /\ port'[s] = p /\ on' = on /\ Talking(s)'
    BY <1>0, <2>1, Runner DEF Send, Talking, NoFrame
  <2>4. QED
    BY <2>2, <2>3, Carried DEF Bearing, SoleUses
<1>6. CASE \E d \in Data : SendInfoFrame(s, d[1], d[3])
  <2>1. PICK d \in Data : SendInfoFrame(s, d[1], d[3])
    BY <1>6
  <2> DEFINE p == [port[s] EXCEPT !.FrameCount = @ + 1,
                    !.master_state = IF d[1] = "DATA_EXPECTING_REPLY"
                                       THEN "WAIT_FOR_REPLY"
                                       ELSE "DONE_WITH_TOKEN"]
  <2>2. Runs(s, "USE_TOKEN") /\ Send(s, p, d[1], d[3])
    BY <2>1 DEF SendInfoFrame
  <2>3. /\ p.master_state \in {"WAIT_FOR_REPLY", "DONE_WITH_TOKEN"}
        /\ p.Next_Station = port[s].Next_Station
        /\ p.SoleMaster = port[s].SoleMaster
    BY <2>2, Runner DEF Port
  <2> HIDE DEF p
  <2>4. port'[s] = p /\ on' = on
    BY <1>0, <2>2 DEF Send
  <2>5. QED
    BY <2>2, <2>3, <2>4, Runner, Carried DEF Bearing, SoleUses
<1>7. QED
  BY <1>1, <1>2, <1>3, <1>4, <1>5, <1>6

LEMMA PollingCarries ==
  ASSUME Inv, Orderly, NEW s \in Station,
         ReceivedReplyToPFM(s) \/ SoleMasterPollFailed(s) \/
           DoneWithPFM(s) \/ SendNextPFM(s) \/
           DeclareSoleMaster(s) \/ PollUnexpectedFrame(s)
  PROVE  Carries(s)
<1>0. /\ port \in [Station -> Port]
      /\ air \in [Station -> Frame \cup {NoFrame}]
  BY DEF Inv, TypeOK
<1>1. CASE ReceivedReplyToPFM(s)
  <2> DEFINE p == [port[s] EXCEPT !.SoleMaster = FALSE, !.Next_Station =
               port[s].Received.frame.src, !.EventCount = FALSE,
               !.Poll_Station = s, !.TokenCount = 0, !.RetryCount = 0,
               !.Received = Nothing, !.master_state = "PASS_TOKEN"]
  <2>1. Runs(s, "POLL_FOR_MASTER") /\ Send(s, p, "TOKEN",
                                               port[s].Received.frame.src)
    BY <1>1 DEF ReceivedReplyToPFM
  <2>2. /\ p.master_state = "PASS_TOKEN" /\ p.Received = Nothing
        /\ ~ p.EventCount
        /\ p.Next_Station = port[s].Received.frame.src
        /\ p.SoleMaster = FALSE
    BY <2>1, Runner DEF Port
  <2> HIDE DEF p
  <2>3. s \in on /\ port'[s] = p /\ on' = on /\ Talking(s)'
    BY <1>0, <2>1, Runner DEF Send, Talking, NoFrame
  <2>4. QED
    BY <2>2, <2>3, Carried DEF Bearing
<1>2. CASE SoleMasterPollFailed(s)
  <2> DEFINE p == [port[s] EXCEPT !.FrameCount = 0, !.Received = Nothing,
               !.master_state = "USE_TOKEN"]
  <2>1. Runs(s, "POLL_FOR_MASTER") /\ Become(s, p)
    BY <1>2 DEF SoleMasterPollFailed, PollFailed
  <2>2. /\ p.master_state = "USE_TOKEN" /\ p.Received = Nothing
        /\ p.Next_Station = port[s].Next_Station
        /\ p.SoleMaster = port[s].SoleMaster
    BY <2>1, Runner DEF Port
  <2> HIDE DEF p
  <2>3. s \in on /\ port'[s] = p /\ on' = on
    BY <1>0, <2>1, Runner DEF Become
  <2>4. QED
    BY <2>2, <2>3, Carried DEF Bearing, SoleUses
<1>3. CASE DoneWithPFM(s)
  <2> DEFINE p == [port[s] EXCEPT !.EventCount = FALSE, !.RetryCount = 0,
               !.Received = Nothing, !.master_state = "PASS_TOKEN"]
  <2>1. Runs(s, "POLL_FOR_MASTER") /\ Send(s, p, "TOKEN", port[s].Next_Station)
    BY <1>3 DEF DoneWithPFM, PollFailed
  <2>2. /\ p.master_state = "PASS_TOKEN" /\ p.Received = Nothing
        /\ ~ p.EventCount
        /\ p.Next_Station = port[s].Next_Station
        /\ p.SoleMaster = port[s].SoleMaster
    BY <2>1, Runner DEF Port
  <2> HIDE DEF p
  <2>3. s \in on /\ port'[s] = p /\ on' = on /\ Talking(s)'
    BY <1>0, <2>1, Runner DEF Send, Talking, NoFrame
  <2>4. QED
    BY <1>3, <2>2, <2>3, Carried DEF Bearing, DoneWithPFM
<1>4. CASE SendNextPFM(s)
  <2> DEFINE p == [port[s] EXCEPT !.Poll_Station = Succ(@), !.RetryCount = 0,
               !.Received = Nothing]
  <2>1. Runs(s, "POLL_FOR_MASTER") /\ Send(s, p, "POLL_FOR_MASTER",
                                               Succ(port[s].Poll_Station))
    BY <1>4 DEF SendNextPFM, PollFailed
  <2>2. /\ p.master_state = "POLL_FOR_MASTER" /\ p.Received = Nothing
        /\ p.Next_Station = port[s].Next_Station
        /\ p.SoleMaster = port[s].SoleMaster
    BY <2>1, Runner DEF Port
  <2> HIDE DEF p
  <2>3. s \in on /\ port'[s] = p /\ on' = on /\ Talking(s)'
    BY <1>0, <2>1, Runner DEF Send, Talking, NoFrame
  <2>4. QED
    BY <2>2, <2>3, Carried DEF Bearing, SoleUses
<1>5. CASE DeclareSoleMaster(s)
  <2> DEFINE p == [port[s] EXCEPT !.SoleMaster = TRUE, !.FrameCount = 0,
               !.Received = Nothing, !.master_state = "USE_TOKEN"]
  <2>1. Runs(s, "POLL_FOR_MASTER") /\ Become(s, p)
    BY <1>5 DEF DeclareSoleMaster, PollFailed
  <2>2. /\ p.master_state = "USE_TOKEN" /\ p.Received = Nothing
        /\ p.Next_Station = port[s].Next_Station
        /\ p.SoleMaster = TRUE
    BY <2>1, Runner DEF Port
  <2> HIDE DEF p
  <2>3. s \in on /\ port'[s] = p /\ on' = on
    BY <1>0, <2>1, Runner DEF Become
  <2>4. QED
    BY <1>5, <2>2, <2>3, Carried DEF Bearing, DeclareSoleMaster
<1>6. CASE PollUnexpectedFrame(s)
  <2>1. Runs(s, "POLL_FOR_MASTER") /\ Rcvd(s) # Nothing
        /\ ~ IsReplyToPFM(Rcvd(s).frame, s)
    BY <1>6 DEF PollUnexpectedFrame, Rcvd, Nothing
  <2>2. FALSE
    BY <2>1, Runner DEF Expects, AnswerTo, Polls
  <2>3. QED
    BY <2>2
<1>7. QED
  BY <1>1, <1>2, <1>3, <1>4, <1>5, <1>6

LEMMA StepCarries ==
  ASSUME Inv, Orderly, NEW s \in Station, Step(s)
  PROVE  Carries(s)
<1>1. ~ Read(s)
  BY DEF Read, CanRead, Orderly, NothingWaits
<1>2. QED
  BY <1>1, ListeningCarries, TakingUpCarries, UsingCarries, PassingOnCarries,
     PollingCarries
  DEF Step, MustAct
-----------------------------------------------------------------------------
(* Nobody drops the token.                                                 *)

LEMMA HoldingIsHaving ==
  ASSUME NEW s \in on
  PROVE  HasToken(s) <=> Holding(s)
BY DEF HasToken, Holding, TokenArrived, Rcvd

(* A tick takes no token from anyone.                                      *)
LEMMA TickHolds ==
  ASSUME Inv, Orderly, Silence \/ Delivery, NEW s \in on
  PROVE  /\ s \in on' /\ State(s)' = State(s)
         /\ Holding(s) => Holding(s)'
<1>1. on \subseteq Station /\ NobodyIsDue
  BY DEF Inv, TypeOK, Silence, Delivery, TimePasses
<1>2. s \in Station /\ port[s] \in Port
  BY <1>1, PortOf
<1>3. /\ on' = on
      /\ port'[s] = [port[s] EXCEPT !.SilenceTimer = 0]
           \/ port'[s] = Quieter(port[s])
           \/ (Rcvd(s) = Nothing /\ \E r : port'[s] = HasRead(port[s], r))
  <2>1. PICK heard : Arrive(heard)
    BY DEF Silence, Delivery
  <2>2. QED
    BY <1>2, <2>1 DEF Arrive, ReadsAtOnce, Rcvd
<1>4. State(s)' = State(s)
  BY <1>2, <1>3 DEF State, Port, Quieter, HasRead
<1>5. Rcvd(s)' = Rcvd(s) \/ Rcvd(s) = Nothing
  BY <1>2, <1>3 DEF Rcvd, Port, Quieter
<1>6. Holding(s) => Holding(s)'
  BY <1>3, <1>4, <1>5 DEF Holding, UsesToken, State, IsToken, Nothing
<1>7. QED
  BY <1>3, <1>4, <1>6

LEMMA StepDropsNothing ==
  ASSUME Inv, OrderlyWhileClean, [Next]_vars, clean',
         NEW s \in on \cap on', HasToken(s)
  PROVE  HasToken(s)' \/ port'[s].master_state = "PASS_TOKEN"
<1>1. clean /\ Orderly
  BY StepRoute DEF OrderlyWhileClean, Next, Stall, Resume, PowerOff, PowerOn,
                   Tick, Silence, Delivery, Loss, Collision, vars, Inv, TypeOK
<1>2. Holding(s) /\ s \in Station
  BY HoldingIsHaving DEF Inv, TypeOK
<1>3. SUFFICES Holding(s)' \/ State(s)' = "PASS_TOKEN"
  BY DEF HasToken, Holding, TokenArrived, Rcvd, State
<1>4. CASE UNCHANGED vars
  BY <1>2, <1>4, RolesKept DEF vars
<1>5. ASSUME NEW t \in Station, Step(t)
      PROVE  Holding(s)' \/ State(s)' = "PASS_TOKEN"
  <2>1. CASE s = t
    BY <1>1, <1>2, <1>5, <2>1, StepCarries DEF Carries
  <2>2. CASE s # t
    BY <1>1, <1>2, <1>5, <2>2, StepShape, RolesKept
  <2>3. QED
    BY <2>1, <2>2
<1>6. ASSUME NEW t \in Station,
             Stall(t) \/ Resume(t) \/ PowerOff(t) \/ PowerOn(t)
      PROVE  Holding(s)'
  <2>1. port'[s] = port[s] /\ air'[s] = air[s]
    BY <1>6, <1>2 DEF Stall, Resume, PowerOff, PowerOn, Inv, TypeOK
  <2>2. QED
    BY <1>2, <2>1, RolesKept
<1>7. CASE Tick
  BY <1>1, <1>2, <1>7, TickHolds DEF Tick, Loss, Collision
<1>8. QED
  BY <1>4, <1>5, <1>6, <1>7 DEF Next

(* While no frame is damaged nobody drops a token it has: what makes the   *)
(* machine do so (ReceivedUnexpectedFrame in WAIT_FOR_REPLY and in         *)
(* POLL_FOR_MASTER) is never received.                                     *)
THEOREM TokenNeverDropped == Safety => TokenNotDropped
<1>1. Inv /\ OrderlyWhileClean /\ [Next]_vars
        => [clean' => \A s \in on \cap on' :
              HasToken(s) => HasToken(s)'
                             \/ port'[s].master_state = "PASS_TOKEN"]_vars
  BY StepDropsNothing
<1>2. QED
  BY <1>1, AlwaysOrderly, PTL DEF Safety, TokenNotDropped
-----------------------------------------------------------------------------
(* The ring: the token is with someone or nobody has met anyone, it was    *)
(* passed to a station that is there and that uses it, and whoever answers *)
(* a poll is there.                                                        *)

Starts(s) == State(s) = "INITIALIZE" => port[s].Next_Station = s

Handed(s) ==
  Passing(s) /\ ~ Talking(s) =>
    LET n == port[s].Next_Station
    IN n \notin on \/ port[n].Next_Station = n \/ Bearer(n)

Answered(s) == Polls(s) /\ Rcvd(s) # Nothing => Rcvd(s).frame.src \in on

Known(s) == SoleUses(s) /\ Starts(s)

Serves ==
  /\ (\E s \in on : Bearer(s)) \/ (\A s \in on : Unmet(s))
  /\ \A s \in on : Handed(s) /\ Answered(s)

ServesWhileClean ==
  clean => (\A s \in on : Known(s)) /\ (faults = 0 => Serves)

LEMMA KnownKept ==
  ASSUME NEW t \in on, t \in on', Known(t), State(t)' = State(t),
         port'[t].Next_Station = port[t].Next_Station,
         port'[t].SoleMaster = port[t].SoleMaster
  PROVE  Known(t)'
BY DEF Known, SoleUses, Starts, UsesToken, State

LEMMA StepServes ==
  ASSUME Inv, Orderly, Orderly', \A t \in on : Known(t),
         NEW s \in Station, Step(s)
  PROVE  /\ \A t \in on' : Known(t)'
         /\ Serves => Serves'
<1>1. /\ s \in on /\ on' = on
      /\ \A t \in on \ {s} : port'[t] = port[t] /\ air'[t] = air[t]
  BY StepShape
<1>2. /\ Bearer(s) => Bearer(s)'
      /\ State(s)' \in {"POLL_FOR_MASTER", "PASS_TOKEN"} => Talking(s)'
      /\ State(s)' # "INITIALIZE"
      /\ SoleUses(s) => SoleUses(s)'
      /\ Unmet(s) => Unmet(s)' \/ Bearer(s)'
      /\ port[s].Next_Station = s => port'[s].Next_Station = s \/ Bearer(s)'
  BY StepCarries DEF Carries
<1>3. Known(s)'
  BY <1>1, <1>2 DEF Known, Starts
<1>4. \A t \in on \ {s} :
        /\ State(t)' = State(t) /\ Rcvd(t)' = Rcvd(t) /\ Polls(t)' = Polls(t)
        /\ Passing(t)' = Passing(t) /\ Talking(t)' = Talking(t)
        /\ Bearer(t)' = Bearer(t)
  BY <1>1, RolesKept
<1>5. \A t \in on' : Known(t)'
  BY <1>1, <1>3, <1>4, KnownKept
<1>6. ASSUME Serves
      PROVE  Serves'
  <2>1. (\E t \in on' : Bearer(t)') \/ (\A t \in on' : Unmet(t)')
    <3>1. CASE \E t \in on : Bearer(t)
      BY <1>1, <1>2, <1>4, <3>1
    <3>2. CASE \A t \in on : Unmet(t)
      BY <1>1, <1>2, <3>2 DEF Unmet
    <3>3. QED
      BY <1>6, <3>1, <3>2 DEF Serves
  <2>2. Handed(s)' /\ Answered(s)'
    <3>1. ~ (Passing(s)' /\ ~ Talking(s)')
      BY <1>2 DEF Passing
    <3>2. Polls(s)' => Rcvd(s)' = Nothing
      BY <1>1, <1>2 DEF Polls, Orderly, Alone, Sends
    <3>3. QED
      BY <3>1, <3>2 DEF Handed, Answered
  <2>3. ASSUME NEW t \in on \ {s}
        PROVE  Handed(t)' /\ Answered(t)'
    <3>1. Handed(t) /\ Answered(t)
      BY <1>6 DEF Serves
    <3>2. Answered(t)'
      BY <1>1, <1>4, <3>1 DEF Answered
    <3>3. Handed(t)'
      <4>1. SUFFICES ASSUME NEW n \in on, n = port[t].Next_Station,
                            Passing(t), ~ Talking(t)
                     PROVE  port'[n].Next_Station = n \/ Bearer(n)'
        BY <1>1, <1>4 DEF Handed
      <4>2. port[n].Next_Station = n \/ Bearer(n)
        BY <3>1, <4>1 DEF Handed
      <4>3. CASE n = s
        <5>1. port[s].Next_Station = s \/ Bearer(s)
          BY <4>2, <4>3
        <5>2. port'[s].Next_Station = s \/ Bearer(s)'
          BY <1>2, <5>1
        <5>3. QED
          BY <4>3, <5>2
      <4>4. CASE n # s
        <5>1. port'[n] = port[n] /\ Bearer(n)' = Bearer(n)
          BY <1>1, <1>4, <4>4
        <5>2. QED
          BY <4>2, <5>1
      <4>5. QED
        BY <4>3, <4>4
    <3>4. QED
      BY <3>2, <3>3
  <2>4. QED
    BY <1>1, <2>1, <2>2, <2>3 DEF Serves
<1>7. QED
  BY <1>5, <1>6

LEMMA PowerServes ==
  ASSUME Inv, Orderly, \A t \in on : Known(t),
         NEW s \in Station, PowerOff(s) \/ PowerOn(s)
  PROVE  /\ \A t \in on' : Known(t)'
         /\ faults' = 0 /\ Serves => Serves'
<1>1. /\ on \subseteq Station /\ port \in [Station -> Port]
      /\ air \in [Station -> Frame \cup {NoFrame}] /\ faults \in Nat
  BY DEF Inv, TypeOK
<1>2. CASE PowerOff(s)
  <2>1. /\ on' = on \ {s} /\ \A t \in on' : port'[t] = port[t]
        /\ faults' = faults + 1
    BY <1>1, <1>2 DEF PowerOff
  <2>2. \A t \in on' : Known(t)'
    BY <2>1, KnownKept DEF State
  <2>3. QED
    BY <1>1, <2>1, <2>2
<1>3. CASE PowerOn(s)
  <2>1. /\ on' = on \cup {s} /\ s \notin on
        /\ \A t \in on : port'[t] = port[t] /\ air'[t] = air[t]
        /\ port'[s] = MSTP_Init(s)
    BY <1>1, <1>3 DEF PowerOn
  <2>2. Known(s)' /\ Unmet(s)' /\ Handed(s)' /\ Answered(s)'
    BY <2>1 DEF MSTP_Init, Known, SoleUses, Starts, Unmet, Handed, Answered,
                Passing, Polls, State
  <2>3. \A t \in on :
          /\ State(t)' = State(t) /\ Rcvd(t)' = Rcvd(t)
          /\ Polls(t)' = Polls(t) /\ Passing(t)' = Passing(t)
          /\ Talking(t)' = Talking(t) /\ Bearer(t)' = Bearer(t)
    BY <2>1, RolesKept
  <2>4. \A t \in on' : Known(t)'
    BY <2>1, <2>2, <2>3, KnownKept
  <2>5. ASSUME Serves
        PROVE  Serves'
    <3>1. (\E t \in on' : Bearer(t)') \/ (\A t \in on' : Unmet(t)')
      BY <2>1, <2>2, <2>3, <2>5 DEF Serves, Unmet
    <3>2. ASSUME NEW t \in on
          PROVE  Handed(t)' /\ Answered(t)'
      <4>1. Handed(t) /\ Answered(t)
        BY <2>5 DEF Serves
      <4>2. Answered(t)'
        BY <2>1, <2>3, <4>1 DEF Answered
      <4>3. Handed(t)'
        BY <2>1, <2>2, <2>3, <4>1 DEF Handed, Unmet
      <4>4. QED
        BY <4>2, <4>3
    <3>3. QED
      BY <2>1, <2>2, <3>1, <3>2 DEF Serves
  <2>6. QED
    BY <2>4, <2>5
<1>4. QED
  BY <1>2, <1>3

LEMMA TickKnown ==
  ASSUME Inv, Orderly, \A t \in on : Known(t), Silence \/ Delivery
  PROVE  \A t \in on' : Known(t)'
<1>1. on \subseteq Station /\ Tick
  BY DEF Inv, TypeOK, Tick
<1>2. on' = on
  BY DEF Silence, Delivery, Arrive
<1>3. QED
  BY <1>1, <1>2, TickRoute, TickHolds, KnownKept

LEMMA SilenceServes ==
  ASSUME Inv, Orderly, Serves, Silence
  PROVE  Serves'
<1>1. on \subseteq Station /\ port \in [Station -> Port]
  BY DEF Inv, TypeOK
<1>2. \A t \in Station : ~ Talking(t)
  BY DEF Silence, Talker, Talking
<1>3. /\ port' = [t \in Station |-> Quieter(port[t])]
      /\ air' = [t \in Station |-> NoFrame] /\ on' = on
  <2> DEFINE heard == [t \in Station |-> Nothing]
  <2>1. Arrive(heard) /\ Talker = {} /\ \A t \in Station : heard[t] = Nothing
    BY DEF Silence
  <2>2. QED
    BY <2>1 DEF Arrive
<1>4. \A t \in on :
        /\ port'[t].master_state = port[t].master_state
        /\ port'[t].Received = port[t].Received
        /\ port'[t].EventCount = port[t].EventCount
        /\ port'[t].Next_Station = port[t].Next_Station
        /\ port'[t].SoleMaster = port[t].SoleMaster
        /\ ~ Talking(t) /\ ~ Talking(t)'
  BY <1>1, <1>2, <1>3 DEF Quieter, Port, Talking
<1>5. \A t \in on :
        /\ State(t)' = State(t) /\ Rcvd(t)' = Rcvd(t)
        /\ Polls(t)' = Polls(t) /\ Unmet(t)' = Unmet(t)
  BY <1>3, <1>4 DEF State, Rcvd, Polls, Unmet
<1>6. \A t \in on : Passing(t)' = Passing(t)
  BY <1>3, <1>4, <1>5 DEF Passing
<1>7. \A t \in on : Holding(t)' = Holding(t)
  BY <1>3, <1>4, <1>5 DEF Holding, UsesToken
<1>8. \A t \in on : Bearer(t)' = Bearer(t)
  BY <1>6, <1>7 DEF Bearer
<1>9. ASSUME NEW t \in on
      PROVE  Handed(t)' /\ Answered(t)'
  <2>1. Handed(t) /\ Answered(t)
    BY DEF Serves
  <2>2. Answered(t)'
    BY <1>3, <1>5, <2>1 DEF Answered
  <2>3. Handed(t)'
    BY <1>3, <1>4, <1>6, <1>8, <2>1 DEF Handed
  <2>4. QED
    BY <2>2, <2>3
<1>10. QED
  BY <1>3, <1>5, <1>8, <1>9 DEF Serves
LEMMA DeliveryServes ==
  ASSUME Inv, Orderly, Orderly', Serves, Delivery
  PROVE  Serves'
<1>1. on \subseteq Station /\ port \in [Station -> Port] /\ NobodyIsDue /\ Tick
  BY DEF Inv, TypeOK, Delivery, TimePasses, Tick
<1>2. PICK s \in Station :
        /\ Talker = {s}
        /\ Arrive(Heard([t \in Station |-> AsReceived(air[s], t)]))
  <2>1. Talker \subseteq Station
    BY DEF Talker
  <2>2. QED
    BY <2>1 DEF Delivery
<1>3. /\ s \in on /\ Talking(s) /\ on' = on
      /\ port'[s] = [port[s] EXCEPT !.SilenceTimer = 0]
      /\ \A t \in on \ {s} :
           port'[t] = HasRead(port[t], AsReceived(air[s], t))
  BY <1>1, <1>2, Reached
<1>4. /\ Rcvd(s) = Nothing /\ air[s].src = s
      /\ air[s].type = "TOKEN" => air[s].dst = port[s].Next_Station
      /\ air[s].type # "TOKEN" => ~ Passing(s)
  BY <1>3, SenderRoles
<1>5. port[s] \in Port /\ \A t \in on : port[t] \in Port
  BY <1>1
<1>6. Passing(s)' = Passing(s) /\ Rcvd(s)' = Rcvd(s)
  <2>1. /\ port'[s].master_state = port[s].master_state
        /\ port'[s].EventCount = port[s].EventCount
        /\ port'[s].Received = port[s].Received
    BY <1>3, <1>5 DEF Port
  <2>2. QED
    BY <1>3, <2>1 DEF Passing, State, Rcvd
<1>7. \A t \in on \ {s} : ~ Passing(t)' /\ Rcvd(t)' = AsReceived(air[s], t)
  <2>1. \A t \in on \ {s} :
          /\ port'[t].EventCount
          /\ port'[t].Received = AsReceived(air[s], t)
    BY <1>3, <1>5 DEF HasRead, Port
  <2>2. QED
    BY <2>1 DEF Passing, Rcvd
<1>8. (\E t \in on' : Bearer(t)') \/ (\A t \in on' : Unmet(t)')
  <2>1. CASE \A t \in on : Unmet(t)
    BY <1>1, <2>1, TickRoute DEF Unmet
  <2>2. ASSUME NEW t \in on, Bearer(t)
        PROVE  \E u \in on : Bearer(u)'
    <3>1. CASE Holding(t)
      BY <3>1, TickHolds DEF Bearer
    <3>2. CASE Passing(t)
      <4>1. Bearer(s)
        BY <1>3, <3>2 DEF Bearer, Orderly, Together, OnePasses
      <4>2. Bearer(s)'
        BY <1>3, <1>6, <4>1, TickHolds DEF Bearer
      <4>3. QED
        BY <1>3, <4>2
    <3>3. QED
      BY <2>2, <3>1, <3>2 DEF Bearer
  <2>3. QED
    BY <1>3, <2>1, <2>2 DEF Serves
<1>9. ASSUME NEW t \in on
      PROVE  Handed(t)'
  <2>1. CASE t # s
    BY <1>7, <2>1 DEF Handed
  <2>2. ASSUME NEW n \in on, t = s, n = port[s].Next_Station, Passing(s)
        PROVE  port'[n].Next_Station = n \/ Bearer(n)'
    <3>1. CASE n = s
      BY <1>1, <1>3, <2>2, <3>1, TickRoute
    <3>2. CASE n # s
      <4>1. Rcvd(n)' = [flag |-> "Valid", frame |-> air[s]]
        BY <1>4, <1>7, <2>2, <3>2 DEF AsReceived
      <4>2. IsToken(Rcvd(n)')
        BY <1>4, <2>2, <4>1 DEF IsToken
      <4>3. QED
        BY <1>3, <4>2 DEF Bearer, Holding, IsToken
    <3>3. QED
      BY <3>1, <3>2
  <2>3. port'[s].Next_Station = port[s].Next_Station
    BY <1>1, <1>3, TickRoute
  <2>4. QED
    BY <1>3, <1>6, <2>1, <2>2, <2>3 DEF Handed
<1>10. ASSUME NEW t \in on
       PROVE  Answered(t)'
  <2>1. CASE t = s
    BY <1>4, <1>6, <2>1 DEF Answered
  <2>2. CASE t # s
    <3>1. SUFFICES ASSUME Polls(t)', Rcvd(t)' # Nothing
                   PROVE  Rcvd(t)'.frame.src \in on'
      BY DEF Answered
    <3>2. Rcvd(t)'.flag = "Valid"
      BY <1>3, <3>1 DEF Orderly, Alone, Expects, Polls
    <3>3. Rcvd(t)'.frame = air[s]
      BY <1>7, <2>2, <3>2 DEF AsReceived
    <3>4. QED
      BY <1>3, <1>4, <3>3
  <2>3. QED
    BY <2>1, <2>2
<1>11. QED
  BY <1>3, <1>8, <1>9, <1>10 DEF Serves
LEMMA InitServes == Init => ServesWhileClean
<1> SUFFICES ASSUME Init PROVE ServesWhileClean
  OBVIOUS
<1>1. on \subseteq Station
  BY DEF Init
<1>2. ASSUME NEW s \in on
      PROVE  /\ State(s) = "INITIALIZE" /\ Rcvd(s) = Nothing
             /\ port[s].Next_Station = s /\ ~ port[s].SoleMaster
  BY <1>1 DEF Init, MSTP_Init, State, Rcvd
<1>3. \A s \in on : Known(s) /\ Unmet(s) /\ Handed(s) /\ Answered(s)
  BY <1>2 DEF Known, SoleUses, Starts, Unmet, Handed, Answered, Passing, Polls
<1>4. QED
  BY <1>3 DEF ServesWhileClean, Serves

LEMMA NextServes ==
  ASSUME Inv, OrderlyWhileClean, OrderlyWhileClean', ServesWhileClean,
         [Next]_vars
  PROVE  ServesWhileClean'
<1> SUFFICES ASSUME clean'
             PROVE  /\ \A s \in on' : Known(s)'
                    /\ faults' = 0 => Serves'
  BY DEF ServesWhileClean
<1>1. clean
  BY StepRoute DEF Next, Stall, Resume, PowerOff, PowerOn, Tick, Silence,
                   Delivery, Loss, Collision, vars, Inv, TypeOK
<1>2. /\ Orderly /\ Orderly' /\ \A s \in on : Known(s)
      /\ faults = 0 => Serves
  BY <1>1 DEF OrderlyWhileClean, ServesWhileClean
<1>3. CASE UNCHANGED vars
  <2>1. /\ on' = on /\ faults' = faults
        /\ \A t \in on : port'[t] = port[t] /\ air'[t] = air[t]
    BY <1>3 DEF vars
  <2>2. \A t \in on :
          /\ State(t)' = State(t) /\ Rcvd(t)' = Rcvd(t)
          /\ Polls(t)' = Polls(t) /\ Passing(t)' = Passing(t)
          /\ Talking(t)' = Talking(t) /\ Bearer(t)' = Bearer(t)
    BY <2>1, RolesKept
  <2>3. \A t \in on' : Known(t)'
    BY <1>2, <2>1, <2>2, KnownKept
  <2>4. ASSUME Serves
        PROVE  Serves'
    <3>1. (\E t \in on' : Bearer(t)') \/ (\A t \in on' : Unmet(t)')
      BY <2>1, <2>2, <2>4 DEF Serves, Unmet
    <3>2. ASSUME NEW t \in on
          PROVE  Handed(t)' /\ Answered(t)'
      <4>1. Handed(t) /\ Answered(t)
        BY <2>4 DEF Serves
      <4>2. QED
        BY <2>1, <2>2, <4>1 DEF Handed, Answered
    <3>3. QED
      BY <2>1, <3>1, <3>2 DEF Serves
  <2>5. QED
    BY <1>2, <2>1, <2>3, <2>4
<1>4. ASSUME NEW s \in Station, Step(s)
      PROVE  (\A t \in on' : Known(t)') /\ (faults' = 0 => Serves')
  BY <1>2, <1>4, StepServes, StepShape
<1>5. ASSUME NEW s \in Station,
             Stall(s) \/ Resume(s) \/ PowerOff(s) \/ PowerOn(s)
      PROVE  (\A t \in on' : Known(t)') /\ (faults' = 0 => Serves')
  <2>1. ~ Stall(s) /\ ~ Resume(s)
    BY <1>2 DEF Stall, Resume, Orderly, NothingWaits
  <2>2. faults' = 0 => faults = 0
    <3>1. faults \in Nat
      BY MstpAssumption DEF Inv, TypeOK
    <3>2. faults' \in {faults, faults + 1}
      BY <1>5, <2>1 DEF PowerOff, PowerOn
    <3>3. QED
      BY <3>1, <3>2
  <2>3. QED
    BY <1>2, <1>5, <2>1, <2>2, PowerServes
<1>6. ASSUME Tick
      PROVE  (\A t \in on' : Known(t)') /\ (faults' = 0 => Serves')
  <2>1. (Silence \/ Delivery) /\ faults' = faults
    BY <1>6 DEF Tick, Silence, Delivery, Loss, Collision, TimePasses
  <2>2. QED
    BY <1>2, <2>1, TickKnown, SilenceServes, DeliveryServes
<1>7. QED
  BY <1>3, <1>4, <1>5, <1>6 DEF Next

LEMMA AlwaysServes ==
  Safety => [](Inv /\ OrderlyWhileClean /\ PollsOnlyTheGap /\ ServesWhileClean)
<1>1. Init => ServesWhileClean
  BY InitServes
<1>2. Inv /\ OrderlyWhileClean /\ OrderlyWhileClean' /\ ServesWhileClean
        /\ [Next]_vars => ServesWhileClean'
  BY NextServes
<1>3. QED
  BY <1>1, <1>2, AlwaysOrderly, AlwaysInGap, PTL DEF Safety
-----------------------------------------------------------------------------
(* A ring that has closed stays closed.                                    *)

FitsIn(s, p) ==
  IF on = {s} THEN p.SoleMaster
              ELSE ~ p.SoleMaster /\ IsNextOn(s, p.Next_Station)

(* What a station of a closed ring knows.                                  *)
LEMMA InRing ==
  ASSUME RingClosed, NEW s \in on, Known(s)
  PROVE  /\ FitsIn(s, port[s])
         /\ port[s].SoleMaster => on = {s} /\ UsesToken(s)
         /\ ~ port[s].SoleMaster
              => /\ on # {s} /\ port[s].Next_Station \in on \ {s}
                 /\ State(s) # "INITIALIZE"
BY DEF RingClosed, FitsIn, Known, SoleUses, Starts, IsNextOn

LEMMA RingKept ==
  ASSUME RingClosed, NEW s \in on, on' = on,
         \A t \in on \ {s} : port'[t] = port[t], FitsIn(s, port'[s])
  PROVE  RingClosed'
<1>1. ASSUME NEW t \in on
      PROVE  IF on = {t} THEN port'[t].SoleMaster
             ELSE ~ port'[t].SoleMaster /\ IsNextOn(t, port'[t].Next_Station)
  BY <1>1 DEF RingClosed, FitsIn
<1>2. QED
  BY <1>1 DEF RingClosed, IsNextOn, After

(* The token was passed to a station that uses it.                         *)
LEMMA TokenIsUsed ==
  ASSUME Inv, Orderly, Serves, RingClosed, NEW s \in on, Known(s),
         State(s) = "PASS_TOKEN", Sil(s) > Tusage_timeout, ~ Talking(s)
  PROVE  FALSE
<1>1. Passing(s)
  BY PasserIsFree
<1>2. ~ UsesToken(s)
  BY DEF UsesToken, State
<1>3. PICK n \in on \ {s} : n = port[s].Next_Station
  BY <1>2, InRing
<1>4. port[n].Next_Station # n
  BY <1>3 DEF RingClosed, IsNextOn
<1>5. Bearer(n)
  BY <1>1, <1>3, <1>4 DEF Serves, Handed
<1>6. AllHeard
  BY <1>1, <1>3, <1>5 DEF Bearer, Orderly, Together, OnePasses
<1>7. QED
  BY <1>6, Times DEF AllHeard

(* Nobody answers from between a station and the next one.                 *)
LEMMA GapIsEmpty ==
  ASSUME Inv, Orderly, Serves, PollsOnlyTheGap, RingClosed, NEW s \in on,
         Polls(s), Rcvd(s) # Nothing
  PROVE  FALSE
<1> DEFINE a == Rcvd(s).frame.src
           n == port[s].Next_Station
<1>1. s \in Station /\ port[s] \in Port /\ s \in Address
  BY PortOf DEF Inv, TypeOK
<1>2. a \in on /\ a = Polled(s) /\ a # s
  BY DEF Serves, Answered, Orderly, Alone, Expects, Polls
<1>3. n # s /\ \A t \in on \ {s, n} : After(s, n) < After(s, t)
  BY <1>2 DEF RingClosed, IsNextOn
<1>4. After(s, a) < After(s, n)
  BY <1>1, <1>2, <1>3 DEF PollsOnlyTheGap, Polled
<1>5. a \in Address /\ n \in Address
  BY <1>1, <1>2 DEF Port, Polled
<1>6. After(s, a) \in Nat /\ After(s, n) \in Nat
  BY <1>1, <1>5, AfterSucc
<1> HIDE DEF a, n
<1>7. a # n
  BY <1>4, <1>6
<1>8. QED
  BY <1>2, <1>3, <1>4, <1>6, <1>7

LEMMA StepKeepsRing ==
  ASSUME Inv, Orderly, Serves, PollsOnlyTheGap, RingClosed,
         \A t \in on : Known(t), NEW s \in Station, Step(s)
  PROVE  RingClosed'
<1>1. /\ s \in on /\ on' = on /\ \A t \in on \ {s} : port'[t] = port[t]
      /\ port \in [Station -> Port]
  BY StepShape DEF Inv, TypeOK
<1>2. /\ FitsIn(s, port[s])
      /\ port[s].SoleMaster => on = {s} /\ UsesToken(s)
      /\ ~ port[s].SoleMaster
           => /\ on # {s} /\ port[s].Next_Station \in on \ {s}
              /\ State(s) # "INITIALIZE"
  BY <1>1, InRing
<1>3. SUFFICES FitsIn(s, port'[s])
  BY <1>1, RingKept
<1>4. CASE /\ port'[s].Next_Station = port[s].Next_Station
           /\ port'[s].SoleMaster = port[s].SoleMaster
  BY <1>2, <1>4 DEF FitsIn
<1>5. CASE DoneInitializing(s)
  <2>1. State(s) = "INITIALIZE"
    BY <1>5 DEF DoneInitializing, Runs, State
  <2>2. QED
    BY <1>2, <2>1 DEF UsesToken, State
<1>6. CASE ReceivedToken(s)
  <2>1. ~ port[s].SoleMaster
    BY <1>2, <1>6 DEF ReceivedToken, Runs, UsesToken
  <2>2. /\ port'[s].Next_Station = port[s].Next_Station
        /\ ~ port'[s].SoleMaster
    BY <1>1, <1>6 DEF ReceivedToken, Become, Port
  <2>3. QED
    BY <1>2, <2>1, <2>2 DEF FitsIn
<1>7. CASE PollNextStation(s) \/ SendNextPFM(s) \/ DeclareSoleMaster(s)
  <2>1. ~ port[s].SoleMaster /\ port[s].Next_Station = s
    BY <1>7
    DEF PollNextStation, NextStationUnknown, SendNextPFM, DeclareSoleMaster
  <2>2. QED
    BY <1>2, <2>1
<1>8. CASE SoleMasterRestartMaintenancePFM(s)
  <2>1. port[s].SoleMaster
    BY <1>8 DEF SoleMasterRestartMaintenancePFM
  <2>2. port'[s].SoleMaster
    BY <1>1, <1>8, <2>1
    DEF SoleMasterRestartMaintenancePFM, FindSuccessor, Send, Port
  <2>3. QED
    BY <1>2, <2>1, <2>2 DEF FitsIn
<1>9. CASE ResetMaintenancePFM(s) \/ SendMaintenancePFM(s)
  BY <1>1, <1>4, <1>9
  DEF ResetMaintenancePFM, SendMaintenancePFM, PassToken, Send, Port
<1>10. CASE FindNewSuccessor(s)
  <2>1. Runs(s, "PASS_TOKEN") /\ Sil(s) > Tusage_timeout
    BY <1>10 DEF FindNewSuccessor, Sil
  <2>2. QED
    BY <1>1, <2>1, Runner, TokenIsUsed
<1>11. CASE GenerateToken(s)
  <2>1. Runs(s, "NO_TOKEN") /\ Sil(s) >= SlotBegin(s)
    BY <1>11 DEF GenerateToken, HasSlot, Sil
  <2>2. State(s) = "NO_TOKEN" /\ ~ Talking(s)
    BY <2>1, Runner
  <2>3. Free(s) /\ Rcvd(s) = Nothing
    BY <1>1, <2>1, <2>2, GeneratorIsFree
  <2>4. ~ Bearer(s) /\ ~ UsesToken(s)
    BY <2>2, <2>3
    DEF Bearer, Holding, UsesToken, Passing, State, IsToken, Nothing
  <2>5. \A t \in on : ~ Bearer(t)
    <3>1. ~ AllHeard
      BY <1>1, <2>1, Times, TurnType DEF AllHeard
    <3>2. QED
      BY <2>3, <2>4, <3>1 DEF Free, Bearer
  <2>6. port[s].Next_Station = s
    BY <1>1, <2>5 DEF Serves, Unmet
  <2>7. QED
    BY <1>2, <2>4, <2>6
<1>12. CASE ReceivedReplyToPFM(s)
  <2>1. Polls(s) /\ Rcvd(s) # Nothing
    BY <1>12 DEF ReceivedReplyToPFM, Runs, Polls, State, Rcvd, Nothing
  <2>2. QED
    BY <1>1, <2>1, GapIsEmpty
<1>13. QED
  BY <1>4, <1>5, <1>6, <1>7, <1>8, <1>9, <1>10, <1>11, <1>12, StepRoute
  DEF Reroutes, KeepsRoute

LEMMA NextKeepsRing ==
  ASSUME Inv, OrderlyWhileClean, PollsOnlyTheGap, ServesWhileClean,
         [Next]_vars, RingClosed, clean', faults' = 0, on' = on
  PROVE  RingClosed'
<1>1. clean
  BY StepRoute DEF Next, Stall, Resume, PowerOff, PowerOn, Tick, Silence,
                   Delivery, Loss, Collision, vars, Inv, TypeOK
<1>2. on \subseteq Station /\ faults \in Nat
  BY MstpAssumption DEF Inv, TypeOK
<1>3. CASE \A t \in on : /\ port'[t].Next_Station = port[t].Next_Station
                         /\ port'[t].SoleMaster = port[t].SoleMaster
  BY <1>3 DEF RingClosed, IsNextOn, After
<1>4. CASE UNCHANGED vars
  BY <1>3, <1>4 DEF vars
<1>5. CASE Tick
  BY <1>2, <1>3, <1>5, TickRoute
<1>6. ASSUME NEW s \in Station, Step(s)
      PROVE  RingClosed'
  <2>1. faults = 0
    BY <1>6, StepRoute
  <2>2. QED
    BY <1>1, <1>6, <2>1, StepKeepsRing DEF OrderlyWhileClean, ServesWhileClean
<1>7. ASSUME NEW s \in Station,
             Stall(s) \/ Resume(s) \/ PowerOff(s) \/ PowerOn(s)
      PROVE  RingClosed'
  <2>1. ~ Stall(s) /\ ~ PowerOff(s)
    BY <1>2 DEF Stall, PowerOff
  <2>2. ~ PowerOn(s)
    BY DEF PowerOn
  <2>3. port' = port
    BY <1>7, <2>1, <2>2 DEF Resume
  <2>4. QED
    BY <1>3, <2>3
<1>8. QED
  BY <1>4, <1>5, <1>6, <1>7 DEF Next

(* As long as no frame is damaged and no station fails or joins, a ring    *)
(* that has closed stays closed: only a station that is not part of one    *)
(* gives up its successor, generates a token or finds somebody by polling  *)
(* (FindNewSuccessor, GenerateToken, ReceivedReplyToPFM).                  *)
THEOREM RingStaysClosed == Safety => RingStays
<1>1. /\ Inv /\ OrderlyWhileClean /\ PollsOnlyTheGap /\ ServesWhileClean
      /\ [Next]_vars
      => [RingClosed /\ clean' /\ faults' = 0 /\ on' = on => RingClosed']_vars
  BY NextKeepsRing
<1>2. QED
  BY <1>1, AlwaysServes, PTL DEF Safety, RingStays
=============================================================================
