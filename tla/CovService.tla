----------------------------- MODULE CovService -----------------------------
(* What SubscribeCOV promises a client: its subscription, found again when *)
(* it is renewed or cancelled, is told the values of the object until its  *)
(* lifetime ends.  Tables, addresses, invoke ids, the datalink mutex and   *)
(* the steps of handler_cov_fsm are no part of the promise.                *)
EXTENDS Naturals

CONSTANTS
  Object,         \* what can be subscribed to
  Request,        \* the <<client, process id, object>> clients use
  Lifetime,       \* seconds clients ask for; 0 is indefinite
  Value,          \* values of an object
  InitialValue,   \* what every object starts with
  NoValue         \* what a client knows before its first notification

VARIABLES
  book,    \* the subscriptions
  val,     \* the value of each object
  news     \* objects written since they were last checked for changes

vars == <<book, val, news>>

Init ==
  /\ book = {}
  /\ val = [o \in Object |-> InitialValue]
  /\ news = {}

ObjectOf(s) == s.request[3]

Without(r) == {s \in book : s.request # r}

Replaced(s, new) == (book \ {s}) \cup {new}

(* What a request can ask for.                                             *)
Asked(r) ==
  [request : {r}, confirmed : BOOLEAN, lifetime : Lifetime,
   due : {TRUE}, told : {NoValue}]

(* A request makes the subscription, or renews the one it made before.     *)
Accept(r) ==
  /\ UNCHANGED <<val, news>>
  /\ \E s \in book' \cap Asked(r) : book' = Without(r) \cup {s}

Cancel(r) ==
  /\ \E s \in book : s.request = r
  /\ book' = Without(r)
  /\ UNCHANGED <<val, news>>

(* A second goes by: the subscriptions in their last one end.              *)
Second ==
  /\ UNCHANGED <<val, news>>
  /\ book' = {[s EXCEPT !.lifetime = IF @ = 0 THEN 0 ELSE @ - 1] :
                s \in {t \in book : t.lifetime # 1}}

Write(o, v) ==
  /\ val[o] # v
  /\ val' = [val EXCEPT ![o] = v]
  /\ news' = news \cup {o}
  /\ UNCHANGED book

(* A subscription becomes due only because its object was written.         *)
Mark(s) ==
  /\ ObjectOf(s) \in news
  /\ book' = Replaced(s, [s EXCEPT !.due = TRUE])
  /\ UNCHANGED <<val, news>>

(* The news of an object are over when a subscription to it is due.        *)
Settle(s) ==
  /\ s.due
  /\ news' = news \ {ObjectOf(s)}
  /\ UNCHANGED <<book, val>>

(* The client is sent the value the object has now.                        *)
Notify(s) ==
  /\ s.due
  /\ book' = Replaced(s, [s EXCEPT !.due = FALSE, !.told = val[ObjectOf(s)]])
  /\ UNCHANGED <<val, news>>

Next ==
  \/ \E s \in book : Mark(s) \/ Settle(s) \/ Notify(s)
  \/ \E o \in Object, v \in Value : Write(o, v)
  \/ Second
  \/ \E r \in Request : Accept(r) \/ Cancel(r)

Spec == Init /\ [][Next]_vars
=============================================================================
