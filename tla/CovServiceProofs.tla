-------------------------- MODULE CovServiceProofs --------------------------
(* CovNotify implements CovService for every value of its constants, as    *)
(* long as the stack can tell the sources of requests apart.               *)
EXTENDS CovNotifyProofs

USE DEF Sub, AddrIndex, NoDest, Slot, InvokeID

Inv == TypeOK /\ NTypeOK /\ AddressInv /\ ClientInv

LEMMA SubscriptionOf ==
  ASSUME TypeOK, NEW i \in Sub
  PROVE  subs[i] \in Subscription
  BY DEF TypeOK

(* No two entries stand for the same request.                              *)
LEMMA EntriesDiffer ==
  ASSUME Inv, NEW i \in Sub, NEW j \in Sub, subs[i].valid, subs[j].valid,
         owner[i] = owner[j]
  PROVE  i = j
<1>1. Addressed(i) = Addressed(j)
  BY DEF Inv, ClientInv, DestIsSubscriber
<1>2. /\ addrs[subs[i].dest].dest = addrs[subs[j].dest].dest
      /\ subs[i].pid = subs[j].pid
      /\ subs[i].object = subs[j].object
  BY <1>1 DEF Addressed
<1>3. /\ subs[i].dest \in AddrIndex /\ addrs[subs[i].dest].valid
      /\ subs[j].dest \in AddrIndex /\ addrs[subs[j].dest].valid
  BY DEF Inv, AddressInv, DestinationsLive
<1>4. subs[i].dest = subs[j].dest
  BY <1>2, <1>3, SameEquivalence DEF Inv, AddressInv, AddressesDistinct
<1>5. QED
  BY <1>2, <1>4 DEF Inv, AddressInv, OneSubscriptionPerKey

(* Entries that stand for different requests make different promises.      *)
LEMMA PromisesDiffer ==
  ASSUME Inv, NEW i \in Sub, NEW j \in Sub, subs[i].valid, subs[j].valid,
         Promised(i) = Promised(j)
  PROVE  i = j
<1>1. Promised(i).request = owner[i] /\ Promised(j).request = owner[j]
  BY DEF Promised
<1>2. QED
  BY <1>1, EntriesDiffer

LEMMA BookIs ==
  /\ \A s : s \in Book <=> \E j \in Sub : subs[j].valid /\ s = Promised(j)
  /\ \A s : s \in Book' <=> \E j \in Sub : subs'[j].valid /\ s = Promised(j)'
  BY DEF Book

(* Entries that are left alone stand for what they did.                    *)
LEMMA SamePromise ==
  ASSUME NEW j \in Sub, subs'[j] = subs[j], owner'[j] = owner[j],
         told'[j] = told[j]
  PROVE  subs'[j].valid = subs[j].valid /\ Promised(j)' = Promised(j)
  BY DEF Promised

(* A step that leaves every promise alone leaves the book alone.           *)
LEMMA BookKept ==
  ASSUME \A j \in Sub : /\ subs'[j].valid = subs[j].valid
                        /\ subs[j].valid => Promised(j)' = Promised(j)
  PROVE  Book' = Book
<1>1. \A s : s \in Book' <=> s \in Book
  BY BookIs
<1>2. QED
  BY <1>1

(* A step that changes one entry replaces one subscription.                *)
LEMMA EntryReplaced ==
  ASSUME Inv, NEW i \in Sub, subs[i].valid, subs'[i].valid,
         \A j \in Sub \ {i} : /\ subs'[j].valid = subs[j].valid
                              /\ subs[j].valid => Promised(j)' = Promised(j)
  PROVE  Book' = (Book \ {Promised(i)}) \cup {Promised(i)'}
<1>1. \A j \in Sub \ {i} : subs[j].valid => Promised(j) # Promised(i)
  BY PromisesDiffer
<1>2. \A s : s \in Book' <=> (s \in Book /\ s # Promised(i)) \/ s = Promised(i)'
  BY <1>1, BookIs
<1>3. QED
  BY <1>2

(* The subscriptions made by other requests than that of entry i are those *)
(* of the other entries.                                                   *)
LEMMA WithoutEntry ==
  ASSUME Inv, NEW i \in Sub, subs[i].valid
  PROVE  Service!Without(owner[i]) = Book \ {Promised(i)}
<1>1. \A s \in Book : s.request = owner[i] <=> s = Promised(i)
  <2>1. \A j \in Sub : Promised(j).request = owner[j]
    BY DEF Promised
  <2>2. QED
    BY <2>1, BookIs, EntriesDiffer
<1>2. QED
  BY <1>1 DEF Service!Without

(* The entry a request finds is the subscription of the client that asks.  *)
LEMMA MatchIsOwner ==
  ASSUME DistinctSources, Inv, NEW i \in Sub, NEW r \in Request, Matches(i, r)
  PROVE  subs[i].valid /\ owner[i] = r
<1> DEFINE d == subs[i].dest
<1>1. d \in AddrIndex /\ addrs[d].valid /\ AddressHit(r[1], d)
  BY DEF Matches, Inv, AddressInv, DestinationsLive, AddressHit
<1>2. addrs[d].dest = r[1]
  BY <1>1, HitIsSource DEF Inv
<1>3. owner[i] = <<r[1], r[2], r[3]>>
  BY <1>2 DEF Matches, Inv, ClientInv, DestIsSubscriber, Addressed
<1>4. QED
  BY <1>3, SourceOfRequest DEF Matches

(* A request that finds no entry has no subscription.                      *)
LEMMA NoMatchNoOwner ==
  ASSUME Inv, NEW r \in Request, \A j \in Sub : ~ Matches(j, r)
  PROVE  Service!Without(r) = Book
<1>1. ASSUME NEW j \in Sub, subs[j].valid, owner[j] = r
      PROVE  FALSE
  <2>1. /\ addrs[subs[j].dest].dest = r[1]
        /\ subs[j].pid = r[2]
        /\ subs[j].object = r[3]
    BY <1>1 DEF Inv, ClientInv, DestIsSubscriber, Addressed
  <2>2. bacnet_address_same(r[1], addrs[subs[j].dest].dest)
    BY <2>1 DEF bacnet_address_same
  <2>3. QED
    BY <1>1, <2>1, <2>2 DEF Matches
<1>2. \A s \in Book : s.request # r
  <2>1. \A j \in Sub : Promised(j).request = owner[j]
    BY DEF Promised
  <2>2. QED
    BY <1>1, <2>1, BookIs
<1>3. QED
  BY <1>2 DEF Service!Without

-----------------------------------------------------------------------------
(* Each step is a step of the service, or none.                            *)

LEMMA SubscribeIsAccept ==
  ASSUME Inv, NEW i \in Sub, NEW r \in Request, NEW c \in BOOLEAN,
         NEW l \in Lifetime, Subscribe(i, r, c, l),
         owner' = [owner EXCEPT ![i] = r],
         told' = [told EXCEPT ![i] = NoValue], UNCHANGED val
  PROVE  Service!Accept(r)
<1>1. PICK a \in AddrIndex :
        subs' = [subs EXCEPT ![i] =
                   [valid |-> TRUE, confirmed |-> c, send_requested |-> TRUE,
                    dest |-> a, invokeID |-> 0, pid |-> r[2],
                    lifetime |-> l, object |-> r[3]]]
  BY DEF Subscribe
<1>2. subs'[i].valid /\ Promised(i)' \in Service!Asked(r)
  BY <1>1 DEF Inv, TypeOK, NTypeOK, Promised, Service!Asked
<1>3. \A j \in Sub \ {i} : subs'[j].valid = subs[j].valid
                           /\ Promised(j)' = Promised(j)
  <2>1. \A j \in Sub \ {i} : /\ subs'[j] = subs[j] /\ owner'[j] = owner[j]
                             /\ told'[j] = told[j]
    BY <1>1 DEF Inv, TypeOK, NTypeOK
  <2>2. QED
    BY <2>1, SamePromise
<1>4. ~ subs[i].valid
  BY DEF Subscribe, FirstInvalid
<1>5. \A s : s \in Book' <=> s \in Book \/ s = Promised(i)'
  BY <1>2, <1>3, <1>4, BookIs
<1>6. Service!Without(r) = Book
  BY NoMatchNoOwner DEF Subscribe
<1>7. UNCHANGED <<val, News>>
  BY DEF Subscribe, News
<1>8. QED
  BY <1>2, <1>5, <1>6, <1>7 DEF Service!Accept

LEMMA RenewalIsAccept ==
  ASSUME DistinctSources, Inv, NEW i \in Sub, NEW r \in Request,
         NEW c \in BOOLEAN, NEW l \in Lifetime, Resubscribe(i, r, c, l),
         owner' = [owner EXCEPT ![i] = r],
         told' = [told EXCEPT ![i] = NoValue], UNCHANGED val
  PROVE  Service!Accept(r)
<1>1. Matches(i, r)
  BY DEF Resubscribe, Existing
<1>2. subs[i].valid /\ owner[i] = r
  BY <1>1, MatchIsOwner
<1>3. PICK a \in AddrIndex :
        subs' = [subs EXCEPT ![i] =
                   [@ EXCEPT !.dest = a, !.confirmed = c, !.lifetime = l,
                             !.send_requested = TRUE, !.invokeID = 0]]
  BY DEF Resubscribe
<1>4. subs'[i].valid /\ Promised(i)' \in Service!Asked(r)
  <2>1. /\ subs'[i].valid /\ subs'[i].confirmed = c /\ subs'[i].lifetime = l
        /\ subs'[i].send_requested = TRUE
    BY <1>2, <1>3, SubscriptionOf DEF Inv, TypeOK, Subscription
  <2>2. owner'[i] = r /\ told'[i] = NoValue
    BY DEF Inv, NTypeOK
  <2>3. QED
    BY <2>1, <2>2 DEF Promised, Service!Asked
<1>5. \A j \in Sub \ {i} : subs'[j].valid = subs[j].valid
                           /\ Promised(j)' = Promised(j)
  <2>1. \A j \in Sub \ {i} : /\ subs'[j] = subs[j] /\ owner'[j] = owner[j]
                             /\ told'[j] = told[j]
    BY <1>3 DEF Inv, TypeOK, NTypeOK
  <2>2. QED
    BY <2>1, SamePromise
<1>6. Book' = (Book \ {Promised(i)}) \cup {Promised(i)'}
  BY <1>2, <1>4, <1>5, EntryReplaced
<1>7. Service!Without(r) = Book \ {Promised(i)}
  BY <1>2, WithoutEntry
<1>8. UNCHANGED <<val, News>>
  BY DEF Resubscribe, News
<1>9. QED
  BY <1>4, <1>6, <1>7, <1>8 DEF Service!Accept

LEMMA CancelIsCancel ==
  ASSUME DistinctSources, Inv, NEW i \in Sub, NEW r \in Request,
         Cancel(i, r), UNCHANGED world
  PROVE  Service!Cancel(r)
<1>1. subs[i].valid /\ owner[i] = r
  BY MatchIsOwner DEF Cancel, Existing
<1>2. ~ subs'[i].valid
  BY SubscriptionOf DEF Cancel, Inv, TypeOK, Subscription
<1>3. \A j \in Sub \ {i} : subs'[j].valid = subs[j].valid
                           /\ Promised(j)' = Promised(j)
  <2>1. \A j \in Sub \ {i} : subs'[j] = subs[j]
    BY DEF Cancel, Inv, TypeOK
  <2>2. QED
    BY <2>1, SamePromise DEF world
<1>4. \A j \in Sub \ {i} : subs[j].valid => Promised(j) # Promised(i)
  BY <1>1, PromisesDiffer
<1>5. \A s : s \in Book' <=> s \in Book /\ s # Promised(i)
  BY <1>2, <1>3, <1>4, BookIs
<1>6. Service!Without(r) = Book \ {Promised(i)}
  BY <1>1, WithoutEntry
<1>7. \E s \in Book : s.request = r
  <2>1. Promised(i).request = r
    BY <1>1 DEF Promised
  <2>2. Promised(i) \in Book
    BY <1>1, BookIs
  <2>3. QED
    BY <2>1, <2>2
<1>8. UNCHANGED <<val, News>>
  BY DEF Cancel, world, News
<1>9. QED
  BY <1>5, <1>6, <1>7, <1>8 DEF Service!Cancel

LEMMA TimerIsSecond ==
  ASSUME Inv, NTimer
  PROVE  Service!Second
<1> DEFINE Older(s) == [s EXCEPT !.lifetime = IF @ = 0 THEN 0 ELSE @ - 1]
<1>1. \A j \in Sub : subs'[j].valid <=> subs[j].valid /\ subs[j].lifetime # 1
  BY SubscriptionOf
  DEF NTimer, handler_cov_timer_seconds, Expiring, Inv, TypeOK, Subscription
<1>2. ASSUME NEW j \in Sub, subs'[j].valid
      PROVE  Promised(j)' = Older(Promised(j))
  <2>1. j \notin Expiring /\ subs[j].valid
    BY <1>1, <1>2 DEF Expiring
  <2>2. subs'[j] = IF subs[j].lifetime > 0
                     THEN [subs[j] EXCEPT !.lifetime = @ - 1]
                     ELSE subs[j]
    BY <2>1 DEF NTimer, handler_cov_timer_seconds
  <2>3. subs[j].lifetime \in Nat
    BY SubscriptionOf, CovAssumption DEF Inv, Subscription
  <2>4. /\ subs'[j].confirmed = subs[j].confirmed
        /\ subs'[j].send_requested = subs[j].send_requested
        /\ subs'[j].lifetime = IF subs[j].lifetime = 0 THEN 0
                                ELSE subs[j].lifetime - 1
    BY <2>2, <2>3, SubscriptionOf DEF Inv, Subscription
  <2>5. owner' = owner /\ told' = told
    BY DEF NTimer, world
  <2>6. QED
    BY <2>4, <2>5 DEF Promised
<1>3. \A j \in Sub : Promised(j).lifetime = subs[j].lifetime
  BY DEF Promised
<1>4. \A s : s \in Book' <=> \E t \in Book : t.lifetime # 1 /\ s = Older(t)
  <2> HIDE DEF Older
  <2>1. QED
    BY <1>1, <1>2, <1>3, BookIs
<1>5. Book' = {Older(s) : s \in {t \in Book : t.lifetime # 1}}
  <2> HIDE DEF Older
  <2>1. QED
    BY <1>4
<1>6. UNCHANGED <<val, News>>
  BY DEF NTimer, handler_cov_timer_seconds, world, News
<1>7. QED
  BY <1>5, <1>6 DEF Service!Second

LEMMA WriteIsWrite ==
  ASSUME Inv, NEW o \in Object, NEW v \in Value, Write(o, v)
  PROVE  Service!Write(o, v)
<1>1. News' = News \cup {o}
  BY DEF Write, ObjectChange, News, Inv, TypeOK
<1>2. \A j \in Sub : subs'[j].valid = subs[j].valid /\ Promised(j)' = Promised(j)
  BY SamePromise DEF Write, ObjectChange
<1>3. Book' = Book
  BY <1>2, BookKept
<1>4. QED
  BY <1>1, <1>3 DEF Write, Service!Write

(* Steps that touch no more than transactions, ids and positions.          *)
LEMMA IdleStep ==
  ASSUME UNCHANGED <<subs, changed, val, owner, told>>
  PROVE  UNCHANGED <<Book, val, News>>
<1>1. Book' = Book
  BY BookKept, SamePromise
<1>2. QED
  BY <1>1 DEF News

(* The object of a subscription is the one its entry is checked against.   *)
LEMMA ObjectOfEntry ==
  ASSUME Inv, NEW i \in Sub, subs[i].valid
  PROVE  Service!ObjectOf(Promised(i)) = subs[i].object
<1>1. owner[i][3] = subs[i].object
  BY DEF Inv, ClientInv, DestIsSubscriber, Addressed
<1>2. QED
  BY <1>1 DEF Service!ObjectOf, Promised

(* What entry i stands for when only its flag and what was told change.    *)
Flagged(i, due, v) ==
  [request |-> owner[i], confirmed |-> subs[i].confirmed,
   lifetime |-> subs[i].lifetime, due |-> due, told |-> v]

LEMMA FlagUpdate ==
  ASSUME NEW i \in Sub, NEW due
  PROVE  Flagged(i, due, told[i]) = [Promised(i) EXCEPT !.due = due]
  BY DEF Promised, Flagged

LEMMA FlagsChange ==
  ASSUME Inv, NEW i \in Sub, NEW due, NEW v, subs[i].valid, subs'[i].valid,
         subs'[i].confirmed = subs[i].confirmed,
         subs'[i].lifetime = subs[i].lifetime,
         subs'[i].send_requested = due, told'[i] = v, UNCHANGED owner,
         \A j \in Sub \ {i} : subs'[j] = subs[j] /\ told'[j] = told[j]
  PROVE  Book' = Service!Replaced(Promised(i), Flagged(i, due, v))
<1>1. Promised(i)' = Flagged(i, due, v)
  BY DEF Promised, Flagged
<1>2. \A j \in Sub \ {i} : subs'[j].valid = subs[j].valid
                           /\ Promised(j)' = Promised(j)
  BY SamePromise
<1>3. QED
  BY <1>1, <1>2, EntryReplaced DEF Service!Replaced

LEMMA MarkIsMark ==
  ASSUME Inv, FsmMark, UNCHANGED world
  PROVE  UNCHANGED <<Book, val, News>> \/ \E s \in Book : Service!Mark(s)
<1>1. CASE ~ (subs[index].valid /\ changed[subs[index].object])
  BY <1>1, IdleStep DEF FsmMark, world
<1>2. ASSUME NEW i \in Sub, i = index, subs[i].valid, changed[subs[i].object]
      PROVE  Service!Mark(Promised(i)) /\ Promised(i) \in Book
  <2>1. subs[i].object \in Object
    BY <1>2 DEF Inv, TypeOK
  <2>2. subs' = [subs EXCEPT ![i] = [@ EXCEPT !.send_requested = TRUE]]
    BY <1>2 DEF FsmMark
  <2>3. subs'[i] = [subs[i] EXCEPT !.send_requested = TRUE]
    BY <2>2 DEF Inv, TypeOK
  <2>4. /\ subs'[i].valid
        /\ subs'[i].send_requested = TRUE
        /\ subs'[i].confirmed = subs[i].confirmed
        /\ subs'[i].lifetime = subs[i].lifetime
    BY <1>2, <2>3, SubscriptionOf DEF Inv, Subscription
  <2>5. \A j \in Sub \ {i} : subs'[j] = subs[j] /\ told'[j] = told[j]
    BY <2>2 DEF Inv, TypeOK, world
  <2>6. Book' = Service!Replaced(Promised(i), Flagged(i, TRUE, told[i]))
    <3>1. told'[i] = told[i] /\ UNCHANGED owner
      BY DEF world
    <3>2. subs[i].valid
      BY <1>2
    <3>3. QED
      BY <2>4, <2>5, <3>1, <3>2, FlagsChange
  <2>7. Flagged(i, TRUE, told[i]) = [Promised(i) EXCEPT !.due = TRUE]
    BY FlagUpdate
  <2>8. Promised(i) \in Book
    BY <1>2, BookIs
  <2>9. Service!ObjectOf(Promised(i)) \in News
    BY <1>2, <2>1, ObjectOfEntry DEF News
  <2>10. UNCHANGED <<val, News>>
    BY DEF FsmMark, world, News
  <2>11. QED
    BY <2>6, <2>7, <2>8, <2>9, <2>10 DEF Service!Mark
<1>3. index \in Sub
  BY DEF Inv, TypeOK
<1>4. QED
  BY <1>1, <1>2, <1>3

LEMMA ClearIsSettle ==
  ASSUME Inv, FsmClear, UNCHANGED world
  PROVE  UNCHANGED <<Book, val, News>> \/ \E s \in Book : Service!Settle(s)
<1>1. UNCHANGED <<Book, val>>
  BY BookKept, SamePromise DEF FsmClear, world
<1>2. CASE ~ (subs[index].valid /\ subs[index].send_requested)
  BY <1>1, <1>2 DEF FsmClear, News
<1>3. CASE subs[index].valid /\ subs[index].send_requested
  <2>1. Promised(index) \in Book /\ index \in Sub
    BY <1>3, BookIs DEF Inv, TypeOK
  <2>2. changed' = [changed EXCEPT ![subs[index].object] = FALSE]
    BY <1>3 DEF FsmClear
  <2>3. News' = News \ {subs[index].object}
    BY <2>2 DEF News, Inv, TypeOK
  <2>4. Service!Settle(Promised(index))
    BY <1>1, <1>3, <2>1, <2>3, ObjectOfEntry DEF Service!Settle, Promised
  <2>5. QED
    BY <2>1, <2>4
<1>4. QED
  BY <1>2, <1>3

LEMMA FreeIsIdle ==
  ASSUME Inv, FsmFree, UNCHANGED world
  PROVE  UNCHANGED <<Book, val, News>>
<1>1. ASSUME NEW j \in Sub
      PROVE  subs'[j].valid = subs[j].valid /\ Promised(j)' = Promised(j)
  <2>1. subs'[j] = subs[j] \/ subs'[j] = [subs[j] EXCEPT !.invokeID = 0]
    BY DEF FsmFree, Inv, TypeOK
  <2>2. /\ subs'[j].valid = subs[j].valid
        /\ subs'[j].confirmed = subs[j].confirmed
        /\ subs'[j].lifetime = subs[j].lifetime
        /\ subs'[j].send_requested = subs[j].send_requested
    BY <2>1, SubscriptionOf DEF Inv, Subscription
  <2>3. QED
    BY <2>2 DEF Promised, world
<1>2. QED
  BY <1>1, BookKept DEF FsmFree, world, News

LEMMA SendIsNotify ==
  ASSUME Inv, NEW sent \in BOOLEAN, NSend(sent)
  PROVE  UNCHANGED <<Book, val, News>> \/ \E s \in Book : Service!Notify(s)
<1>1. index \in Sub
  BY DEF Inv, TypeOK
<1>2. ASSUME NEW i \in Sub, i = index
      PROVE  /\ subs[i].valid /\ subs[i].send_requested
             /\ subs'[i].valid
             /\ subs'[i].send_requested = ~ sent
             /\ subs'[i].confirmed = subs[i].confirmed
             /\ subs'[i].lifetime = subs[i].lifetime
             /\ \A j \in Sub \ {i} : subs'[j] = subs[j]
             /\ UNCHANGED changed
  <2>1. CASE FsmSendUnconfirmed(sent)
    <3>1. /\ subs' = [subs EXCEPT ![i] = [@ EXCEPT !.send_requested = ~ sent]]
          /\ subs[i].valid /\ subs[i].send_requested /\ UNCHANGED changed
      BY <1>2, <2>1 DEF FsmSendUnconfirmed, SendDue
    <3>2. subs'[i] = [subs[i] EXCEPT !.send_requested = ~ sent]
      BY <3>1 DEF Inv, TypeOK
    <3>3. \A j \in Sub \ {i} : subs'[j] = subs[j]
      BY <3>1 DEF Inv, TypeOK
    <3>4. QED
      BY <3>1, <3>2, <3>3, SubscriptionOf DEF Inv, Subscription
  <2>2. ASSUME NEW id \in InvokeID, FsmSendConfirmed(id, sent)
        PROVE  /\ subs[i].valid /\ subs[i].send_requested
               /\ subs'[i].valid
               /\ subs'[i].send_requested = ~ sent
               /\ subs'[i].confirmed = subs[i].confirmed
               /\ subs'[i].lifetime = subs[i].lifetime
               /\ \A j \in Sub \ {i} : subs'[j] = subs[j]
               /\ UNCHANGED changed
    <3>1. /\ subs' = [subs EXCEPT ![i].send_requested = ~ sent,
                                  ![i].invokeID = id]
          /\ subs[i].valid /\ subs[i].send_requested /\ UNCHANGED changed
      BY <1>2, <2>2 DEF FsmSendConfirmed, SendDue
    <3>2. subs'[i] = [subs[i] EXCEPT !.send_requested = ~ sent, !.invokeID = id]
      BY <3>1 DEF Inv, TypeOK
    <3>3. \A j \in Sub \ {i} : subs'[j] = subs[j]
      BY <3>1 DEF Inv, TypeOK
    <3>4. /\ subs'[i].valid = subs[i].valid
          /\ subs'[i].send_requested = ~ sent
          /\ subs'[i].confirmed = subs[i].confirmed
          /\ subs'[i].lifetime = subs[i].lifetime
      <4> DEFINE s == [subs[i] EXCEPT !.send_requested = ~ sent]
      <4>1. s.send_requested = ~ sent /\ s \in Subscription
        BY SubscriptionOf DEF Inv, Subscription
      <4>2. /\ s.valid = subs[i].valid
            /\ s.confirmed = subs[i].confirmed
            /\ s.lifetime = subs[i].lifetime
        BY SubscriptionOf DEF Inv, Subscription
      <4>3. subs'[i] = [s EXCEPT !.invokeID = id]
        BY <3>2
      <4> HIDE DEF s
      <4>4. QED
        BY <4>1, <4>2, <4>3 DEF Subscription
    <3>5. QED
      BY <3>1, <3>3, <3>4
  <2>3. QED
    BY <2>1, <2>2 DEF NSend
<1>3. ASSUME NEW i \in Sub, i = index
      PROVE  /\ told'[i] = IF sent THEN val[subs[i].object] ELSE told[i]
             /\ \A j \in Sub \ {i} : told'[j] = told[j]
             /\ UNCHANGED <<val, owner>>
  <2>1. subs[i].valid
    BY <1>2, <1>3
  <2>2. Addressed(i) = owner[i]
    BY <2>1 DEF Inv, ClientInv, DestIsSubscriber
  <2>3. Notified(sent)
    BY DEF NSend
  <2>4. told' = IF sent THEN [told EXCEPT ![i] = val[subs[i].object]] ELSE told
    BY <1>3, <2>2, <2>3 DEF Notified
  <2>5. QED
    BY <2>3, <2>4 DEF Notified, Inv, NTypeOK
<1>4. ASSUME NEW i \in Sub, i = index
      PROVE  \/ UNCHANGED <<Book, val, News>>
             \/ Service!Notify(Promised(i)) /\ Promised(i) \in Book
  <2>1. UNCHANGED <<val, owner, News>>
    BY <1>2, <1>3, <1>4 DEF News
  <2>2. CASE ~ sent
    <3>1. \A j \in Sub : /\ subs'[j].valid = subs[j].valid
                         /\ subs[j].valid => Promised(j)' = Promised(j)
      <4>1. subs'[i].valid = subs[i].valid /\ Promised(i)' = Promised(i)
        <5>1. subs'[i].send_requested = TRUE /\ subs[i].send_requested = TRUE
          BY <1>2, <1>4, <2>2, SubscriptionOf DEF Inv, Subscription
        <5>2. QED
          BY <1>2, <1>3, <1>4, <2>1, <2>2, <5>1 DEF Promised
      <4>2. \A j \in Sub \ {i} : /\ subs'[j] = subs[j] /\ owner'[j] = owner[j]
                                 /\ told'[j] = told[j]
        BY <1>2, <1>3, <1>4
      <4>3. \A j \in Sub \ {i} : subs'[j].valid = subs[j].valid
                                 /\ Promised(j)' = Promised(j)
        BY <4>2, SamePromise
      <4>4. QED
        BY <4>1, <4>3
    <3>2. Book' = Book
      BY <3>1, BookKept
    <3>3. UNCHANGED <<Book, val, News>>
      BY <2>1, <3>2
    <3>4. QED
      BY <3>3
  <2>3. CASE sent
    <3>1. subs'[i].send_requested = FALSE
      BY <1>2, <1>4, <2>3
    <3>2. told'[i] = val[subs[i].object]
      BY <1>3, <1>4, <2>3
    <3>3. Book' = Service!Replaced(Promised(i),
                    Flagged(i, FALSE, val[subs[i].object]))
      <4>1. /\ subs[i].valid /\ subs'[i].valid
            /\ subs'[i].confirmed = subs[i].confirmed
            /\ subs'[i].lifetime = subs[i].lifetime
            /\ \A j \in Sub \ {i} : subs'[j] = subs[j] /\ told'[j] = told[j]
        BY <1>2, <1>3, <1>4
      <4>2. QED
        BY <2>1, <3>1, <3>2, <4>1, FlagsChange
    <3>4. Promised(i) \in Book
      BY <1>2, <1>4, BookIs
    <3>5. Promised(i).due
          /\ Service!ObjectOf(Promised(i)) = subs[i].object
      BY <1>2, <1>4, ObjectOfEntry DEF Promised
    <3>6. Flagged(i, FALSE, val[subs[i].object])
            = [Promised(i) EXCEPT !.due = FALSE,
                 !.told = val[Service!ObjectOf(Promised(i))]]
      <4> DEFINE due == FALSE
                 v == val[Service!ObjectOf(Promised(i))]
      <4>1. v = val[subs[i].object]
        BY <3>5
      <4> HIDE DEF due, v
      <4>2. Flagged(i, due, v) = [Promised(i) EXCEPT !.due = due, !.told = v]
        <5> DEFINE q == Flagged(i, due, told[i])
        <5>1. Flagged(i, due, v) = [q EXCEPT !.told = v]
          BY DEF Flagged
        <5>2. q = [Promised(i) EXCEPT !.due = due]
          BY FlagUpdate
        <5>3. [q EXCEPT !.told = v]
                = [[Promised(i) EXCEPT !.due = due] EXCEPT !.told = v]
          BY <5>2
        <5>4. QED
          BY <5>1, <5>3
      <4>3. Flagged(i, FALSE, v) = [Promised(i) EXCEPT !.due = FALSE, !.told = v]
        BY <4>2 DEF due
      <4>4. QED
        BY <4>1, <4>3 DEF v
    <3>7. QED
      BY <2>1, <3>3, <3>4, <3>5, <3>6 DEF Service!Notify
  <2>4. QED
    BY <2>2, <2>3
<1>5. QED
  BY <1>1, <1>4

LEMMA StepService ==
  ASSUME DistinctSources
  PROVE  Inv /\ [NNext]_nvars => [Service!Next]_(Service!vars)
<1> SUFFICES ASSUME Inv, [NNext]_nvars PROVE [Service!Next]_(Service!vars)
  OBVIOUS
<1>1. ASSUME UNCHANGED <<Book, val, News>>
      PROVE  UNCHANGED Service!vars
  BY <1>1 DEF Service!vars
<1>2. ASSUME UNCHANGED <<subs, changed, val, owner, told>>
      PROVE  UNCHANGED Service!vars
  BY <1>1, <1>2, IdleStep
<1>3. CASE NSubscribe
  <2>1. ASSUME NEW i \in Sub, NEW r \in Request, NEW c \in BOOLEAN,
               NEW l \in Lifetime,
               Resubscribe(i, r, c, l) \/ Subscribe(i, r, c, l),
               owner' = [owner EXCEPT ![i] = r],
               told' = [told EXCEPT ![i] = NoValue], UNCHANGED val
        PROVE  Service!Accept(r)
    BY <2>1, SubscribeIsAccept, RenewalIsAccept
  <2>2. ASSUME NEW i \in Sub, NEW r \in Request, Cancel(i, r), UNCHANGED world
        PROVE  Service!Cancel(r)
    BY <2>2, CancelIsCancel
  <2>3. QED
    BY <1>3, <2>1, <2>2 DEF NSubscribe, Service!Next
<1>4. ASSUME NEW o \in Object, NEW v \in Value, Write(o, v)
      PROVE  Service!Next
  BY <1>4, WriteIsWrite DEF Service!Next
<1>5. ASSUME NEW id \in InvokeID, NAnswer(id)
      PROVE  UNCHANGED Service!vars
  BY <1>2, <1>5 DEF NAnswer, Answer, vars
<1>6. ASSUME NEW k \in Slot, NTsmTimer(k)
      PROVE  UNCHANGED Service!vars
  BY <1>2, <1>6 DEF NTsmTimer, TsmTimer
<1>7. CASE NTimer
  BY <1>7, TimerIsSecond DEF Service!Next
<1>8. CASE NFsm
  <2>1. CASE (FsmIdle \/ FsmSendNothing) /\ UNCHANGED world
    BY <1>2, <2>1 DEF FsmIdle, FsmSendNothing, world
  <2>2. CASE FsmMark /\ UNCHANGED world
    BY <1>1, <2>2, MarkIsMark DEF Service!Next
  <2>3. CASE FsmClear /\ UNCHANGED world
    BY <1>1, <2>3, ClearIsSettle DEF Service!Next
  <2>4. CASE FsmFree /\ UNCHANGED world
    BY <1>1, <2>4, FreeIsIdle
  <2>5. ASSUME NEW sent \in BOOLEAN, NSend(sent)
        PROVE  [Service!Next]_(Service!vars)
    BY <1>1, <2>5, SendIsNotify DEF Service!Next
  <2>6. QED
    BY <1>8, <2>1, <2>2, <2>3, <2>4, <2>5 DEF NFsm
<1>9. CASE UNCHANGED nvars
  BY <1>2, <1>9 DEF nvars, vars, world
<1>10. QED
  BY <1>3, <1>4, <1>5, <1>6, <1>7, <1>8, <1>9 DEF NNext, NCovTask

(* Where the stack can tell the sources of the requests apart, each client *)
(* has the service it was promised, for any number of clients, entries,    *)
(* addresses, transactions and objects: requests only meet the             *)
(* subscription of their own client, and what is sent is the value the     *)
(* object has, because the object was written or the subscription made.    *)
THEOREM ServiceKept ==
  ASSUME DistinctSources
  PROVE  NSafety => ImplementsService
<1>1. NInit => Service!Init
  <2> SUFFICES ASSUME NInit PROVE Service!Init
    OBVIOUS
  <2>1. Book = {} /\ News = {}
    BY DEF NInit, Init, Book, News
  <2>2. QED
    BY <2>1 DEF NInit, Service!Init
<1>2. Inv /\ [NNext]_nvars => [Service!Next]_(Service!vars)
  BY StepService
<1>3. NSafety => []Inv
  <2>1. TypeOK /\ AddressInv /\ ClientInv /\ DestIsSubscriber /\ NTypeOK => Inv
    BY DEF Inv
  <2>2. QED
    BY <2>1, SubscriberIsNotified, NotifyTypeCorrect, PTL
<1>4. QED
  BY <1>1, <1>2, <1>3, PTL DEF NSafety, ImplementsService, Service!Spec
=============================================================================
