---------------------------- MODULE OutboundProofs ----------------------------
(***************************************************************************)
(* What a result of Publish says, for any number of publishers, calls,     *)
(* fields and losses.  The stage a message has come to in paho is the      *)
(* middle term: what arrived and what was returned are both tied to it.    *)
(***************************************************************************)
EXTENDS Outbound, TLAPS

USE OutboundAssumption

\* A token says what has become of the message of the call that awaits it.
TokenHonest ==
  \A p \in Publishers :
    /\ pc[p] = "await" <=> token[p] # "none"
    /\ token[p] = "failed" => link = "closed"
    /\ token[p] = "ok" /\ payload[p] = "data" => stage[<<p, Call(p)>>] = "done"
    /\ token[p] = "noIds" => payload[p] = "data" /\ stage[<<p, Call(p)>>] = "none"

\* Only a call that has come to its token has handed its message over.
NotYetHandedOver ==
  \A p \in Publishers : \A n \in Calls(p) :
    n > Call(p) \/ (n = Call(p) /\ (pc[p] # "await" \/ payload[p] = "report"))
      => stage[<<p, n>>] = "none"

\* The broker has what paho knows it to have, and nothing paho was not given.
StageHonest ==
  \A p \in Publishers : \A n \in Calls(p) :
    /\ stage[<<p, n>>] \in {"taken", "released", "done"} => Took(p, n)
    /\ Took(p, n) => stage[<<p, n>>] # "none"

\* A result says what has become of the message.
ResultHonest ==
  \A p \in Publishers : \A n \in Calls(p) :
    /\ Returned(p, n, "nil") => stage[<<p, n>>] = "done"
    /\ Returned(p, n, "notConnected") \/ Returned(p, n, "noIds")
         => stage[<<p, n>>] = "none"
    /\ Returned(p, n, "notConnected") \/ Returned(p, n, "failed")
         => link = "closed"

ClosedWhenDone == link = "closed" => rootDone

IInv == /\ TypeOK /\ ClosedWhenDone /\ TokenHonest /\ NotYetHandedOver
        /\ StageHonest /\ ResultHonest /\ ConfirmedInOrder

-----------------------------------------------------------------------------
(* Lemmas about single pieces of state.                                    *)

\* A message is a call of a publisher.
LEMMA MessagePairs ==
  ASSUME NEW p \in Publishers, NEW n \in Calls(p)
  PROVE  <<p, n>> \in Messages
BY DEF Messages

\* The converse, with the two parts of a message named.
LEMMA MessageParts ==
  ASSUME NEW m \in Messages
  PROVE  m = <<m[1], m[2]>> /\ m[1] \in Publishers /\ m[2] \in Calls(m[1])
BY DEF Messages

\* Setting the stage of one message leaves the others as they are.
LEMMA StageUpdate ==
  ASSUME stage \in [Messages -> Stages], NEW s \in Stages,
         NEW p \in Publishers, NEW n \in Calls(p),
         stage' = [stage EXCEPT ![<<p, n>>] = s]
  PROVE  /\ stage' \in [Messages -> Stages]
         /\ \A q \in Publishers : \A k \in Calls(q) :
              stage'[<<q, k>>] = IF q = p /\ k = n THEN s ELSE stage[<<q, k>>]
<1>1. stage' \in [Messages -> Stages]
  OBVIOUS
<1>2. ASSUME NEW q \in Publishers, NEW k \in Calls(q)
      PROVE  stage'[<<q, k>>] = IF q = p /\ k = n THEN s ELSE stage[<<q, k>>]
  <2>1. <<q, k>> \in Messages
    BY MessagePairs
  <2>2. QED
    BY <2>1
<1>3. QED
  BY <1>1, <1>2

\* A call that returns leaves the results of the earlier calls as they are, and
\* its number to its own.
LEMMA ResultUpdate ==
  ASSUME outcome \in [Publishers -> Seq(Results)],
         NEW p \in Publishers, NEW r \in Results,
         outcome' = [outcome EXCEPT ![p] = Append(@, r)]
  PROVE  /\ outcome' \in [Publishers -> Seq(Results)]
         /\ Call(p)' = Call(p) + 1
         /\ \A q \in Publishers : q # p => Call(q)' = Call(q)
         /\ \A q \in Publishers : \A n \in Nat \ {0} : \A result :
              Returned(q, n, result)'
                <=> Returned(q, n, result) \/ (q = p /\ n = Call(p) /\ result = r)
<1>1. \A q \in Publishers : outcome'[q] = IF q = p THEN Append(outcome[p], r) ELSE outcome[q]
  OBVIOUS
<1>2. outcome[p] \in Seq(Results)
  OBVIOUS
<1>3. /\ Append(outcome[p], r) \in Seq(Results)
      /\ Len(Append(outcome[p], r)) = Len(outcome[p]) + 1
      /\ \A n \in 1 .. Len(outcome[p]) : Append(outcome[p], r)[n] = outcome[p][n]
      /\ Append(outcome[p], r)[Len(outcome[p]) + 1] = r
  BY <1>2
<1>4. outcome' \in [Publishers -> Seq(Results)]
  BY <1>3
<1>5. Call(p)' = Call(p) + 1 /\ \A q \in Publishers : q # p => Call(q)' = Call(q)
  BY <1>1, <1>3 DEF Call
<1>6. ASSUME NEW q \in Publishers, NEW n \in Nat \ {0}, NEW result
      PROVE  Returned(q, n, result)'
               <=> Returned(q, n, result) \/ (q = p /\ n = Call(p) /\ result = r)
  BY <1>1, <1>2, <1>3 DEF Call, Returned
<1>7. QED
  BY <1>4, <1>5, <1>6

\* The broker takes one message in: whatever it had it still has, in its place.
LEMMA ArrivalUpdate ==
  ASSUME arrived \in [Publishers -> Seq(Nat)],
         NEW p \in Publishers, NEW n \in Nat,
         arrived' = [arrived EXCEPT ![p] = Append(@, n)]
  PROVE  /\ arrived' \in [Publishers -> Seq(Nat)]
         /\ Len(arrived'[p]) = Len(arrived[p]) + 1
         /\ arrived'[p][Len(arrived[p]) + 1] = n
         /\ \A k \in 1 .. Len(arrived[p]) : arrived'[p][k] = arrived[p][k]
         /\ \A q \in Publishers : q # p => arrived'[q] = arrived[q]
         /\ \A q \in Publishers : \A k :
              Took(q, k)' <=> Took(q, k) \/ (q = p /\ k = n)
<1>1. arrived[p] \in Seq(Nat)
  OBVIOUS
<1>2. \A q \in Publishers : arrived'[q] = IF q = p THEN Append(arrived[p], n) ELSE arrived[q]
  OBVIOUS
<1>3. /\ Append(arrived[p], n) \in Seq(Nat)
      /\ Len(Append(arrived[p], n)) = Len(arrived[p]) + 1
      /\ \A k \in 1 .. Len(arrived[p]) : Append(arrived[p], n)[k] = arrived[p][k]
      /\ Append(arrived[p], n)[Len(arrived[p]) + 1] = n
  BY <1>1
<1>4. arrived' \in [Publishers -> Seq(Nat)]
  BY <1>3
<1>5. ASSUME NEW q \in Publishers, NEW k
      PROVE  Took(q, k)' <=> Took(q, k) \/ (q = p /\ k = n)
  <2>1. CASE q # p
    BY <1>2, <2>1 DEF Took
  <2>2. CASE q = p
    <3>1. \A j \in 1 .. Len(arrived[p]) + 1 :
            arrived'[p][j] = IF j = Len(arrived[p]) + 1 THEN n ELSE arrived[p][j]
      BY <1>1, <1>2, <1>3
    <3>2. Len(arrived'[p]) = Len(arrived[p]) + 1 /\ Len(arrived[p]) \in Nat
      BY <1>1, <1>2, <1>3
    <3>3. QED
      BY <2>2, <3>1, <3>2 DEF Took
  <2>3. QED
    BY <2>1, <2>2
<1>6. QED
  BY <1>2, <1>3, <1>4, <1>5

\* What the definitions about results and arrivals read does not change when
\* outcome and arrived do not.
LEMMA NothingReturned ==
  ASSUME UNCHANGED outcome
  PROVE  /\ \A p \in Publishers : Call(p)' = Call(p)
         /\ \A p \in Publishers : \A n, r : Returned(p, n, r)' <=> Returned(p, n, r)
BY DEF Call, Returned

LEMMA NothingArrived ==
  ASSUME UNCHANGED arrived
  PROVE  \A p \in Publishers : \A n : Took(p, n)' <=> Took(p, n)
BY DEF Took

\* The number of a call that runs is one the publisher has.
LEMMA CallIsNumber ==
  ASSUME TypeOK, NEW p \in Publishers
  PROVE  /\ Call(p) \in Nat \ {0} /\ Len(outcome[p]) = Call(p) - 1
         /\ pc[p] # "idle" => Call(p) \in Calls(p)
         /\ Calls(p) \subseteq Nat \ {0}
BY DEF TypeOK, Call, Calls

-----------------------------------------------------------------------------
(* The steps.                                                              *)

LEMMA InitIInv == Init => IInv
<1> SUFFICES ASSUME Init PROVE IInv
  OBVIOUS
<1> USE DEF Init
<1>1. \A p \in Publishers : Call(p) = 1
  BY DEF Call
<1>2. TypeOK
  <2>1. outcome \in [Publishers -> Seq(Results)] /\ arrived \in [Publishers -> Seq(Nat)]
    OBVIOUS
  <2>2. \A p \in Publishers : /\ Len(outcome[p]) <= MaxCalls[p] /\ pc[p] = "idle"
                              /\ arrived[p] \in Seq(Calls(p))
    OBVIOUS
  <2>3. stage \in [Messages -> Stages]
    BY DEF Stages
  <2>4. rootDone \in BOOLEAN
    OBVIOUS
  <2>5. QED
    BY <2>1, <2>2, <2>3, <2>4 DEF TypeOK
<1>3. ClosedWhenDone /\ TokenHonest
  BY DEF ClosedWhenDone, TokenHonest
<1>4. NotYetHandedOver
  BY MessagePairs DEF NotYetHandedOver
<1>5. StageHonest
  <2>1. \A p \in Publishers : Len(arrived[p]) = 0
    OBVIOUS
  <2>2. \A p \in Publishers : \A n : ~Took(p, n)
    BY <2>1 DEF Took
  <2>3. \A p \in Publishers : \A n \in Calls(p) : stage[<<p, n>>] = "none"
    BY MessagePairs
  <2>4. QED
    BY <2>2, <2>3 DEF StageHonest
<1>6. ResultHonest
  BY DEF ResultHonest, Returned, Calls
<1>7. ConfirmedInOrder
  BY DEF ConfirmedInOrder
<1>8. QED
  BY <1>2, <1>3, <1>4, <1>5, <1>6, <1>7 DEF IInv

\* A call on its way to paho: nothing but its own variables changes.
LEMMA InCall ==
  ASSUME IInv, NEW p \in Publishers,
         Publish(p) \/ FieldFails(p) \/ FieldsDone(p) \/ Connected(p)
  PROVE  IInv'
<1>1. /\ UNCHANGED <<link, rootDone, losses, token, outcome, stage, arrived>>
      /\ pc[p] # "await" /\ pc'[p] \in {"convert", "check", "send"}
      /\ pc' = [pc EXCEPT ![p] = pc'[p]]
      /\ \A q \in Publishers : q # p => payload'[q] = payload[q]
      /\ Call(p) \in Calls(p)
  BY CallIsNumber DEF Publish, FieldFails, FieldsDone, Connected, Goes, IInv, TypeOK
<1>2. bad' \in [Publishers -> 0 .. MaxBad] /\ payload' \in [Publishers -> {"report", "data"}]
  <2>1. CASE Publish(p)
    BY <2>1 DEF Publish, IInv, TypeOK
  <2>2. CASE FieldFails(p)
    <3>1. bad[p] - 1 \in 0 .. MaxBad
      BY <2>2 DEF FieldFails, IInv, TypeOK
    <3>2. QED
      BY <2>2, <3>1 DEF FieldFails, IInv, TypeOK
  <2>3. CASE FieldsDone(p) \/ Connected(p)
    BY <2>3 DEF FieldsDone, Connected, IInv, TypeOK
  <2>4. QED
    BY <2>1, <2>2, <2>3
<1> USE NothingReturned, NothingArrived
<1>3. TypeOK'
  <2>1. pc' \in [Publishers -> {"idle", "convert", "check", "send", "await"}]
    BY <1>1 DEF IInv, TypeOK
  <2>2. \A q \in Publishers : pc'[q] # "idle" => Call(q)' \in Calls(q)
    BY <1>1, CallIsNumber DEF IInv, TypeOK
  <2>3. QED
    BY <1>1, <1>2, <2>1, <2>2 DEF IInv, TypeOK
<1>4. TokenHonest'
  BY <1>1 DEF IInv, TokenHonest, TypeOK
<1>5. NotYetHandedOver'
  BY <1>1 DEF IInv, NotYetHandedOver, TypeOK
<1>6. (ClosedWhenDone /\ StageHonest /\ ResultHonest /\ ConfirmedInOrder)'
  BY <1>1 DEF IInv, ClosedWhenDone, StageHonest, ResultHonest, ConfirmedInOrder
<1>7. QED
  BY <1>3, <1>4, <1>5, <1>6 DEF IInv

\* A call hands a report or its data to paho.
LEMMA Sends ==
  ASSUME IInv, NEW p \in Publishers, SendReport(p) \/ SendData(p)
  PROVE  IInv'
<1>1. /\ UNCHANGED <<link, rootDone, losses, bad, payload, outcome, arrived>>
      /\ pc[p] = "send" /\ pc' = [pc EXCEPT ![p] = "await"]
      /\ Call(p) \in Calls(p)
  BY CallIsNumber DEF SendReport, SendData, Goes, IInv, TypeOK
<1>2. stage[<<p, Call(p)>>] = "none"
  BY <1>1 DEF IInv, NotYetHandedOver
<1>3. PICK t \in {"wait", "ok", "failed", "noIds"}, s \in Stages :
        /\ token' = [token EXCEPT ![p] = t]
        /\ stage' = [stage EXCEPT ![<<p, Call(p)>>] = s]
        /\ t = "failed" => link = "closed"
        /\ payload[p] = "report" => t # "noIds" /\ s = "none"
        /\ payload[p] = "data" => t # "ok"
        /\ t = "noIds" => s = "none"
        /\ s \in {"none", "wire", "stored"}
  <2>1. stage = [stage EXCEPT ![<<p, Call(p)>>] = "none"]
    BY <1>1, <1>2, MessagePairs DEF IInv, TypeOK
  <2>2. link \in {"up", "reconnecting", "closed"}
    BY DEF IInv, TypeOK
  <2>3. CASE SendReport(p)
    <3>1. PICK t \in {"wait", "ok", "failed"} :
            token' = [token EXCEPT ![p] = t] /\ (t = "failed" => link = "closed")
      <4>1. CASE link = "closed"
        BY <2>3, <4>1 DEF SendReport, SetToken
      <4>2. CASE link = "reconnecting"
        BY <2>3, <4>2 DEF SendReport, SetToken
      <4>3. CASE link = "up"
        BY <2>3, <4>3 DEF SendReport, SetToken
      <4>4. QED
        BY <2>2, <4>1, <4>2, <4>3
    <3>2. payload[p] = "report" /\ stage' = stage
      BY <2>3 DEF SendReport
    <3>3. QED
      BY <2>1, <3>1, <3>2 DEF Stages
  <2>4. CASE SendData(p)
    <3>1. PICK t \in {"wait", "failed", "noIds"}, s \in {"none", "wire", "stored"} :
            /\ token' = [token EXCEPT ![p] = t] /\ (t = "failed" => link = "closed")
            /\ stage' = [stage EXCEPT ![<<p, Call(p)>>] = s]
            /\ t = "noIds" => s = "none"
      <4>1. CASE link = "closed" \/ Cardinality(UnderWay) >= MessageIds
        <5>1. PICK t \in {"failed", "noIds"} :
                token' = [token EXCEPT ![p] = t] /\ (t = "failed" => link = "closed")
          BY <2>4, <4>1 DEF SendData, SetToken
        <5>2. stage' = stage
          BY <2>4, <4>1 DEF SendData
        <5>3. QED
          BY <2>1, <5>1, <5>2
      <4>2. CASE ~(link = "closed" \/ Cardinality(UnderWay) >= MessageIds)
        BY <2>4, <4>2 DEF SendData, SetToken
      <4>3. QED
        BY <4>1, <4>2
    <3>2. payload[p] = "data"
      BY <2>4 DEF SendData
    <3>3. QED
      BY <3>1, <3>2 DEF Stages
  <2>5. QED
    BY <2>3, <2>4
<1>4. /\ stage' \in [Messages -> Stages]
      /\ \A q \in Publishers : \A k \in Calls(q) :
           stage'[<<q, k>>] = IF q = p /\ k = Call(p) THEN s ELSE stage[<<q, k>>]
  BY <1>1, <1>3, StageUpdate DEF IInv, TypeOK
<1> USE NothingReturned, NothingArrived
<1>5. TypeOK'
  <2>1. /\ pc' \in [Publishers -> {"idle", "convert", "check", "send", "await"}]
        /\ token' \in [Publishers -> {"none", "wait", "ok", "failed", "noIds"}]
    BY <1>1, <1>3 DEF IInv, TypeOK
  <2>2. \A q \in Publishers : pc'[q] # "idle" => Call(q)' \in Calls(q)
    BY <1>1, CallIsNumber DEF IInv, TypeOK
  <2>3. QED
    BY <1>1, <1>4, <2>1, <2>2 DEF IInv, TypeOK
<1>6. TokenHonest'
  <2> SUFFICES ASSUME NEW q \in Publishers
               PROVE  (/\ pc[q] = "await" <=> token[q] # "none"
                       /\ token[q] = "failed" => link = "closed"
                       /\ token[q] = "ok" /\ payload[q] = "data"
                            => stage[<<q, Call(q)>>] = "done"
                       /\ token[q] = "noIds" => payload[q] = "data"
                                                /\ stage[<<q, Call(q)>>] = "none")'
    BY DEF TokenHonest
  <2>1. CASE q = p
    BY <1>1, <1>3, <1>4, <2>1 DEF IInv, TypeOK
  <2>2. CASE q # p
    <3>1. token[q] # "none" => Call(q) \in Calls(q)
      BY CallIsNumber DEF IInv, TokenHonest
    <3>2. QED
      BY <1>1, <1>3, <1>4, <2>2, <3>1 DEF IInv, TokenHonest, TypeOK
  <2>3. QED
    BY <2>1, <2>2
<1>7. NotYetHandedOver'
  <2> SUFFICES ASSUME NEW q \in Publishers, NEW k \in Calls(q),
                      (k > Call(q) \/ (k = Call(q) /\ (pc[q] # "await" \/ payload[q] = "report")))'
               PROVE  stage'[<<q, k>>] = "none"
    BY DEF NotYetHandedOver
  <2>1. k > Call(q) \/ (k = Call(q) /\ (pc'[q] # "await" \/ payload[q] = "report"))
    BY <1>1
  <2>2. CASE q = p /\ k = Call(p)
    BY <1>1, <1>3, <1>4, <2>1, <2>2, CallIsNumber DEF IInv, TypeOK
  <2>3. CASE ~(q = p /\ k = Call(p))
    BY <1>1, <1>4, <2>1, <2>3 DEF IInv, NotYetHandedOver, TypeOK
  <2>4. QED
    BY <2>2, <2>3
<1>8. StageHonest'
  <2> SUFFICES ASSUME NEW q \in Publishers, NEW k \in Calls(q)
               PROVE  /\ stage'[<<q, k>>] \in {"taken", "released", "done"} => Took(q, k)
                      /\ Took(q, k) => stage'[<<q, k>>] # "none"
    BY <1>1 DEF StageHonest
  <2>1. /\ stage[<<q, k>>] \in {"taken", "released", "done"} => Took(q, k)
        /\ Took(q, k) => stage[<<q, k>>] # "none"
    BY DEF IInv, StageHonest
  <2>2. QED
    BY <1>2, <1>3, <1>4, <2>1
<1>9. ResultHonest'
  <2>1. \A r : ~Returned(p, Call(p), r)
    BY CallIsNumber DEF Returned, IInv
  <2> SUFFICES ASSUME NEW q \in Publishers, NEW k \in Calls(q)
               PROVE  /\ Returned(q, k, "nil") => stage'[<<q, k>>] = "done"
                      /\ Returned(q, k, "notConnected") \/ Returned(q, k, "noIds")
                           => stage'[<<q, k>>] = "none"
                      /\ Returned(q, k, "notConnected") \/ Returned(q, k, "failed")
                           => link = "closed"
    BY <1>1 DEF ResultHonest
  <2>2. QED
    BY <1>4, <2>1 DEF IInv, ResultHonest
<1>10. (ClosedWhenDone /\ ConfirmedInOrder)'
  BY <1>1 DEF IInv, ClosedWhenDone, ConfirmedInOrder
<1>11. QED
  BY <1>5, <1>6, <1>7, <1>8, <1>9, <1>10 DEF IInv

\* Messenger.Publish returns, from its check or from its wait for the token.
LEMMA Returns ==
  ASSUME IInv, NEW p \in Publishers, NEW r \in Results,
         MessengerReturns(p, r), UNCHANGED <<stage, arrived>>,
         pc[p] \in {"check", "await"},
         payload[p] = "data" /\ r = "nil" => stage[<<p, Call(p)>>] = "done",
         payload[p] = "data" /\ r \in {"notConnected", "noIds"}
           => stage[<<p, Call(p)>>] = "none",
         r \in {"notConnected", "failed"} => link = "closed"
  PROVE  IInv'
<1>1. /\ UNCHANGED <<link, rootDone, losses, bad, payload, stage, arrived>>
      /\ token' = [token EXCEPT ![p] = "none"]
      /\ Call(p) \in Calls(p)
  BY CallIsNumber DEF MessengerReturns, IInv
<1>2. /\ \A q \in Publishers : q # p => pc'[q] = pc[q] /\ token'[q] = token[q]
      /\ pc'[p] \in {"idle", "convert"} /\ token'[p] = "none"
      /\ pc' \in [Publishers -> {"idle", "convert", "check", "send", "await"}]
      /\ token' \in [Publishers -> {"none", "wait", "ok", "failed", "noIds"}]
  BY <1>1 DEF MessengerReturns, IInv, TypeOK
<1> USE NothingArrived
<1>3. CASE payload[p] = "report"
  <2>1. UNCHANGED outcome
    BY <1>3 DEF MessengerReturns
  <2> USE NothingReturned
  <2>2. TypeOK'
    <3>1. \A q \in Publishers : pc'[q] # "idle" => Call(q)' \in Calls(q)
      BY <1>1, <1>2, <2>1 DEF IInv, TypeOK
    <3>2. QED
      BY <1>1, <1>2, <2>1, <3>1 DEF IInv, TypeOK
  <2>3. TokenHonest'
    BY <1>1, <1>2, <2>1 DEF IInv, TokenHonest
  <2>4. NotYetHandedOver'
    BY <1>1, <1>2, <1>3, <2>1 DEF IInv, NotYetHandedOver
  <2>5. (ClosedWhenDone /\ StageHonest /\ ResultHonest /\ ConfirmedInOrder)'
    BY <1>1, <2>1 DEF IInv, ClosedWhenDone, StageHonest, ResultHonest, ConfirmedInOrder
  <2>6. QED
    BY <2>2, <2>3, <2>4, <2>5 DEF IInv
<1>4. CASE payload[p] = "data"
  <2>1. /\ outcome' = [outcome EXCEPT ![p] = Append(@, r)]
        /\ pc'[p] = "idle"
    BY <1>4 DEF MessengerReturns, IInv, TypeOK
  <2>2. /\ outcome' \in [Publishers -> Seq(Results)]
        /\ Call(p)' = Call(p) + 1
        /\ \A q \in Publishers : q # p => Call(q)' = Call(q)
        /\ \A q \in Publishers : \A n \in Nat \ {0} : \A result :
             Returned(q, n, result)'
               <=> Returned(q, n, result) \/ (q = p /\ n = Call(p) /\ result = r)
    BY <2>1, ResultUpdate DEF IInv, TypeOK
  <2>3. TypeOK'
    <3>1. \A q \in Publishers : /\ Len(outcome'[q]) <= MaxCalls[q]
                                /\ pc'[q] # "idle" => Call(q)' \in Calls(q)
      <4>1. ASSUME NEW q \in Publishers, q # p
            PROVE  outcome'[q] = outcome[q]
        BY <2>1, <4>1 DEF IInv, TypeOK
      <4>2. Len(outcome'[p]) = Call(p)
        BY <2>1 DEF Call, IInv, TypeOK
      <4>3. QED
        BY <1>1, <1>2, <2>1, <2>2, <4>1, <4>2 DEF IInv, TypeOK, Calls
    <3>2. QED
      BY <1>1, <1>2, <2>2, <3>1 DEF IInv, TypeOK
  <2>4. TokenHonest'
    BY <1>1, <1>2, <2>2 DEF IInv, TokenHonest
  <2>5. NotYetHandedOver'
    <3> SUFFICES ASSUME NEW q \in Publishers, NEW k \in Calls(q),
                        (k > Call(q) \/ (k = Call(q) /\ (pc[q] # "await" \/ payload[q] = "report")))'
                 PROVE  stage[<<q, k>>] = "none"
      BY <1>1 DEF NotYetHandedOver
    <3>1. k > Call(q) \/ (k = Call(q) /\ (pc[q] # "await" \/ payload[q] = "report"))
      <4>1. k \in Nat /\ Call(p) \in Nat /\ payload'[q] = payload[q]
        BY <1>1, CallIsNumber DEF IInv
      <4>2. CASE q = p
        BY <2>2, <4>1, <4>2
      <4>3. CASE q # p
        BY <1>2, <2>2, <4>1, <4>3
      <4>4. QED
        BY <4>2, <4>3
    <3>2. QED
      BY <3>1 DEF IInv, NotYetHandedOver
  <2>6. ResultHonest'
    <3> SUFFICES ASSUME NEW q \in Publishers, NEW k \in Calls(q)
                 PROVE  /\ Returned(q, k, "nil")' => stage[<<q, k>>] = "done"
                        /\ Returned(q, k, "notConnected")' \/ Returned(q, k, "noIds")'
                             => stage[<<q, k>>] = "none"
                        /\ Returned(q, k, "notConnected")' \/ Returned(q, k, "failed")'
                             => link = "closed"
      BY <1>1 DEF ResultHonest
    <3>1. k \in Nat \ {0}
      BY CallIsNumber DEF IInv
    <3>2. QED
      BY <1>4, <2>2, <3>1 DEF IInv, ResultHonest
  <2>7. (ClosedWhenDone /\ StageHonest)'
    BY <1>1 DEF IInv, ClosedWhenDone, StageHonest
  <2>8. ConfirmedInOrder'
    <3> SUFFICES ASSUME NEW q \in Publishers,
                        NEW i \in 1 .. Len(arrived[q]), NEW k \in 1 .. Len(arrived[q]),
                        i < k, arrived[q][k] < arrived[q][i]
                 PROVE  ~Returned(q, arrived[q][k], "nil")'
      BY <1>1 DEF ConfirmedInOrder
    <3>1. /\ arrived[q][k] \in Calls(q) /\ arrived[q][i] \in Calls(q)
          /\ arrived[q][k] \in Nat \ {0}
      <4>1. arrived[q] \in Seq(Calls(q))
        BY DEF IInv, TypeOK
      <4>2. QED
        BY <4>1, CallIsNumber DEF IInv
    <3>2. ~Returned(q, arrived[q][k], "nil")
      BY DEF IInv, ConfirmedInOrder
    <3>3. ASSUME q = p, arrived[q][k] = Call(p) PROVE FALSE
      <4>1. Took(q, arrived[q][i])
        BY DEF Took
      <4>2. stage[<<q, arrived[q][i]>>] # "none"
        BY <3>1, <4>1 DEF IInv, StageHonest
      <4>3. QED
        BY <3>1, <3>3, <4>2 DEF IInv, NotYetHandedOver
    <3>4. QED
      BY <2>2, <3>1, <3>2, <3>3
  <2>9. QED
    BY <2>3, <2>4, <2>5, <2>6, <2>7, <2>8 DEF IInv
<1>5. QED
  BY <1>3, <1>4 DEF IInv, TypeOK

\* The three ways to return meet the conditions of the lemma.
LEMMA ReturnSteps ==
  ASSUME IInv, NEW p \in Publishers,
         NotConnected(p) \/ TokenCompletes(p) \/ TimesOut(p)
  PROVE  IInv'
<1>1. CASE NotConnected(p)
  <2>1. link = "closed" /\ pc[p] = "check"
    BY <1>1 DEF NotConnected, IsConnected
  <2>2. stage[<<p, Call(p)>>] = "none"
    BY <2>1, CallIsNumber DEF IInv, NotYetHandedOver
  <2>3. QED
    BY <1>1, <2>1, <2>2, Returns DEF NotConnected, Results
<1>2. CASE TokenCompletes(p)
  <2>1. PICK r \in {"nil", "failed", "noIds"} :
          /\ MessengerReturns(p, r)
          /\ r = "nil" => token[p] = "ok"
          /\ r # "nil" => token[p] = r
    <3>1. token[p] \in {"ok", "failed", "noIds"}
      BY <1>2 DEF TokenCompletes, IInv, TypeOK, TokenHonest
    <3>2. QED
      BY <1>2, <3>1 DEF TokenCompletes
  <2>2. QED
    BY <1>2, <2>1, Returns DEF TokenCompletes, IInv, TokenHonest, Results
<1>3. CASE TimesOut(p)
  BY <1>3, Returns DEF TimesOut, Results
<1>4. QED
  BY <1>1, <1>2, <1>3

\* A message moves on between paho and the broker.
LEMMA NetworkSteps ==
  ASSUME IInv, NEW p \in Publishers, NEW n \in Calls(p), NetworkStep(p, n)
  PROVE  IInv'
<1>1. /\ UNCHANGED <<link, rootDone, losses, pc, bad, payload, outcome>>
      /\ link = "up" /\ n \in Nat
      /\ stage[<<p, n>>] \notin {"none", "done"}
  BY CallIsNumber DEF NetworkStep, Resumes, BrokerTakes, Received, Completed, Moves, IInv
<1>2. PICK s \in {"wire", "taken", "released", "done"} :
        /\ stage' = [stage EXCEPT ![<<p, n>>] = s]
        /\ BrokerTakes(p, n) <=> s = "taken"
        /\ Completed(p, n) <=> s = "done"
        /\ s \in {"released", "done"} => stage[<<p, n>>] \in {"taken", "released"}
  <2>1. <<p, n>> \in Messages /\ stage[<<p, n>>] = stage[<<p, n>>]
    BY MessagePairs
  <2>2. \A s \in Stages : stage' = [stage EXCEPT ![<<p, n>>] = s] => stage'[<<p, n>>] = s
    BY <2>1 DEF IInv, TypeOK
  <2>3. QED
    BY <2>2 DEF NetworkStep, Resumes, BrokerTakes, Received, Completed, Moves, Stages
<1>3. /\ stage' \in [Messages -> Stages]
      /\ \A q \in Publishers : \A k \in Calls(q) :
           stage'[<<q, k>>] = IF q = p /\ k = n THEN s ELSE stage[<<q, k>>]
  <2>1. s \in Stages /\ stage \in [Messages -> Stages]
    BY DEF IInv, TypeOK, Stages
  <2>2. stage' = [stage EXCEPT ![<<p, n>>] = s]
    BY <1>2
  <2>3. QED
    BY <2>1, <2>2, StageUpdate
<1>4. \/ UNCHANGED token
      \/ /\ token' = [token EXCEPT ![p] = "ok"]
         /\ pc[p] = "await" /\ payload[p] = "data" /\ n = Call(p) /\ s = "done"
  BY <1>2 DEF NetworkStep, Resumes, BrokerTakes, Received, Completed
<1>5. \/ UNCHANGED arrived /\ s # "taken"
      \/ arrived' = [arrived EXCEPT ![p] = Append(@, n)] /\ s = "taken"
  BY <1>2 DEF NetworkStep, Resumes, BrokerTakes, Received, Completed
<1>6. /\ arrived' \in [Publishers -> Seq(Nat)]
      /\ \A q \in Publishers : \A k :
           Took(q, k)' <=> Took(q, k) \/ (s = "taken" /\ q = p /\ k = n)
  <2>1. CASE UNCHANGED arrived /\ s # "taken"
    BY <2>1, NothingArrived DEF IInv, TypeOK
  <2>2. CASE arrived' = [arrived EXCEPT ![p] = Append(@, n)] /\ s = "taken"
    BY <1>1, <2>2, ArrivalUpdate DEF IInv, TypeOK
  <2>3. QED
    BY <1>5, <2>1, <2>2
<1> USE NothingReturned
<1>7. TypeOK'
  <2>1. token' \in [Publishers -> {"none", "wait", "ok", "failed", "noIds"}]
    BY <1>4 DEF IInv, TypeOK
  <2>2. ASSUME NEW q \in Publishers PROVE arrived'[q] \in Seq(Calls(q))
    <3>1. arrived[q] \in Seq(Calls(q)) /\ arrived \in [Publishers -> Seq(Nat)]
      BY DEF IInv, TypeOK
    <3>2. Append(arrived[p], n) \in Seq(Calls(p))
      <4>1. arrived[p] \in Seq(Calls(p))
        BY DEF IInv, TypeOK
      <4>2. QED
        BY <4>1
    <3>3. arrived'[q] = arrived[q] \/ (q = p /\ arrived'[q] = Append(arrived[p], n))
      BY <1>5, <3>1
    <3>4. QED
      BY <3>1, <3>2, <3>3
  <2>3. \A q \in Publishers : pc'[q] # "idle" => Call(q)' \in Calls(q)
    BY <1>1 DEF IInv, TypeOK
  <2>4. QED
    BY <1>1, <1>3, <1>6, <2>1, <2>2, <2>3 DEF IInv, TypeOK
<1>8. TokenHonest'
  <2> SUFFICES ASSUME NEW q \in Publishers
               PROVE  /\ pc[q] = "await" <=> token'[q] # "none"
                      /\ token'[q] = "failed" => link = "closed"
                      /\ token'[q] = "ok" /\ payload[q] = "data"
                           => stage'[<<q, Call(q)>>] = "done"
                      /\ token'[q] = "noIds" => payload[q] = "data"
                                               /\ stage'[<<q, Call(q)>>] = "none"
    BY <1>1 DEF TokenHonest
  <2>1. /\ pc[q] = "await" <=> token[q] # "none"
        /\ token[q] = "failed" => link = "closed"
        /\ token[q] = "ok" /\ payload[q] = "data" => stage[<<q, Call(q)>>] = "done"
        /\ token[q] = "noIds" => payload[q] = "data" /\ stage[<<q, Call(q)>>] = "none"
    BY DEF IInv, TokenHonest
  <2>2. CASE pc[q] # "await"
    BY <1>4, <2>1, <2>2 DEF IInv, TypeOK
  <2>3. CASE pc[q] = "await"
    <3>1. /\ Call(q) \in Calls(q)
          /\ token'[q] = token[q] \/ (q = p /\ token'[q] = "ok" /\ n = Call(q) /\ s = "done")
      BY <1>4, <2>3, CallIsNumber DEF IInv, TypeOK
    <3>2. QED
      BY <1>1, <1>3, <2>1, <2>3, <3>1
  <2>4. QED
    BY <2>2, <2>3
<1>9. NotYetHandedOver'
  BY <1>1, <1>3 DEF IInv, NotYetHandedOver
<1>10. StageHonest'
  <2> SUFFICES ASSUME NEW q \in Publishers, NEW k \in Calls(q)
               PROVE  /\ stage'[<<q, k>>] \in {"taken", "released", "done"} => Took(q, k)'
                      /\ Took(q, k)' => stage'[<<q, k>>] # "none"
    BY DEF StageHonest
  <2>1. /\ stage[<<q, k>>] \in {"taken", "released", "done"} => Took(q, k)
        /\ Took(q, k) => stage[<<q, k>>] # "none"
    BY DEF IInv, StageHonest
  <2>2. QED
    BY <1>2, <1>3, <1>6, <2>1
<1>11. ResultHonest'
  <2> SUFFICES ASSUME NEW q \in Publishers, NEW k \in Calls(q)
               PROVE  /\ Returned(q, k, "nil") => stage'[<<q, k>>] = "done"
                      /\ Returned(q, k, "notConnected") \/ Returned(q, k, "noIds")
                           => stage'[<<q, k>>] = "none"
                      /\ Returned(q, k, "notConnected") \/ Returned(q, k, "failed")
                           => link = "closed"
    BY <1>1 DEF ResultHonest
  <2>1. /\ Returned(q, k, "nil") => stage[<<q, k>>] = "done"
        /\ Returned(q, k, "notConnected") \/ Returned(q, k, "noIds")
             => stage[<<q, k>>] = "none"
        /\ Returned(q, k, "notConnected") \/ Returned(q, k, "failed") => link = "closed"
    BY DEF IInv, ResultHonest
  <2>2. QED
    BY <1>1, <1>3, <2>1
<1>12. ConfirmedInOrder'
  <2>1. CASE UNCHANGED arrived
    BY <1>1, <2>1 DEF IInv, ConfirmedInOrder
  <2>2. CASE arrived' = [arrived EXCEPT ![p] = Append(@, n)]
    <3> SUFFICES ASSUME NEW q \in Publishers,
                        NEW i \in 1 .. Len(arrived'[q]), NEW k \in 1 .. Len(arrived'[q]),
                        i < k, arrived'[q][k] < arrived'[q][i]
                 PROVE  ~Returned(q, arrived'[q][k], "nil")
      BY <1>1 DEF ConfirmedInOrder
    <3>1. /\ Len(arrived'[p]) = Len(arrived[p]) + 1
          /\ arrived'[p][Len(arrived[p]) + 1] = n
          /\ \A j \in 1 .. Len(arrived[p]) : arrived'[p][j] = arrived[p][j]
          /\ q # p => arrived'[q] = arrived[q]
          /\ Len(arrived[q]) \in Nat
      BY <1>1, <2>2, ArrivalUpdate DEF IInv, TypeOK
    <3>2. CASE q = p /\ k = Len(arrived[p]) + 1
      BY <1>1, <3>1, <3>2 DEF IInv, ResultHonest
    <3>3. CASE ~(q = p /\ k = Len(arrived[p]) + 1)
      <4>1. /\ i \in 1 .. Len(arrived[q]) /\ k \in 1 .. Len(arrived[q])
            /\ arrived'[q][i] = arrived[q][i] /\ arrived'[q][k] = arrived[q][k]
        BY <3>1, <3>3
      <4>2. QED
        BY <4>1 DEF IInv, ConfirmedInOrder
    <3>4. QED
      BY <3>2, <3>3
  <2>3. QED
    BY <1>5, <2>1, <2>2
<1>13. QED
  BY <1>1, <1>7, <1>8, <1>9, <1>10, <1>11, <1>12 DEF IInv, ClosedWhenDone

\* The connection comes, goes and is closed, and a report is written.
LEMMA LinkSteps ==
  ASSUME IInv,
         \/ \E p \in Publishers : ReportWritten(p)
         \/ LoseConnection \/ Reconnect \/ Signal \/ Disconnect
  PROVE  IInv'
<1>1. /\ UNCHANGED <<pc, bad, payload, outcome, arrived>>
      /\ link' \in {"up", "reconnecting", "closed"}
      /\ link = "closed" => link' = "closed"
      /\ link' = "closed" => rootDone'
      /\ rootDone => rootDone'
      /\ losses' \in 0 .. MaxLosses
  <2>1. CASE \E p \in Publishers : ReportWritten(p)
    BY <2>1 DEF ReportWritten, IInv, TypeOK, ClosedWhenDone
  <2>2. CASE LoseConnection
    <3>1. losses + 1 \in 0 .. MaxLosses
      BY <2>2 DEF LoseConnection, IInv, TypeOK
    <3>2. QED
      BY <2>2, <3>1 DEF LoseConnection, callVars
  <2>3. CASE Reconnect
    BY <2>3 DEF Reconnect, callVars, IInv, TypeOK
  <2>4. CASE Signal
    BY <2>4 DEF Signal, callVars, IInv, TypeOK
  <2>5. CASE Disconnect
    BY <2>5 DEF Disconnect, IInv, TypeOK
  <2>6. QED
    BY <2>1, <2>2, <2>3, <2>4, <2>5
<1>2. rootDone' \in BOOLEAN
  BY Zenon DEF ReportWritten, LoseConnection, Reconnect, Signal, Disconnect, IInv, TypeOK
<1>3. /\ token' \in [Publishers -> {"none", "wait", "ok", "failed", "noIds"}]
      /\ \A p \in Publishers :
           \/ token'[p] = token[p]
           \/ token[p] = "wait" /\ token'[p] = "ok" /\ payload[p] = "report"
           \/ token[p] = "wait" /\ token'[p] = "failed" /\ link' = "closed"
  BY DEF ReportWritten, SetToken, LoseConnection, Reconnect, Signal, Disconnect, callVars,
         IInv, TypeOK
<1>4. /\ stage' \in [Messages -> Stages]
      /\ \A m \in Messages :
           \/ stage'[m] = stage[m]
           \/ stage[m] \in {"wire", "taken"} /\ stage'[m] = "stored"
  BY DEF ReportWritten, LoseConnection, Reconnect, Signal, Disconnect, IInv, TypeOK, Stages
<1>5. \A p \in Publishers : \A n \in Calls(p) :
        \/ stage'[<<p, n>>] = stage[<<p, n>>]
        \/ stage[<<p, n>>] \in {"wire", "taken"} /\ stage'[<<p, n>>] = "stored"
  BY <1>4, MessagePairs
<1> USE NothingReturned, NothingArrived
<1>6. TypeOK'
  <2>1. \A q \in Publishers : pc'[q] # "idle" => Call(q)' \in Calls(q)
    BY <1>1 DEF IInv, TypeOK
  <2>2. QED
    BY <1>1, <1>2, <1>3, <1>4, <2>1 DEF IInv, TypeOK
<1>7. TokenHonest'
  <2> SUFFICES ASSUME NEW q \in Publishers
               PROVE  /\ pc[q] = "await" <=> token'[q] # "none"
                      /\ token'[q] = "failed" => link' = "closed"
                      /\ token'[q] = "ok" /\ payload[q] = "data"
                           => stage'[<<q, Call(q)>>] = "done"
                      /\ token'[q] = "noIds" => payload[q] = "data"
                                               /\ stage'[<<q, Call(q)>>] = "none"
    BY <1>1 DEF TokenHonest
  <2>1. token[q] # "none" => Call(q) \in Calls(q)
    BY CallIsNumber DEF IInv, TokenHonest
  <2>2. QED
    BY <1>1, <1>3, <1>5, <2>1 DEF IInv, TokenHonest
<1>8. NotYetHandedOver'
  BY <1>1, <1>5 DEF IInv, NotYetHandedOver
<1>9. StageHonest'
  <2> SUFFICES ASSUME NEW q \in Publishers, NEW k \in Calls(q)
               PROVE  /\ stage'[<<q, k>>] \in {"taken", "released", "done"} => Took(q, k)
                      /\ Took(q, k) => stage'[<<q, k>>] # "none"
    BY <1>1 DEF StageHonest
  <2>1. QED
    BY <1>5 DEF IInv, StageHonest
<1>10. ResultHonest'
  <2> SUFFICES ASSUME NEW q \in Publishers, NEW k \in Calls(q)
               PROVE  /\ Returned(q, k, "nil") => stage'[<<q, k>>] = "done"
                      /\ Returned(q, k, "notConnected") \/ Returned(q, k, "noIds")
                           => stage'[<<q, k>>] = "none"
                      /\ Returned(q, k, "notConnected") \/ Returned(q, k, "failed")
                           => link' = "closed"
    BY <1>1 DEF ResultHonest
  <2>1. /\ Returned(q, k, "nil") => stage[<<q, k>>] = "done"
        /\ Returned(q, k, "notConnected") \/ Returned(q, k, "noIds")
             => stage[<<q, k>>] = "none"
        /\ Returned(q, k, "notConnected") \/ Returned(q, k, "failed") => link = "closed"
    BY DEF IInv, ResultHonest
  <2>2. QED
    BY <1>1, <1>5, <2>1
<1>11. ConfirmedInOrder'
  BY <1>1 DEF IInv, ConfirmedInOrder
<1>12. QED
  BY <1>1, <1>6, <1>7, <1>8, <1>9, <1>10, <1>11 DEF IInv, ClosedWhenDone

LEMMA StepIInv == IInv /\ [Next]_vars => IInv'
<1> SUFFICES ASSUME IInv, [Next]_vars PROVE IInv'
  OBVIOUS
<1>1. CASE Next
  BY <1>1, InCall, Sends, ReturnSteps, NetworkSteps, LinkSteps DEF Next, CallStep, MessengerStep
<1>2. CASE UNCHANGED vars
  <2>1. (TypeOK /\ NotYetHandedOver /\ TokenHonest)'
    BY <1>2, NothingReturned
       DEF vars, callVars, IInv, TypeOK, NotYetHandedOver, TokenHonest, UnderWay
  <2>2. (ClosedWhenDone /\ StageHonest /\ ResultHonest /\ ConfirmedInOrder)'
    BY <1>2, NothingReturned, NothingArrived
       DEF vars, callVars, IInv, ClosedWhenDone, StageHonest, ResultHonest, ConfirmedInOrder
  <2>3. QED
    BY <2>1, <2>2 DEF IInv
<1>3. QED
  BY <1>1, <1>2

LEMMA Invariance == Spec => []IInv
<1>1. QED
  BY InitIInv, StepIInv, PTL DEF Spec

-----------------------------------------------------------------------------
(* The theorems.                                                           *)

\* Type correctness of Outbound.
THEOREM TypeCorrect == Spec => []TypeOK
<1>1. IInv => TypeOK
  BY DEF IInv
<1>2. QED
  BY <1>1, Invariance, PTL

\* Publish never returns nil for data the broker has not taken in, however the
\* connection comes and goes while the call waits.
THEOREM ConfirmedArrived == Spec => []NilMeansTaken
<1>1. IInv => NilMeansTaken
  BY DEF IInv, NilMeansTaken, ResultHonest, StageHonest
<1>2. QED
  BY <1>1, Invariance, PTL

\* Data whose call was refused never arrives, also not later.
THEOREM RefusedIsFinal == Spec => []RefusedNeverArrives
<1>1. IInv => RefusedNeverArrives
  BY DEF IInv, RefusedNeverArrives, ResultHonest, StageHonest
<1>2. QED
  BY <1>1, Invariance, PTL

\* A failing connection alone never makes Publish fail, only the shutdown does.
THEOREM OnlyShutdownFails == Spec => []FailsOnlyAtShutdown
<1>1. IInv => FailsOnlyAtShutdown
  BY DEF IInv, FailsOnlyAtShutdown, ResultHonest, ClosedWhenDone
<1>2. QED
  BY <1>1, Invariance, PTL

\* Every result but a timeout says where the data is.
THEOREM ResultsAreFinal == Spec => []OnlyTimeoutsLinger
<1>1. ASSUME IInv PROVE OnlyTimeoutsLinger
  <2> SUFFICES ASSUME link # "closed", NEW m \in UnderWay, m[2] < Call(m[1])
               PROVE  Returned(m[1], m[2], "timedOut")
    BY DEF OnlyTimeoutsLinger
  <2> DEFINE p == m[1]
             n == m[2]
  <2>1. m \in Messages /\ stage[m] \notin {"none", "done"}
    BY DEF UnderWay
  <2>2. p \in Publishers /\ n \in Calls(p) /\ stage[<<p, n>>] \notin {"none", "done"}
    BY <2>1, MessageParts
  <2>3. n \in 1 .. Len(outcome[p])
    BY <1>1, <2>2, CallIsNumber DEF IInv
  <2>4. outcome[p][n] \in Results
    BY <1>1, <2>2, <2>3 DEF IInv, TypeOK
  <2>5. Returned(p, n, outcome[p][n])
    BY <2>3 DEF Returned
  <2>6. outcome[p][n] = "timedOut"
    BY <1>1, <2>2, <2>4, <2>5 DEF IInv, ResultHonest, Results
  <2>7. QED
    BY <2>5, <2>6
<1>2. QED
  BY <1>1, Invariance, PTL

\* No retransmission of paho's overtakes data that was confirmed.
THEOREM ConfirmedStaysInOrder == Spec => []ConfirmedInOrder
<1>1. IInv => ConfirmedInOrder
  BY DEF IInv
<1>2. QED
  BY <1>1, Invariance, PTL
=============================================================================
