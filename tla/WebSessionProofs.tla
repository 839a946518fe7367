-------------------------- MODULE WebSessionProofs --------------------------
(***************************************************************************)
(* Proofs about WebSession, for any sets of tabs, sessions, calls and      *)
(* refreshes and any number of page loads.                                 *)
(***************************************************************************)
EXTENDS WebSession, TLAPS

Replies == {"ok", "refused", None}
FlightType == [pc : {"idle", "sent", "answered"}, tab : Tab \cup {None}, token : Tokens,
               reply : {"ok", "refused", None}, new : Tokens]
CallType == [pc : {"idle", "sent", "waiting"}, tab : Tab \cup {None}, method : {"post", "login"},
             retried : BOOLEAN, bearer : BOOLEAN, mounted : BOOLEAN, inserted : BOOLEAN,
             on : Flight \cup {None}]

SessionTypes ==
    /\ stored \in Tokens
    /\ inFlight \in [Tab -> Flight \cup {None}]
    /\ flight \in [Flight -> FlightType]
    /\ excuse \in BOOLEAN /\ alarm \in BOOLEAN

\* A tab has one refresh at a time, the one its callers share.
FlightInv ==
    /\ \A f \in Flight :
        /\ flight[f].tab # None => inFlight[flight[f].tab] = f
        /\ flight[f].pc = "idle" =>
              flight[f].tab = None /\ flight[f].token = NoToken /\ flight[f].new = NoToken
        /\ flight[f].pc = "sent" => flight[f].new = NoToken
        /\ flight[f].pc = "answered" => flight[f].tab # None
        /\ flight[f].reply = "ok" => flight[f].pc = "answered"
        /\ flight[f].new.family \in {None, flight[f].token.family}
    /\ \A t \in Tab : inFlight[t] # None => flight[inFlight[t]].tab = t

\* A flight has a copy of a token of the family.
Carries(f, fam) == fam \in {flight[f].token.family, flight[f].new.family}

\* Until there is an excuse: what is sent is not a former token, a new token
\* is not one either, the stored token is on its way only as what its tab
\* presents, and no two flights are about one session.
SentIsFresh ==
    \A f \in Flight : /\ flight[f].pc = "sent" => flight[f].token.state # "former"
                      /\ flight[f].new.state # "former"
StoredInFlight ==
    \A f \in Flight : stored.family # None /\ Carries(f, stored.family) =>
                          flight[f].token = stored /\ flight[f].tab # None
OneFlight ==
    \A f, g \in Flight, fam \in Family : Carries(f, fam) /\ Carries(g, fam) => f = g

HonestInv == ~excuse => StoredIsCurrent /\ SentIsFresh /\ StoredInFlight /\ OneFlight

\* The inductive invariant of the tokens.
SessionInv == SessionTypes /\ FlightInv /\ HonestInv /\ AlarmNeedsCause

-----------------------------------------------------------------------------
(* Tokens and flights.                                                     *)

\* What tokens there are.
LEMMA TokenFacts ==
    /\ NoToken \in Tokens /\ NoToken.family = None /\ NoToken.state = "none"
    /\ Dead \in Tokens /\ Dead.family = None /\ Dead.state = "dead"
    /\ \A fam \in Family, state \in {"current", "former"} :
          /\ RefreshToken(fam, state) \in Tokens
          /\ RefreshToken(fam, state).family = fam /\ RefreshToken(fam, state).state = state
    /\ \A k \in Tokens : \/ k.family = None /\ k.state \in {"none", "dead"}
                         \/ k.family \in Family /\ k.state \in {"current", "former"}
    /\ None \notin Family
  BY NoneAssumption DEF Tokens, NoToken, Dead, RefreshToken

\* A rotation makes a former token of a copy, the end of the family a dead one.
LEMMA CopyFacts ==
    ASSUME NEW fam \in Family, NEW k \in Tokens
    PROVE  /\ Rotated(fam, k) \in Tokens /\ EndedCopy(fam, k) \in Tokens
           /\ Rotated(fam, k).family = k.family
           /\ k.family = fam => Rotated(fam, k).state = "former" /\ EndedCopy(fam, k) = Dead
           /\ k.family # fam => Rotated(fam, k) = k /\ EndedCopy(fam, k) = k
  BY TokenFacts DEF Rotated, EndedCopy

\* The fields of a flight.
LEMMA FlightFields ==
    /\ \A r \in FlightType :
          /\ r.pc \in {"idle", "sent", "answered"} /\ r.tab \in Tab \cup {None}
          /\ r.token \in Tokens /\ r.reply \in Replies /\ r.new \in Tokens
    /\ NoFlight \in FlightType
    /\ NoFlight.pc = "idle" /\ NoFlight.tab = None /\ NoFlight.token = NoToken
    /\ NoFlight.reply = None /\ NoFlight.new = NoToken
  BY TokenFacts DEF FlightType, NoFlight, Replies

\* What a rotation does to the flights.
LEMMA RotatedCopies ==
    ASSUME flight \in [Flight -> FlightType], NEW fam \in Family
    PROVE  /\ Copies(Rotated, fam) \in [Flight -> FlightType]
           /\ \A g \in Flight :
                /\ Copies(Rotated, fam)[g].pc = flight[g].pc
                /\ Copies(Rotated, fam)[g].tab = flight[g].tab
                /\ Copies(Rotated, fam)[g].reply = flight[g].reply
                /\ Copies(Rotated, fam)[g].token = Rotated(fam, flight[g].token)
                /\ Copies(Rotated, fam)[g].new = Rotated(fam, flight[g].new)
<1> DEFINE C(g) == [flight[g] EXCEPT !.token = Rotated(fam, @), !.new = Rotated(fam, @)]
<1>1. Copies(Rotated, fam) = [g \in Flight |-> C(g)]
  BY DEF Copies
<1>2. ASSUME NEW g \in Flight
      PROVE  /\ C(g) \in FlightType
             /\ C(g).pc = flight[g].pc /\ C(g).tab = flight[g].tab
             /\ C(g).reply = flight[g].reply
             /\ C(g).token = Rotated(fam, flight[g].token)
             /\ C(g).new = Rotated(fam, flight[g].new)
  <2>1. /\ Rotated(fam, flight[g].token) \in Tokens
        /\ Rotated(fam, flight[g].new) \in Tokens
    BY FlightFields, CopyFacts
  <2>2. flight[g] \in FlightType
    OBVIOUS
  <2>3. QED
    BY <2>1, <2>2 DEF FlightType
<1> HIDE DEF C
<1>3. QED
  BY <1>1, <1>2

\* What the end of a session does to the flights.
LEMMA EndedCopies ==
    ASSUME flight \in [Flight -> FlightType], NEW fam \in Family
    PROVE  /\ Copies(EndedCopy, fam) \in [Flight -> FlightType]
           /\ \A g \in Flight :
                /\ Copies(EndedCopy, fam)[g].pc = flight[g].pc
                /\ Copies(EndedCopy, fam)[g].tab = flight[g].tab
                /\ Copies(EndedCopy, fam)[g].reply = flight[g].reply
                /\ Copies(EndedCopy, fam)[g].token = EndedCopy(fam, flight[g].token)
                /\ Copies(EndedCopy, fam)[g].new = EndedCopy(fam, flight[g].new)
<1> DEFINE C(g) == [flight[g] EXCEPT !.token = EndedCopy(fam, @), !.new = EndedCopy(fam, @)]
<1>1. Copies(EndedCopy, fam) = [g \in Flight |-> C(g)]
  BY DEF Copies
<1>2. ASSUME NEW g \in Flight
      PROVE  /\ C(g) \in FlightType
             /\ C(g).pc = flight[g].pc /\ C(g).tab = flight[g].tab
             /\ C(g).reply = flight[g].reply
             /\ C(g).token = EndedCopy(fam, flight[g].token)
             /\ C(g).new = EndedCopy(fam, flight[g].new)
  <2>1. /\ EndedCopy(fam, flight[g].token) \in Tokens
        /\ EndedCopy(fam, flight[g].new) \in Tokens
    BY FlightFields, CopyFacts
  <2>2. flight[g] \in FlightType
    OBVIOUS
  <2>3. QED
    BY <2>1, <2>2 DEF FlightType
<1> HIDE DEF C
<1>3. QED
  BY <1>1, <1>2

\* The reply to one flight.
LEMMA AnsweredFlight ==
    ASSUME NEW fl \in [Flight -> FlightType], NEW f \in Flight, NEW reply \in Replies,
           NEW new \in Tokens, Answered(fl, f, reply, new)
    PROVE  /\ flight' \in [Flight -> FlightType]
           /\ \A g \in Flight \ {f} : flight'[g] = fl[g]
           /\ fl[f].tab = None => flight'[f] = NoFlight
           /\ fl[f].tab # None =>
                /\ flight'[f].pc = "answered" /\ flight'[f].tab = fl[f].tab
                /\ flight'[f].reply = reply /\ flight'[f].new = new
                /\ flight'[f].token = IF reply = "ok" THEN fl[f].token ELSE NoToken
<1> DEFINE k == IF reply = "ok" THEN fl[f].token ELSE NoToken
           a == [fl[f] EXCEPT !.pc = "answered", !.reply = reply, !.new = new, !.token = k]
           r == IF fl[f].tab = None THEN NoFlight ELSE a
<1>1. flight' = [fl EXCEPT ![f] = r]
  BY DEF Answered
<1>2. k \in Tokens /\ fl[f] \in FlightType
  BY FlightFields, TokenFacts
<1> HIDE DEF k
<1>3. /\ a \in FlightType
      /\ a.pc = "answered" /\ a.tab = fl[f].tab /\ a.reply = reply /\ a.new = new /\ a.token = k
  BY <1>2 DEF FlightType, Replies
<1> HIDE DEF a
<1>4. QED
  BY <1>1, <1>3, FlightFields DEF k

-----------------------------------------------------------------------------
(* The server's steps.                                                     *)

\* A rotation: while there is no excuse no other flight has a copy of the
\* token, and the tab that presented it gets the new one.
LEMMA RotateSession ==
    ASSUME SessionInv, NEW f \in Flight, Rotate(f)
    PROVE  SessionInv' /\ \A g \in Flight : flight'[g].tab = flight[g].tab
<1> USE DEF SessionInv
<1>1. /\ stored \in Tokens /\ flight \in [Flight -> FlightType] /\ excuse \in BOOLEAN
      /\ inFlight' = inFlight /\ inFlight \in [Tab -> Flight \cup {None}] /\ alarm' = alarm
  BY DEF SessionTypes, Rotate
<1>2. PICK fam \in Family : /\ fam = flight[f].token.family
                           /\ flight[f].pc = "sent" /\ flight[f].token.state = "current"
                           /\ stored' = Rotated(fam, stored)
  BY <1>1, FlightFields, TokenFacts DEF Rotate
<1>3. PICK reply \in Replies :
        /\ Answered(Copies(Rotated, fam), f, reply,
                    IF reply = "ok" THEN RefreshToken(fam, "current") ELSE NoToken)
        /\ excuse' = (excuse \/ reply # "ok")
  BY <1>2 DEF Rotate, Ok, Replies
<1> DEFINE new == IF reply = "ok" THEN RefreshToken(fam, "current") ELSE NoToken
<1>4. new \in Tokens /\ new.state # "former"
      /\ new.family = IF reply = "ok" THEN fam ELSE None
  BY TokenFacts
<1> HIDE DEF new
<1>5. /\ flight' \in [Flight -> FlightType]
      /\ \A g \in Flight \ {f} :
            /\ flight'[g].pc = flight[g].pc /\ flight'[g].tab = flight[g].tab
            /\ flight'[g].reply = flight[g].reply
            /\ flight'[g].token = Rotated(fam, flight[g].token)
            /\ flight'[g].new = Rotated(fam, flight[g].new)
      /\ flight[f].tab = None => flight'[f] = NoFlight
      /\ flight[f].tab # None =>
            /\ flight'[f].pc = "answered" /\ flight'[f].tab = flight[f].tab
            /\ flight'[f].reply = reply /\ flight'[f].new = new
            /\ flight'[f].token = IF reply = "ok" THEN Rotated(fam, flight[f].token) ELSE NoToken
  <2>1. PICK fl : fl = Copies(Rotated, fam)
    OBVIOUS
  <2>2. Answered(fl, f, reply, new)
    BY <1>3, <2>1, Zenon DEF new
  <2>3. /\ fl \in [Flight -> FlightType]
        /\ \A g \in Flight :
              /\ fl[g].pc = flight[g].pc /\ fl[g].tab = flight[g].tab
              /\ fl[g].reply = flight[g].reply
              /\ fl[g].token = Rotated(fam, flight[g].token)
              /\ fl[g].new = Rotated(fam, flight[g].new)
    BY <1>1, <2>1, RotatedCopies, Zenon
  <2>4. QED
    BY <1>4, <2>2, <2>3, AnsweredFlight
<1>7. \A g \in Flight \ {f} : /\ flight'[g].token.family = flight[g].token.family
                              /\ flight'[g].new.family = flight[g].new.family
  BY <1>1, <1>5, FlightFields, CopyFacts
<1>8. SessionTypes'
  <2>1. stored' \in Tokens
    BY <1>1, <1>2, CopyFacts
  <2>2. excuse' \in BOOLEAN
    BY <1>3
  <2>3. QED
    BY <1>1, <1>5, <2>1, <2>2 DEF SessionTypes, FlightType, Tokens
<1>9. \A g \in Flight : flight'[g].tab = flight[g].tab
  BY <1>5, FlightFields
<1>10. flight'[f].token.family \in {None, fam} /\ flight'[f].new.family \in {None, fam}
  BY <1>1, <1>2, <1>4, <1>5, FlightFields, TokenFacts, CopyFacts
<1>11. FlightInv'
  <2>1. ASSUME NEW g \in Flight \ {f}
        PROVE  /\ flight'[g].pc = "idle" => flight'[g].token = NoToken /\ flight'[g].new = NoToken
               /\ flight'[g].pc = "sent" => flight'[g].new = NoToken
    BY <1>5, TokenFacts, CopyFacts DEF FlightInv
  <2>2. ASSUME NEW g \in Flight \ {f}
        PROVE  /\ flight'[g].tab # None => inFlight'[flight'[g].tab] = g
               /\ flight'[g].pc = "idle" => flight'[g].tab = None
               /\ flight'[g].pc = "answered" => flight'[g].tab # None
               /\ flight'[g].reply = "ok" => flight'[g].pc = "answered"
               /\ flight'[g].new.family \in {None, flight'[g].token.family}
    BY <1>1, <1>5, <1>7 DEF FlightInv
  <2>3. /\ flight'[f].tab # None => inFlight'[flight'[f].tab] = f
        /\ flight'[f].pc = "idle" =>
              flight'[f].tab = None /\ flight'[f].token = NoToken /\ flight'[f].new = NoToken
        /\ flight'[f].pc # "sent"
        /\ flight'[f].pc = "answered" => flight'[f].tab # None
        /\ flight'[f].reply = "ok" => flight'[f].pc = "answered"
    BY <1>1, <1>5, FlightFields, NoneAssumption DEF FlightInv
  <2>4. flight'[f].new.family \in {None, flight'[f].token.family}
    BY <1>1, <1>2, <1>4, <1>5, FlightFields, TokenFacts, CopyFacts
  <2>5. \A t \in Tab : inFlight'[t] # None => flight'[inFlight'[t]].tab = t
    BY <1>1, <1>9 DEF FlightInv
  <2>6. QED
    BY <2>1, <2>2, <2>3, <2>4, <2>5 DEF FlightInv
<1>12. HonestInv'
  <2> SUFFICES ASSUME ~excuse'
               PROVE  StoredIsCurrent' /\ SentIsFresh' /\ StoredInFlight' /\ OneFlight'
    BY DEF HonestInv
  <2>1. ~excuse /\ reply = "ok" /\ StoredIsCurrent /\ SentIsFresh /\ StoredInFlight /\ OneFlight
    BY <1>1, <1>3 DEF HonestInv
  <2>2. \A g \in Flight \ {f} : flight[g].token.family # fam /\ flight[g].new.family # fam
    BY <1>2, <2>1 DEF OneFlight, Carries
  <2>3. \A g \in Flight \ {f} : flight'[g].token = flight[g].token /\ flight'[g].new = flight[g].new
    BY <1>1, <1>5, <2>2, FlightFields, CopyFacts
  <2>4. /\ stored.family = fam => stored = flight[f].token /\ flight[f].tab # None
        /\ stored.family # fam => stored' = stored
        /\ stored'.family = stored.family
    BY <1>1, <1>2, <2>1, TokenFacts, CopyFacts DEF StoredInFlight, Carries
  <2>5. StoredIsCurrent'
    <3>1. CASE stored.family = fam
      BY <1>2, <1>5, <2>1, <2>4, <3>1 DEF StoredIsCurrent
    <3>2. CASE stored.family # fam
      BY <1>2, <1>5, <2>1, <2>3, <2>4, <3>2 DEF StoredIsCurrent
    <3>3. QED
      BY <3>1, <3>2
  <2>6. SentIsFresh'
    BY <1>4, <1>5, <2>1, <2>3, FlightFields, TokenFacts DEF SentIsFresh
  <2>7. StoredInFlight'
    <3>1. ASSUME NEW g \in Flight, stored'.family # None,
                 stored'.family \in {flight'[g].token.family, flight'[g].new.family}
          PROVE  flight'[g].token = stored' /\ flight'[g].tab # None
      <4>1. CASE g = f
        BY <1>2, <1>5, <1>10, <2>1, <2>4, <3>1, <4>1
      <4>2. CASE g # f
        <5>1. stored.family # fam
          BY <1>7, <2>2, <2>4, <3>1, <4>2
        <5>2. QED
          BY <1>5, <2>1, <2>3, <2>4, <3>1, <4>2, <5>1 DEF StoredInFlight, Carries
      <4>3. QED
        BY <4>1, <4>2
    <3>2. QED
      BY <3>1 DEF StoredInFlight, Carries
  <2>8. OneFlight'
    <3> SUFFICES ASSUME NEW g \in Flight, NEW h \in Flight, NEW a \in Family,
                        a \in {flight'[g].token.family, flight'[g].new.family},
                        a \in {flight'[h].token.family, flight'[h].new.family}
                 PROVE  g = h
      BY DEF OneFlight, Carries
    <3>1. Carries(g, a) /\ Carries(h, a)
      BY <1>2, <1>7, <1>10, TokenFacts DEF Carries
    <3>2. QED
      BY <2>1, <3>1 DEF OneFlight
  <2>9. QED
    BY <2>5, <2>6, <2>7, <2>8
<1>13. AlarmNeedsCause'
  BY <1>1 DEF AlarmNeedsCause
<1>14. QED
  BY <1>8, <1>9, <1>11, <1>12, <1>13

\* Copies get lost, or their sessions end, but nothing new is sent or stored:
\* what holds while there is no excuse still holds.
LEMMA FewerCopies ==
    ASSUME SessionInv, SessionTypes', FlightInv', excuse' = excuse,
           stored' \in {stored, NoToken, Dead},
           \A g \in Flight :
                /\ flight'[g].token \in {flight[g].token, NoToken, Dead}
                /\ flight'[g].new \in {flight[g].new, NoToken, Dead}
                /\ flight'[g].pc = "sent" => flight[g].pc = "sent"
                /\ \/ flight'[g].tab = flight[g].tab
                   \/ flight'[g].token.family = None \/ flight[g].token # stored
                /\ flight[g].reply = "ok" /\ flight[g].token = stored /\ stored' = stored =>
                      \/ flight'[g].token = stored /\ flight'[g].reply = "ok"
                      \/ stored.state # "former"
    PROVE  HonestInv'
<1> SUFFICES ASSUME ~excuse'
             PROVE  StoredIsCurrent' /\ SentIsFresh' /\ StoredInFlight' /\ OneFlight'
  BY DEF HonestInv
<1>1. ~excuse /\ StoredIsCurrent /\ SentIsFresh /\ StoredInFlight /\ OneFlight
  BY DEF HonestInv, SessionInv
<1>2. /\ stored \in Tokens /\ stored' \in Tokens
      /\ flight \in [Flight -> FlightType] /\ flight' \in [Flight -> FlightType]
  BY DEF SessionInv, SessionTypes, FlightType, Tokens
<1>3. \A g \in Flight : flight'[g].new.family \in {None, flight'[g].token.family}
  BY DEF FlightInv
<1>4. ASSUME NEW g \in Flight, NEW fam \in Family,
             fam \in {flight'[g].token.family, flight'[g].new.family}
      PROVE  /\ Carries(g, fam) /\ flight'[g].token = flight[g].token
             /\ flight'[g].tab = flight[g].tab \/ flight[g].token # stored
  BY <1>3, <1>4, TokenFacts DEF Carries
<1>5. StoredIsCurrent'
  <2> SUFFICES ASSUME stored'.state = "former"
               PROVE  \E f \in Flight : /\ flight'[f].token = stored' /\ flight'[f].reply = "ok"
                                        /\ flight'[f].tab # None
    BY DEF StoredIsCurrent
  <2>1. stored' = stored
    BY TokenFacts
  <2>2. PICK f \in Flight : /\ flight[f].token = stored /\ flight[f].reply = "ok"
                           /\ flight[f].tab # None
    BY <1>1, <2>1 DEF StoredIsCurrent
  <2>3. flight'[f].token = stored /\ flight'[f].reply = "ok"
    BY <2>1, <2>2
  <2>4. stored.family # None
    BY <1>2, <2>1, TokenFacts
  <2>5. QED
    BY <2>1, <2>2, <2>3, <2>4
<1>6. SentIsFresh'
  BY <1>1, TokenFacts DEF SentIsFresh
<1>7. StoredInFlight'
  <2> SUFFICES ASSUME NEW g \in Flight, stored'.family # None,
                      stored'.family \in {flight'[g].token.family, flight'[g].new.family}
               PROVE  flight'[g].token = stored' /\ flight'[g].tab # None
    BY DEF StoredInFlight, Carries
  <2>1. stored' = stored /\ stored.family \in Family
    BY <1>2, TokenFacts
  <2>2. QED
    BY <1>1, <1>4, <2>1 DEF StoredInFlight
<1>8. OneFlight'
  BY <1>1, <1>4 DEF OneFlight, Carries
<1>9. QED
  BY <1>5, <1>6, <1>7, <1>8

\* The flights, with the copies of one family ended or not.
SomeEnded(fl) == fl = flight \/ \E fam \in Family : fl = Copies(EndedCopy, fam)

LEMMA EndedFlights ==
    ASSUME SessionInv, NEW fl, SomeEnded(fl)
    PROVE  /\ fl \in [Flight -> FlightType]
           /\ \A g \in Flight :
                /\ fl[g].pc = flight[g].pc /\ fl[g].tab = flight[g].tab
                /\ fl[g].reply = flight[g].reply
                /\ fl[g].token \in {flight[g].token, Dead} /\ fl[g].new \in {flight[g].new, Dead}
                /\ flight[g].token = NoToken => fl[g].token = NoToken
                /\ flight[g].new = NoToken => fl[g].new = NoToken
                /\ fl[g].new.family \in {None, fl[g].token.family}
<1>1. flight \in [Flight -> FlightType]
  BY DEF SessionInv, SessionTypes
<1>2. \A g \in Flight : flight[g].new.family \in {None, flight[g].token.family}
  BY DEF SessionInv, FlightInv
<1>3. CASE fl = flight
  BY <1>1, <1>2, <1>3
<1>4. ASSUME NEW fam \in Family, fl = Copies(EndedCopy, fam)
      PROVE  /\ fl \in [Flight -> FlightType]
             /\ \A g \in Flight :
                  /\ fl[g].pc = flight[g].pc /\ fl[g].tab = flight[g].tab
                  /\ fl[g].reply = flight[g].reply
                  /\ fl[g].token \in {flight[g].token, Dead} /\ fl[g].new \in {flight[g].new, Dead}
                  /\ flight[g].token = NoToken => fl[g].token = NoToken
                  /\ flight[g].new = NoToken => fl[g].new = NoToken
                  /\ fl[g].new.family \in {None, fl[g].token.family}
  <2>1. /\ fl \in [Flight -> FlightType]
        /\ \A g \in Flight :
              /\ fl[g].pc = flight[g].pc /\ fl[g].tab = flight[g].tab
              /\ fl[g].reply = flight[g].reply
              /\ fl[g].token = EndedCopy(fam, flight[g].token)
              /\ fl[g].new = EndedCopy(fam, flight[g].new)
    BY <1>1, <1>4, EndedCopies, Zenon
  <2>2. QED
    BY <1>1, <1>2, <2>1, FlightFields, TokenFacts, CopyFacts
<1>5. QED
  BY <1>3, <1>4 DEF SomeEnded

\* A reply without a token.
LEMMA RefusedFlight ==
    ASSUME SessionInv, NEW fl, SomeEnded(fl), NEW f \in Flight, flight[f].pc = "sent",
           NEW reply \in Replies, Answered(fl, f, reply, NoToken), inFlight' = inFlight
    PROVE  /\ flight' \in [Flight -> FlightType] /\ FlightInv'
           /\ \A g \in Flight :
                /\ flight'[g].tab = flight[g].tab
                /\ flight'[g].token \in {flight[g].token, NoToken, Dead}
                /\ flight'[g].new \in {flight[g].new, NoToken, Dead}
                /\ flight'[g].pc = "sent" => flight[g].pc = "sent"
                /\ flight[g].reply = "ok" =>
                      flight'[g].reply = "ok" /\ flight'[g].token = fl[g].token
<1>1. /\ fl \in [Flight -> FlightType]
      /\ \A g \in Flight :
           /\ fl[g].pc = flight[g].pc /\ fl[g].tab = flight[g].tab
           /\ fl[g].reply = flight[g].reply
           /\ fl[g].token \in {flight[g].token, Dead} /\ fl[g].new \in {flight[g].new, Dead}
           /\ flight[g].token = NoToken => fl[g].token = NoToken
           /\ flight[g].new = NoToken => fl[g].new = NoToken
           /\ fl[g].new.family \in {None, fl[g].token.family}
  BY EndedFlights
<1>2. /\ flight' \in [Flight -> FlightType]
      /\ \A g \in Flight \ {f} : flight'[g] = fl[g]
      /\ flight[f].tab = None => flight'[f] = NoFlight
      /\ flight[f].tab # None =>
           /\ flight'[f].pc = "answered" /\ flight'[f].tab = flight[f].tab
           /\ flight'[f].reply = reply /\ flight'[f].new = NoToken
           /\ flight'[f].token = IF reply = "ok" THEN fl[f].token ELSE NoToken
  <2>1. fl[f].tab = flight[f].tab
    BY <1>1
  <2>2. QED
    BY <1>1, <2>1, AnsweredFlight, TokenFacts
<1>3. FlightInv
  BY DEF SessionInv
<1>4. flight[f].reply # "ok"
  BY <1>3 DEF FlightInv
<1>5. \A g \in Flight :
        /\ flight'[g].tab = flight[g].tab
        /\ flight'[g].token \in {flight[g].token, NoToken, Dead}
        /\ flight'[g].new \in {flight[g].new, NoToken, Dead}
        /\ flight'[g].pc = "sent" => flight[g].pc = "sent"
        /\ flight[g].reply = "ok" =>
              flight'[g].reply = "ok" /\ flight'[g].token = fl[g].token
  BY <1>1, <1>2, <1>4, FlightFields
<1>6. ASSUME NEW g \in Flight
      PROVE  /\ flight'[g].pc = "idle" =>
                    flight'[g].tab = None /\ flight'[g].token = NoToken /\ flight'[g].new = NoToken
             /\ flight'[g].pc = "sent" => flight'[g].new = NoToken
             /\ flight'[g].pc = "answered" => flight'[g].tab # None
             /\ flight'[g].reply = "ok" => flight'[g].pc = "answered"
             /\ flight'[g].new.family \in {None, flight'[g].token.family}
  <2>1. CASE g = f
    BY <1>2, <2>1, FlightFields, TokenFacts, NoneAssumption
  <2>2. CASE g # f
    BY <1>1, <1>2, <1>3, <2>2 DEF FlightInv
  <2>3. QED
    BY <2>1, <2>2
<1>7. /\ \A g \in Flight : flight'[g].tab # None => inFlight'[flight'[g].tab] = g
      /\ \A t \in Tab : inFlight'[t] # None => flight'[inFlight'[t]].tab = t
  <2>1. inFlight \in [Tab -> Flight \cup {None}]
    BY DEF SessionInv, SessionTypes
  <2>2. QED
    BY <1>3, <1>5, <2>1 DEF FlightInv
<1>8. FlightInv'
  BY <1>6, <1>7 DEF FlightInv
<1>9. QED
  BY <1>2, <1>5, <1>8

\* The server turns a token down, which is reuse only with an excuse, or does
\* not get to it.
LEMMA RefuseSession ==
    ASSUME SessionInv, NEW f \in Flight, Reject(f) \/ RotateFails(f)
    PROVE  SessionInv' /\ \A g \in Flight : flight'[g].tab = flight[g].tab
<1> DEFINE fam == flight[f].token.family
           reuse == flight[f].token.state = "former"
<1>1. /\ inFlight' = inFlight /\ excuse' = excuse /\ flight[f].pc = "sent"
      /\ stored \in Tokens /\ flight \in [Flight -> FlightType]
      /\ inFlight \in [Tab -> Flight \cup {None}] /\ excuse \in BOOLEAN
  BY DEF SessionInv, SessionTypes, Reject, RotateFails, history
<1>2. reuse => fam \in Family /\ excuse
  <2>1. flight[f].token \in Tokens
    BY <1>1, FlightFields
  <2>2. ~excuse => ~reuse
    BY <1>1 DEF SessionInv, HonestInv, SentIsFresh
  <2>3. QED
    BY <1>1, <2>1, <2>2, TokenFacts
<1>3. PICK fl : /\ SomeEnded(fl) /\ (~excuse => fl = flight)
                /\ \E reply \in Replies : Answered(fl, f, reply, NoToken)
  <2>1. CASE Reject(f)
    <3>1. \E reply \in Replies :
             Answered(IF reuse THEN Copies(EndedCopy, fam) ELSE flight, f, reply, NoToken)
      BY <2>1 DEF Reject, Ok, Replies
    <3>2. SomeEnded(IF reuse THEN Copies(EndedCopy, fam) ELSE flight)
      <4>1. CASE reuse
        BY <1>2, <4>1, Zenon DEF SomeEnded
      <4>2. CASE ~reuse
        BY <4>2 DEF SomeEnded
      <4>3. QED
        BY <4>1, <4>2
    <3>3. ~excuse => (IF reuse THEN Copies(EndedCopy, fam) ELSE flight) = flight
      BY <1>2, Zenon
    <3>4. QED
      BY <3>1, <3>2, <3>3, Zenon
  <2>2. CASE RotateFails(f)
    BY <2>2 DEF RotateFails, Ok, Replies, SomeEnded
  <2>3. QED
    BY <2>1, <2>2
<1>4. /\ flight' \in [Flight -> FlightType] /\ FlightInv'
      /\ \A g \in Flight :
           /\ flight'[g].tab = flight[g].tab
           /\ flight'[g].token \in {flight[g].token, NoToken, Dead}
           /\ flight'[g].new \in {flight[g].new, NoToken, Dead}
           /\ flight'[g].pc = "sent" => flight[g].pc = "sent"
           /\ flight[g].reply = "ok" =>
                 flight'[g].reply = "ok" /\ flight'[g].token = fl[g].token
  BY <1>1, <1>3, RefusedFlight
<1>5. stored' \in Tokens /\ (~excuse => stored' = stored)
  <2>1. CASE Reject(f)
    <3>1. stored' = IF reuse THEN EndedCopy(fam, stored) ELSE stored
      BY <2>1 DEF Reject
    <3>2. QED
      BY <1>1, <1>2, <3>1, CopyFacts
  <2>2. CASE RotateFails(f)
    BY <1>1, <2>2 DEF RotateFails, page
  <2>3. QED
    BY <2>1, <2>2
<1>6. alarm' \in BOOLEAN /\ ~alarm'
  <2>1. CASE Reject(f)
    <3>1. alarm' = (alarm \/ (reuse /\ ~excuse))
      BY <2>1 DEF Reject
    <3>2. QED
      BY <1>2, <3>1 DEF SessionInv, AlarmNeedsCause
  <2>2. CASE RotateFails(f)
    BY <2>2 DEF RotateFails, history, SessionInv, SessionTypes, AlarmNeedsCause
  <2>3. QED
    BY <2>1, <2>2
<1>7. SessionTypes'
  BY <1>1, <1>4, <1>5, <1>6 DEF SessionTypes, FlightType, Tokens
<1>8. HonestInv'
  <2>1. CASE excuse
    BY <1>1, <2>1 DEF HonestInv
  <2>2. CASE ~excuse
    <3>1. stored' = stored /\ fl = flight
      BY <1>3, <1>5, <2>2
    <3>2. QED
      BY <1>1, <1>4, <1>7, <3>1, FewerCopies
  <2>3. QED
    BY <2>1, <2>2
<1>9. QED
  BY <1>4, <1>6, <1>7, <1>8 DEF SessionInv, AlarmNeedsCause

\* A session expires or is revoked.
LEMMA EndSessionStep ==
    ASSUME SessionInv, NEW fam \in Family, EndSession(fam)
    PROVE  SessionInv' /\ \A g \in Flight : flight'[g].tab = flight[g].tab
<1>1. /\ inFlight' = inFlight /\ excuse' = excuse /\ alarm' = alarm
      /\ stored \in Tokens /\ flight \in [Flight -> FlightType]
      /\ inFlight \in [Tab -> Flight \cup {None}] /\ excuse \in BOOLEAN /\ alarm \in BOOLEAN
      /\ stored' = EndedCopy(fam, stored)
  BY DEF SessionInv, SessionTypes, EndSession, history
<1>2. PICK fl : fl = Copies(EndedCopy, fam) /\ flight' = fl
  BY Zenon DEF EndSession
<1>3. /\ flight' \in [Flight -> FlightType]
      /\ \A g \in Flight :
           /\ flight'[g].pc = flight[g].pc /\ flight'[g].tab = flight[g].tab
           /\ flight'[g].reply = flight[g].reply
           /\ flight'[g].token = EndedCopy(fam, flight[g].token)
           /\ flight'[g].new = EndedCopy(fam, flight[g].new)
  BY <1>1, <1>2, EndedCopies, Zenon
<1>4. \A g \in Flight :
        /\ flight'[g].token \in {flight[g].token, Dead}
        /\ flight'[g].new \in {flight[g].new, Dead}
        /\ flight[g].token = NoToken => flight'[g].token = NoToken
        /\ flight[g].new = NoToken => flight'[g].new = NoToken
        /\ flight'[g].new.family \in {None, flight'[g].token.family}
  <2>1. SomeEnded(fl)
    BY <1>2, Zenon DEF SomeEnded
  <2>2. QED
    BY <1>2, <2>1, EndedFlights
<1>5. stored' \in Tokens /\ stored' \in {stored, Dead}
  BY <1>1, TokenFacts, CopyFacts
<1>6. SessionTypes'
  BY <1>1, <1>3, <1>5 DEF SessionTypes, FlightType, Tokens
<1>7. FlightInv'
  BY <1>1, <1>3, <1>4 DEF SessionInv, FlightInv
<1>8. HonestInv'
  BY <1>1, <1>3, <1>4, <1>5, <1>6, <1>7, FewerCopies
<1>9. QED
  BY <1>1, <1>3, <1>6, <1>7, <1>8 DEF SessionInv, AlarmNeedsCause

-----------------------------------------------------------------------------
(* The browser's steps.                                                    *)

\* The stored token is removed.
LEMMA ClearSession ==
    ASSUME SessionInv, stored' = NoToken, UNCHANGED <<inFlight, flight, excuse, alarm>>
    PROVE  SessionInv'
<1>1. SessionTypes'
  BY TokenFacts DEF SessionInv, SessionTypes, FlightType, Tokens
<1>2. FlightInv'
  BY DEF SessionInv, FlightInv
<1>3. HonestInv'
  <2>1. stored' # stored \/ stored.state # "former"
    BY TokenFacts
  <2>2. QED
    BY <1>1, <1>2, <2>1, FewerCopies
<1>4. QED
  BY <1>1, <1>2, <1>3 DEF SessionInv, AlarmNeedsCause

\* A login stores the token of a session that nobody has a copy of.
LEMMA LoginSession ==
    ASSUME SessionInv, FreeFamilies # {},
           stored' = RefreshToken(OneOf(FreeFamilies), "current"),
           UNCHANGED <<inFlight, flight, excuse, alarm>>
    PROVE  SessionInv'
<1>1. PICK fam \in Family : /\ stored' = RefreshToken(fam, "current")
                           /\ \A f \in Flight : ~Carries(f, fam)
  BY DEF FreeFamilies, OneOf, Carries
<1>2. stored' \in Tokens /\ stored'.family = fam /\ stored'.state = "current"
  BY <1>1, TokenFacts
<1>3. SessionTypes'
  BY <1>2 DEF SessionInv, SessionTypes, FlightType, Tokens
<1>4. FlightInv'
  BY DEF SessionInv, FlightInv
<1>5. HonestInv'
  BY <1>1, <1>2 DEF SessionInv, HonestInv, StoredIsCurrent, SentIsFresh, StoredInFlight, OneFlight,
     Carries
<1>6. QED
  BY <1>3, <1>4, <1>5 DEF SessionInv, AlarmNeedsCause

\* A refresh is sent.  Without an excuse nobody else presents the stored token,
\* so that it is not a former one.
LEMMA SendSession ==
    ASSUME SessionInv, SessionTypes', FlightInv', stored' = stored, excuse => excuse',
           ~excuse' => \A g \in Flight : flight[g].token # stored,
           NEW f \in Flight, flight'[f].token = stored, flight'[f].new = NoToken,
           flight'[f].tab # None,
           \A g \in Flight \ {f} :
                /\ flight'[g].token \in {flight[g].token, NoToken}
                /\ flight'[g].new \in {flight[g].new, NoToken}
                /\ flight'[g].pc = "sent" => flight[g].pc = "sent"
    PROVE  HonestInv'
<1> SUFFICES ASSUME ~excuse'
             PROVE  StoredIsCurrent' /\ SentIsFresh' /\ StoredInFlight' /\ OneFlight'
  BY DEF HonestInv
<1>1. /\ ~excuse /\ StoredIsCurrent /\ SentIsFresh /\ StoredInFlight /\ OneFlight
      /\ \A g \in Flight : flight[g].token # stored
  BY DEF HonestInv, SessionInv
<1>2. stored \in Tokens
  BY DEF SessionInv, SessionTypes
<1>3. stored.state # "former"
  BY <1>1 DEF StoredIsCurrent
<1>4. ASSUME NEW g \in Flight \ {f}, NEW fam \in Family,
             fam \in {flight'[g].token.family, flight'[g].new.family}
      PROVE  Carries(g, fam) /\ stored.family # fam
  <2>1. Carries(g, fam)
    BY <1>4, TokenFacts DEF Carries
  <2>2. QED
    BY <1>1, <2>1, TokenFacts DEF StoredInFlight
<1>5. StoredIsCurrent'
  BY <1>3 DEF StoredIsCurrent
<1>6. SentIsFresh'
  BY <1>1, <1>3, TokenFacts DEF SentIsFresh
<1>7. StoredInFlight'
  <2> SUFFICES ASSUME NEW g \in Flight, stored.family # None,
                      stored.family \in {flight'[g].token.family, flight'[g].new.family}
               PROVE  flight'[g].token = stored /\ flight'[g].tab # None
    BY DEF StoredInFlight, Carries
  <2>1. stored.family \in Family
    BY <1>2, TokenFacts
  <2>2. QED
    BY <1>4, <2>1
<1>8. OneFlight'
  <2> SUFFICES ASSUME NEW g \in Flight, NEW h \in Flight, NEW fam \in Family,
                      fam \in {flight'[g].token.family, flight'[g].new.family},
                      fam \in {flight'[h].token.family, flight'[h].new.family}
               PROVE  g = h
    BY DEF OneFlight, Carries
  <2>1. fam \in {flight'[f].token.family, flight'[f].new.family} => fam = stored.family
    BY TokenFacts
  <2>2. QED
    BY <1>1, <1>4, <2>1 DEF OneFlight
<1>9. QED
  BY <1>5, <1>6, <1>7, <1>8

\* What doRefresh sends.
LEMMA SentFlight ==
    ASSUME SessionTypes, NEW t \in Tab
    PROVE  /\ Sent(t) \in FlightType
           /\ Sent(t).pc = "sent" /\ Sent(t).tab = t /\ Sent(t).token = stored
           /\ Sent(t).reply = None /\ Sent(t).new = NoToken
  BY TokenFacts DEF SessionTypes, Sent, NoFlight, FlightType

\* A call starts the refresh of its tab.
LEMMA RefreshSession ==
    ASSUME SessionInv, NEW t \in Tab, NEW f \in FreeFlights, inFlight[t] = None,
           DoRefresh(t, f), stored # NoToken, UNCHANGED <<stored, alarm>>
    PROVE  SessionInv' /\ flight'[f].tab = t /\ \A g \in Flight \ {f} : flight'[g] = flight[g]
<1>1. /\ SessionTypes /\ FlightInv /\ stored \in Tokens /\ flight \in [Flight -> FlightType]
      /\ inFlight \in [Tab -> Flight \cup {None}] /\ excuse \in BOOLEAN /\ alarm \in BOOLEAN
  BY DEF SessionInv, SessionTypes
<1>2. f \in Flight /\ flight[f] = NoFlight /\ t # None /\ None \notin Flight
  BY NoneAssumption DEF FreeFlights
<1>3. /\ flight' = [flight EXCEPT ![f] = Sent(t)]
      /\ inFlight' = [inFlight EXCEPT ![t] = f]
      /\ excuse' = (excuse \/ PresentedElsewhere(t, stored))
  BY DEF DoRefresh
<1>4. /\ flight' \in [Flight -> FlightType] /\ inFlight' \in [Tab -> Flight \cup {None}]
      /\ flight'[f] = Sent(t) /\ \A g \in Flight \ {f} : flight'[g] = flight[g]
      /\ inFlight'[t] = f /\ \A u \in Tab \ {t} : inFlight'[u] = inFlight[u]
  BY <1>1, <1>2, <1>3, SentFlight
<1>5. SessionTypes'
  <2>1. excuse' \in BOOLEAN
    BY <1>3
  <2>2. QED
    BY <1>1, <1>4, <2>1 DEF SessionTypes, FlightType, Tokens
<1>6. FlightInv'
  <2>1. ASSUME NEW g \in Flight
        PROVE  /\ flight'[g].tab # None => inFlight'[flight'[g].tab] = g
               /\ flight'[g].pc = "idle" =>
                    flight'[g].tab = None /\ flight'[g].token = NoToken /\ flight'[g].new = NoToken
               /\ flight'[g].pc = "sent" => flight'[g].new = NoToken
               /\ flight'[g].pc = "answered" => flight'[g].tab # None
               /\ flight'[g].reply = "ok" => flight'[g].pc = "answered"
               /\ flight'[g].new.family \in {None, flight'[g].token.family}
    <3>1. CASE g = f
      BY <1>1, <1>2, <1>4, <3>1, SentFlight, TokenFacts, NoneAssumption
    <3>2. CASE g # f
      <4>1. flight[g].tab \in Tab \cup {None} /\ flight[g].tab # t
        BY <1>1, <1>2, <3>2, FlightFields DEF FlightInv
      <4>2. QED
        BY <1>1, <1>4, <3>2, <4>1 DEF FlightInv
    <3>3. QED
      BY <3>1, <3>2
  <2>2. \A u \in Tab : inFlight'[u] # None => flight'[inFlight'[u]].tab = u
    <3>1. \A u \in Tab \ {t} : inFlight[u] # f
      BY <1>1, <1>2, FlightFields, NoneAssumption DEF FlightInv
    <3>2. QED
      BY <1>1, <1>4, <3>1, SentFlight DEF FlightInv
  <2>3. QED
    BY <2>1, <2>2 DEF FlightInv
<1>7. ~excuse' => \A g \in Flight : flight[g].token # stored
  <2>1. \A g \in Flight : flight[g].tab # t
    BY <1>1, <1>2 DEF FlightInv
  <2>2. QED
    BY <1>3, <2>1 DEF PresentedElsewhere
<1>8. HonestInv'
  BY <1>1, <1>2, <1>3, <1>4, <1>5, <1>6, <1>7, SendSession, SentFlight
<1>9. QED
  BY <1>1, <1>4, <1>5, <1>6, <1>8, SentFlight DEF SessionInv, AlarmNeedsCause

\* The reply to a refresh is there: its token is stored, the former one is
\* cleared or kept, and the tab may refresh again.
LEMMA SettleSession ==
    ASSUME SessionInv, NEW f \in Flight, Settle(f)
    PROVE  /\ SessionInv' /\ flight[f].tab \in Tab
           /\ \A g \in Flight \ {f} : flight'[g] = flight[g]
<1>1. /\ SessionTypes /\ FlightInv /\ stored \in Tokens /\ flight \in [Flight -> FlightType]
      /\ inFlight \in [Tab -> Flight \cup {None}] /\ excuse \in BOOLEAN /\ alarm \in BOOLEAN
  BY DEF SessionInv, SessionTypes
<1>2. /\ flight' = [flight EXCEPT ![f] = NoFlight] /\ flight[f].pc = "answered"
      /\ inFlight' = Reset(flight[f].tab, f) /\ excuse' = excuse /\ alarm' = alarm
  BY DEF Settle, history
<1>3. PICK t \in Tab : flight[f].tab = t /\ inFlight[t] = f /\ t # None
  BY <1>1, <1>2, FlightFields DEF FlightInv
<1>4. /\ flight[f].reply = "ok" => stored' = flight[f].new
      /\ flight[f].reply # "ok" => stored' \in {stored, NoToken}
  BY NoneAssumption DEF Settle, LoggedOut, SetTokens, ClearTokens
<1>5. /\ flight' \in [Flight -> FlightType] /\ inFlight' \in [Tab -> Flight \cup {None}]
      /\ flight'[f] = NoFlight /\ \A g \in Flight \ {f} : flight'[g] = flight[g]
      /\ inFlight'[t] = None /\ \A u \in Tab \ {t} : inFlight'[u] = inFlight[u]
  BY <1>1, <1>2, <1>3, FlightFields DEF Reset
<1>6. SessionTypes'
  <2>1. stored' \in Tokens
    BY <1>1, <1>4, FlightFields, TokenFacts
  <2>2. QED
    BY <1>1, <1>2, <1>5, <2>1 DEF SessionTypes, FlightType, Tokens
<1>7. FlightInv'
  <2>1. ASSUME NEW g \in Flight
        PROVE  /\ flight'[g].tab # None => inFlight'[flight'[g].tab] = g
               /\ flight'[g].pc = "idle" =>
                    flight'[g].tab = None /\ flight'[g].token = NoToken /\ flight'[g].new = NoToken
               /\ flight'[g].pc = "sent" => flight'[g].new = NoToken
               /\ flight'[g].pc = "answered" => flight'[g].tab # None
               /\ flight'[g].reply = "ok" => flight'[g].pc = "answered"
               /\ flight'[g].new.family \in {None, flight'[g].token.family}
    <3>1. CASE g = f
      BY <1>5, <3>1, FlightFields, TokenFacts, NoneAssumption
    <3>2. CASE g # f
      <4>1. flight[g].tab \in Tab \cup {None} /\ flight[g].tab # t
        BY <1>1, <1>3, <3>2, FlightFields DEF FlightInv
      <4>2. QED
        BY <1>1, <1>5, <3>2, <4>1 DEF FlightInv
    <3>3. QED
      BY <3>1, <3>2
  <2>2. \A u \in Tab : inFlight'[u] # None => flight'[inFlight'[u]].tab = u
    <3>1. \A u \in Tab \ {t} : inFlight[u] # f
      BY <1>1, <1>3, NoneAssumption DEF FlightInv
    <3>2. QED
      BY <1>1, <1>5, <3>1 DEF FlightInv
  <2>3. QED
    BY <2>1, <2>2 DEF FlightInv
<1>8. HonestInv'
  <2>1. CASE flight[f].reply # "ok"
    BY <1>2, <1>4, <1>5, <1>6, <1>7, <2>1, FewerCopies, FlightFields, TokenFacts
  <2>2. CASE flight[f].reply = "ok"
    <3> SUFFICES ASSUME ~excuse
                 PROVE  StoredIsCurrent' /\ SentIsFresh' /\ StoredInFlight' /\ OneFlight'
      BY <1>2 DEF HonestInv
    <3>1. SentIsFresh /\ OneFlight
      BY DEF SessionInv, HonestInv
    <3>2. stored' = flight[f].new /\ stored'.state # "former"
      BY <1>4, <2>2, <3>1 DEF SentIsFresh
    <3>3. StoredIsCurrent'
      BY <3>2 DEF StoredIsCurrent
    <3>4. SentIsFresh'
      BY <1>5, <3>1, FlightFields, TokenFacts DEF SentIsFresh
    <3>5. ASSUME NEW g \in Flight, NEW fam \in Family,
                 fam \in {flight'[g].token.family, flight'[g].new.family}
          PROVE  g # f /\ Carries(g, fam)
      BY <1>5, <3>5, FlightFields, TokenFacts DEF Carries
    <3>6. StoredInFlight'
      <4>1. \A g \in Flight \ {f} : stored'.family \in Family => ~Carries(g, stored'.family)
        BY <3>1, <3>2 DEF OneFlight, Carries
      <4>2. stored'.family \in Family \cup {None}
        BY <1>6, TokenFacts DEF SessionTypes
      <4>3. QED
        BY <3>5, <4>1, <4>2 DEF StoredInFlight, Carries
    <3>7. OneFlight'
      BY <3>1, <3>5 DEF OneFlight, Carries
    <3>8. QED
      BY <3>3, <3>4, <3>6, <3>7
  <2>3. QED
    BY <2>1, <2>2
<1>9. QED
  BY <1>2, <1>3, <1>5, <1>6, <1>7, <1>8 DEF SessionInv, AlarmNeedsCause

\* The flights that the page of a tab leaves behind.
Left(t) ==
    [f \in Flight |->
        IF flight[f].tab # t THEN flight[f]
        ELSE IF flight[f].pc = "sent" THEN [flight[f] EXCEPT !.tab = None]
        ELSE NoFlight]

LEMMA LeftFlights ==
    ASSUME SessionInv, NEW t \in Tab
    PROVE  /\ Left(t) \in [Flight -> FlightType]
           /\ \A g \in Flight :
                /\ flight[g].tab # t => Left(t)[g] = flight[g]
                /\ flight[g].tab = t => Left(t)[g].tab = None
                /\ Left(t)[g].token \in {flight[g].token, NoToken}
                /\ Left(t)[g].new \in {flight[g].new, NoToken}
                /\ Left(t)[g].pc = "sent" => flight[g].pc = "sent"
                /\ Left(t)[g].pc = "idle" => Left(t)[g].token = NoToken /\ Left(t)[g].tab = None
                /\ Left(t)[g].pc # "answered" => Left(t)[g].new = NoToken
                /\ Left(t)[g].pc = "answered" => flight[g].tab # t
                /\ Left(t)[g].reply = "ok" => Left(t)[g].pc = "answered"
                /\ Left(t)[g].new.family \in {None, Left(t)[g].token.family}
<1>1. flight \in [Flight -> FlightType] /\ FlightInv /\ t # None
  BY NoneAssumption DEF SessionInv, SessionTypes
<1>2. ASSUME NEW g \in Flight
      PROVE  /\ Left(t)[g] \in FlightType
             /\ flight[g].tab # t => Left(t)[g] = flight[g]
             /\ flight[g].tab = t => Left(t)[g].tab = None
             /\ Left(t)[g].token \in {flight[g].token, NoToken}
             /\ Left(t)[g].new \in {flight[g].new, NoToken}
             /\ Left(t)[g].pc = "sent" => flight[g].pc = "sent"
             /\ Left(t)[g].pc = "idle" => Left(t)[g].token = NoToken /\ Left(t)[g].tab = None
             /\ Left(t)[g].pc # "answered" => Left(t)[g].new = NoToken
             /\ Left(t)[g].pc = "answered" => flight[g].tab # t
             /\ Left(t)[g].reply = "ok" => Left(t)[g].pc = "answered"
             /\ Left(t)[g].new.family \in {None, Left(t)[g].token.family}
  <2>1. CASE flight[g].tab # t
    <3>1. Left(t)[g] = flight[g] /\ flight[g] \in FlightType
      BY <1>1, <2>1 DEF Left
    <3>2. QED
      BY <1>1, <2>1, <3>1, FlightFields DEF FlightInv
  <2>2. CASE flight[g].tab = t /\ flight[g].pc = "sent"
    <3> DEFINE r == [flight[g] EXCEPT !.tab = None]
    <3>1. Left(t)[g] = r
      BY <2>2 DEF Left
    <3>2. /\ r \in FlightType /\ r.tab = None /\ r.pc = "sent"
          /\ r.token = flight[g].token /\ r.new = flight[g].new /\ r.reply = flight[g].reply
      <4>1. flight[g] \in FlightType
        BY <1>1
      <4>2. QED
        BY <2>2, <4>1 DEF FlightType
    <3> HIDE DEF r
    <3>3. QED
      BY <1>1, <2>2, <3>1, <3>2 DEF FlightInv
  <2>3. CASE flight[g].tab = t /\ flight[g].pc # "sent"
    <3>1. Left(t)[g] = NoFlight
      BY <2>3 DEF Left
    <3>2. QED
      BY <1>1, <2>3, <3>1, FlightFields, TokenFacts, NoneAssumption
  <2>4. QED
    BY <2>1, <2>2, <2>3
<1>3. Left(t) \in [Flight -> FlightType]
  BY <1>2 DEF Left
<1>4. QED
  BY <1>2, <1>3

\* A page is loaded.
LEMMA LoadSession ==
    ASSUME SessionInv, NEW t \in Tab, Load(t)
    PROVE  /\ SessionInv'
           /\ \A g \in Flight : flight[g].tab \notin {t, None} => flight'[g].tab = flight[g].tab
<1>1. /\ SessionTypes /\ FlightInv /\ stored \in Tokens /\ flight \in [Flight -> FlightType]
      /\ inFlight \in [Tab -> Flight \cup {None}] /\ excuse \in BOOLEAN /\ alarm \in BOOLEAN
      /\ t # None
  BY NoneAssumption DEF SessionInv, SessionTypes
<1>2. stored' = stored /\ alarm' = alarm
  BY DEF Load
<1> DEFINE left == Left(t)
<1>3. /\ left \in [Flight -> FlightType]
      /\ \A g \in Flight :
           /\ flight[g].tab # t => left[g] = flight[g]
           /\ flight[g].tab = t => left[g].tab = None
           /\ left[g].token \in {flight[g].token, NoToken}
           /\ left[g].new \in {flight[g].new, NoToken}
           /\ left[g].pc = "sent" => flight[g].pc = "sent"
           /\ left[g].pc = "idle" => left[g].token = NoToken /\ left[g].tab = None
           /\ left[g].pc # "answered" => left[g].new = NoToken
           /\ left[g].pc = "answered" => flight[g].tab # t
           /\ left[g].reply = "ok" => left[g].pc = "answered"
           /\ left[g].new.family \in {None, left[g].token.family}
  BY LeftFlights
<1>4. \/ /\ stored = NoToken /\ flight' = left /\ excuse' = excuse
         /\ inFlight' = [inFlight EXCEPT ![t] = None]
      \/ /\ stored # NoToken
         /\ \E f \in Flight : /\ left[f] = NoFlight /\ flight' = [left EXCEPT ![f] = Sent(t)]
                              /\ inFlight' = [inFlight EXCEPT ![t] = f]
         /\ excuse' = (excuse \/ \E g \in Flight : flight[g].token = stored)
  BY DEF Load, Left
<1> HIDE DEF left
<1>5. \A g \in Flight :
        /\ left[g].tab # t /\ left[g].tab \in Tab \cup {None}
        /\ left[g].tab # None => inFlight[left[g].tab] = g
  BY <1>1, <1>3, FlightFields DEF FlightInv
<1>6. \A u \in Tab \ {t} : inFlight[u] # None => left[inFlight[u]].tab = u
  BY <1>1, <1>3 DEF FlightInv
<1>7. CASE /\ stored = NoToken /\ flight' = left /\ excuse' = excuse
           /\ inFlight' = [inFlight EXCEPT ![t] = None]
  <2>1. /\ inFlight' \in [Tab -> Flight \cup {None}]
        /\ inFlight'[t] = None /\ \A u \in Tab \ {t} : inFlight'[u] = inFlight[u]
    BY <1>1, <1>7
  <2>2. SessionTypes'
    BY <1>1, <1>2, <1>3, <1>7, <2>1 DEF SessionTypes, FlightType, Tokens
  <2>3. FlightInv'
    <3>1. ASSUME NEW g \in Flight
          PROVE  /\ left[g].tab # None => inFlight'[left[g].tab] = g
                 /\ left[g].pc = "answered" => left[g].tab # None
      BY <1>1, <1>3, <1>5, <2>1 DEF FlightInv
    <3>2. \A u \in Tab : inFlight'[u] # None => left[inFlight'[u]].tab = u
      BY <1>6, <2>1
    <3>3. QED
      BY <1>3, <1>7, <3>1, <3>2, FlightFields DEF FlightInv
  <2>4. HonestInv'
    <3>1. stored.state # "former"
      BY <1>7, TokenFacts
    <3>2. \A g \in Flight :
            flight'[g].tab = flight[g].tab \/ flight'[g].token.family = None
              \/ flight[g].token # stored
      BY <1>3, <1>7, TokenFacts
    <3>3. QED
      BY <1>2, <1>3, <1>7, <2>2, <2>3, <3>1, <3>2, FewerCopies
  <2>5. QED
    BY <1>2, <1>3, <1>7, <2>2, <2>3, <2>4 DEF SessionInv, AlarmNeedsCause
<1>8. ASSUME stored # NoToken, NEW f \in Flight, left[f] = NoFlight,
             flight' = [left EXCEPT ![f] = Sent(t)], inFlight' = [inFlight EXCEPT ![t] = f],
             excuse' = (excuse \/ \E g \in Flight : flight[g].token = stored)
      PROVE  /\ SessionInv'
             /\ \A g \in Flight : flight[g].tab \notin {t, None} => flight'[g].tab = flight[g].tab
  <2>1. /\ inFlight' \in [Tab -> Flight \cup {None}]
        /\ inFlight'[t] = f /\ \A u \in Tab \ {t} : inFlight'[u] = inFlight[u]
        /\ flight' \in [Flight -> FlightType]
        /\ flight'[f] = Sent(t) /\ \A g \in Flight \ {f} : flight'[g] = left[g]
        /\ f # None /\ left[f].tab = None
    BY <1>1, <1>3, <1>8, SentFlight, FlightFields, NoneAssumption
  <2>2. SessionTypes'
    <3>1. excuse' \in BOOLEAN
      BY <1>8
    <3>2. QED
      BY <1>1, <1>2, <2>1, <3>1 DEF SessionTypes, FlightType, Tokens
  <2>3. FlightInv'
    <3>1. ASSUME NEW g \in Flight \ {f}
          PROVE  /\ left[g].tab # None => inFlight'[left[g].tab] = g
                 /\ left[g].pc = "answered" => left[g].tab # None
      BY <1>1, <1>3, <1>5, <2>1 DEF FlightInv
    <3>2. \A u \in Tab : inFlight'[u] # None => flight'[inFlight'[u]].tab = u
      <4>1. \A u \in Tab \ {t} : inFlight[u] # f
        BY <1>6, <2>1, NoneAssumption
      <4>2. QED
        BY <1>1, <1>6, <2>1, <4>1, SentFlight
    <3>3. ASSUME NEW g \in Flight
          PROVE  /\ flight'[g].tab # None => inFlight'[flight'[g].tab] = g
                 /\ flight'[g].pc = "idle" =>
                      flight'[g].tab = None /\ flight'[g].token = NoToken /\ flight'[g].new = NoToken
                 /\ flight'[g].pc = "sent" => flight'[g].new = NoToken
                 /\ flight'[g].pc = "answered" => flight'[g].tab # None
                 /\ flight'[g].reply = "ok" => flight'[g].pc = "answered"
                 /\ flight'[g].new.family \in {None, flight'[g].token.family}
      <4>1. CASE g = f
        BY <1>1, <2>1, <4>1, SentFlight, TokenFacts, NoneAssumption
      <4>2. CASE g # f
        BY <1>3, <2>1, <3>1, <4>2
      <4>3. QED
        BY <4>1, <4>2
    <3>4. QED
      BY <3>2, <3>3 DEF FlightInv
  <2>4. HonestInv'
    <3>1. ~excuse' => \A g \in Flight : flight[g].token # stored
      BY <1>8
    <3>2. excuse => excuse'
      BY <1>8
    <3>3. /\ flight'[f].token = stored /\ flight'[f].new = NoToken /\ flight'[f].tab # None
      BY <1>1, <2>1, SentFlight
    <3>4. \A g \in Flight \ {f} :
            /\ flight'[g].token \in {flight[g].token, NoToken}
            /\ flight'[g].new \in {flight[g].new, NoToken}
            /\ flight'[g].pc = "sent" => flight[g].pc = "sent"
      BY <1>3, <2>1
    <3>5. QED
      BY <1>2, <2>2, <2>3, <3>1, <3>2, <3>3, <3>4, SendSession
  <2>5. \A g \in Flight : flight[g].tab \notin {t, None} => flight'[g].tab = flight[g].tab
    <3>1. \A g \in Flight : flight[g].tab \notin {t, None} => g # f
      BY <1>3, <2>1
    <3>2. QED
      BY <1>3, <2>1, <3>1
  <2>6. QED
    BY <1>2, <2>2, <2>3, <2>4, <2>5 DEF SessionInv, AlarmNeedsCause
<1>9. QED
  BY <1>4, <1>7, <1>8

\* Nothing happens to the tokens.
LEMMA SameSession ==
    ASSUME SessionInv, UNCHANGED <<stored, inFlight, flight, excuse, alarm>>
    PROVE  SessionInv'
<1>1. SessionTypes'
  BY DEF SessionInv, SessionTypes, FlightType, Tokens
<1>2. FlightInv'
  BY DEF SessionInv, FlightInv
<1>3. HonestInv'
  BY <1>1, <1>2, FewerCopies
<1>4. QED
  BY <1>1, <1>2, <1>3 DEF SessionInv, AlarmNeedsCause

-----------------------------------------------------------------------------
(* Calls.                                                                  *)

\* A call waits for the refresh of its own tab, and a call that is sent again
\* has inserted nothing.
GoodCall(r, fl) ==
    /\ r.pc # "idle" => r.tab \in Tab
    /\ r.pc = "waiting" => r.on \in Flight /\ fl[r.on].tab = r.tab
    /\ ~r.inserted

GoodCalls(calls, fl) == calls \in [Call -> CallType] /\ \A c \in Call : GoodCall(calls[c], fl)

Screens == {"loading", "login", "board"}

PageTypes ==
    /\ access \in [Tab -> BOOLEAN]
    /\ screen \in [Tab -> Screens]
    /\ loads \in 0..MaxLoads
    /\ doubled \in BOOLEAN

\* The inductive invariant of the calls.
PageInv == PageTypes /\ GoodCalls(call, flight) /\ PostedOnce

\* A 401 of CreatePost promises that nothing was inserted: the interceptor
\* answers before the handler runs, and the handler has no 401 of its own.
LEMMA UnauthenticatedPost ==
    ASSUME NEW bearer, NEW r \in CreatePostReplies(bearer), r.status = 401
    PROVE  r.effect = FALSE
<1>1. ASSUME NEW o \in CreatePostOutcomes
      PROVE  PostReply(o).status # 401
  <2>1. o.err \in {"nil", "internal", "domain.ErrInvalidPost", "domain.ErrPostNotFound"}
    BY DEF CreatePostOutcomes, CreateOutcomes, InvalidPost, Outcome
  <2>2. mapPostErr(o.err) \in {"OK", "InvalidArgument", "NotFound", "Internal"}
    BY <2>1 DEF mapPostErr
  <2>3. HTTPStatusFromCode(mapPostErr(o.err)) \in {200, 400, 404, 500}
    BY <2>2 DEF HTTPStatusFromCode
  <2>4. PostReply(o).status = HTTPStatusFromCode(mapPostErr(o.err))
    BY DEF PostReply
  <2>5. QED
    BY <2>3, <2>4
<1>2. r = Unauthenticated \/ \E o \in CreatePostOutcomes : r = PostReply(o)
  BY DEF CreatePostReplies, AuthInterceptor
<1>3. QED
  BY <1>1, <1>2 DEF Unauthenticated

\* No call.
LEMMA NoCallFacts ==
    NoCall \in CallType /\ \A fl : GoodCall(NoCall, fl)
  BY DEF NoCall, CallType, GoodCall

\* One call changes.
LEMMA OneCall ==
    ASSUME NEW calls, NEW fl, GoodCalls(calls, fl), NEW c \in Call,
           NEW r \in CallType, GoodCall(r, fl)
    PROVE  GoodCalls([calls EXCEPT ![c] = r], fl)
<1>1. /\ [calls EXCEPT ![c] = r] \in [Call -> CallType]
      /\ \A d \in Call : [calls EXCEPT ![c] = r][d] = IF d = c THEN r ELSE calls[d]
  BY DEF GoodCalls
<1>2. QED
  BY <1>1 DEF GoodCalls

\* The refreshes that are waited for keep their tabs.
LEMMA SameTabs ==
    ASSUME NEW calls, NEW fl, NEW gl, GoodCalls(calls, fl),
           \A c \in Call : calls[c].pc = "waiting" => gl[calls[c].on].tab = fl[calls[c].on].tab
    PROVE  GoodCalls(calls, gl)
  BY DEF GoodCalls, GoodCall

\* A screen is left.
LEMMA UnmountedCalls ==
    ASSUME NEW calls, NEW fl, GoodCalls(calls, fl), NEW t
    PROVE  GoodCalls(Unmounted(calls, t), fl)
<1> DEFINE U(c) == IF calls[c].tab = t THEN [calls[c] EXCEPT !.mounted = FALSE] ELSE calls[c]
<1>1. Unmounted(calls, t) = [c \in Call |-> U(c)]
  BY DEF Unmounted
<1>2. ASSUME NEW c \in Call
      PROVE  /\ U(c) \in CallType
             /\ U(c).pc = calls[c].pc /\ U(c).tab = calls[c].tab /\ U(c).on = calls[c].on
             /\ U(c).inserted = calls[c].inserted
  BY DEF GoodCalls, CallType
<1> HIDE DEF U
<1>3. ASSUME NEW c \in Call
      PROVE  U(c) \in CallType /\ GoodCall(U(c), fl)
  BY <1>2 DEF GoodCalls, GoodCall
<1>4. QED
  BY <1>1, <1>3 DEF GoodCalls

\* A tab goes back to the login screen.
LEMMA LoggedOutPage ==
    ASSUME PageTypes, NEW t, NEW calls, NEW fl, GoodCalls(calls, fl), LoggedOut(t, calls)
    PROVE  /\ stored' = NoToken
           /\ access' \in [Tab -> BOOLEAN] /\ screen' \in [Tab -> Screens]
           /\ GoodCalls(call', fl)
<1>1. GoodCalls(Unmounted(calls, t), fl)
  BY UnmountedCalls
<1>2. QED
  BY <1>1 DEF LoggedOut, PageTypes, Screens

\* The form of a screen is sent.
LEMMA SubmitPage ==
    ASSUME SessionInv, PageInv, NEW t \in Tab, Submit(t)
    PROVE  SessionInv' /\ PageInv'
<1>1. UNCHANGED <<stored, inFlight, flight, excuse, alarm, access, screen, loads, doubled>>
  BY DEF Submit, page, history
<1>2. PICK c \in Call, b \in BOOLEAN, m \in {"post", "login"} :
        call' = [call EXCEPT ![c] =
            [NoCall EXCEPT !.pc = "sent", !.tab = t, !.mounted = TRUE, !.bearer = b, !.method = m]]
  <2> DEFINE c == OneOf(FreeCalls)
             b == screen[t] = "board" /\ access[t]
             m == IF screen[t] = "board" THEN "post" ELSE "login"
  <2>1. c \in Call
    BY DEF Submit, OneOf, FreeCalls
  <2>2. b \in BOOLEAN /\ m \in {"post", "login"}
    OBVIOUS
  <2>3. call' = [call EXCEPT ![c] =
            [NoCall EXCEPT !.pc = "sent", !.tab = t, !.mounted = TRUE, !.bearer = b, !.method = m]]
    BY DEF Submit
  <2>4. QED
    BY <2>1, <2>2, <2>3, Zenon
<1> DEFINE r == [NoCall EXCEPT !.pc = "sent", !.tab = t, !.mounted = TRUE, !.bearer = b,
                               !.method = m]
<1>3. r \in CallType /\ r.pc = "sent" /\ r.tab = t /\ r.inserted = FALSE
  BY DEF NoCall, CallType
<1>4. call' = [call EXCEPT ![c] = r]
  BY <1>2
<1> HIDE DEF r
<1>5. GoodCall(r, flight)
  BY <1>3 DEF GoodCall
<1>6. GoodCalls(call', flight)
  BY <1>3, <1>4, <1>5, OneCall DEF PageInv
<1>7. PageInv'
  BY <1>1, <1>6 DEF PageInv, PageTypes, PostedOnce
<1>8. QED
  BY <1>1, <1>7, SameSession

\* The logout button, and the way back to the login form.
LEMMA LeavePage ==
    ASSUME SessionInv, PageInv, NEW t \in Tab, Logout(t) \/ Restart(t)
    PROVE  SessionInv' /\ PageInv'
<1>1. UNCHANGED <<inFlight, flight, excuse, alarm, loads, doubled>>
  BY DEF Logout, Restart, history
<1>2. CASE Logout(t)
  <2>1. /\ stored' = NoToken
        /\ access' \in [Tab -> BOOLEAN] /\ screen' \in [Tab -> Screens]
        /\ GoodCalls(call', flight)
    BY <1>2, LoggedOutPage DEF Logout, PageInv
  <2>2. PageInv'
    BY <1>1, <2>1 DEF PageInv, PageTypes, PostedOnce
  <2>3. QED
    BY <1>1, <2>1, <2>2, ClearSession
<1>3. CASE Restart(t)
  <2>1. UNCHANGED <<stored, access, screen>> /\ call' = Unmounted(call, t)
    BY <1>3 DEF Restart, page
  <2>2. GoodCalls(call', flight)
    BY <2>1, UnmountedCalls DEF PageInv
  <2>3. PageInv'
    BY <1>1, <2>1, <2>2 DEF PageInv, PageTypes, PostedOnce
  <2>4. QED
    BY <1>1, <2>1, <2>3, SameSession
<1>4. QED
  BY <1>2, <1>3

\* A page is loaded: the calls of the tab are gone, and nobody else waits for
\* its refresh.
LEMMA LoadPage ==
    ASSUME SessionInv, PageInv, NEW t \in Tab, Load(t)
    PROVE  SessionInv' /\ PageInv'
<1>1. /\ SessionInv'
      /\ \A g \in Flight : flight[g].tab \notin {t, None} => flight'[g].tab = flight[g].tab
  BY LoadSession
<1>2. /\ call' = [c \in Call |-> IF call[c].tab = t THEN NoCall ELSE call[c]]
      /\ doubled' = doubled
  BY DEF Load
<1>3. /\ access' \in [Tab -> BOOLEAN] /\ screen' \in [Tab -> Screens]
      /\ loads' \in 0..MaxLoads
  <2>1. access' \in [Tab -> BOOLEAN]
    BY DEF Load, PageInv, PageTypes
  <2>2. \E x \in Screens : screen' = [screen EXCEPT ![t] = x]
    BY DEF Load, Screens
  <2>3. loads' \in 0..MaxLoads
    BY MaxLoadsAssumption DEF Load, PageInv, PageTypes
  <2>4. QED
    BY <2>1, <2>2, <2>3 DEF PageInv, PageTypes
<1>4. GoodCalls(call', flight')
  <2>1. ASSUME NEW c \in Call
        PROVE  call'[c] \in CallType /\ GoodCall(call'[c], flight')
    <3>1. CASE call[c].tab = t
      BY <1>2, <3>1, NoCallFacts
    <3>2. CASE call[c].tab # t
      <4>1. call'[c] = call[c] /\ call[c] \in CallType /\ GoodCall(call[c], flight)
        BY <1>2, <3>2 DEF PageInv, GoodCalls
      <4>2. QED
        BY <1>1, <3>2, <4>1, NoneAssumption DEF GoodCall
    <3>3. QED
      BY <3>1, <3>2
  <2>2. QED
    BY <1>2, <2>1 DEF GoodCalls
<1>5. PageInv'
  BY <1>2, <1>3, <1>4 DEF PageInv, PageTypes, PostedOnce
<1>6. QED
  BY <1>1, <1>5

\* The server's steps leave the pages alone.
LEMMA ServerPage ==
    ASSUME SessionInv, PageInv,
           \/ \E f \in Flight : Rotate(f) \/ Reject(f) \/ RotateFails(f)
           \/ \E fam \in Family : EndSession(fam)
    PROVE  SessionInv' /\ PageInv'
<1>1. SessionInv' /\ \A g \in Flight : flight'[g].tab = flight[g].tab
  BY RotateSession, RefuseSession, EndSessionStep
<1>2. UNCHANGED <<access, screen, call, loads, doubled>>
  BY DEF Rotate, Reject, RotateFails, EndSession, page, history
<1>3. GoodCalls(call, flight')
  <2>1. \A c \in Call :
          call[c].pc = "waiting" => flight'[call[c].on].tab = flight[call[c].on].tab
    BY <1>1 DEF PageInv, GoodCalls, GoodCall
  <2>2. QED
    BY <2>1, SameTabs DEF PageInv
<1>4. PageInv'
  BY <1>2, <1>3 DEF PageInv, PageTypes, PostedOnce
<1>5. QED
  BY <1>1, <1>4

\* The reply to a refresh: everyone who waits for it goes on.
LEMMA SettlePage ==
    ASSUME SessionInv, PageInv, NEW f \in Flight, Settle(f)
    PROVE  SessionInv' /\ PageInv'
<1>1. /\ SessionInv' /\ flight[f].tab \in Tab
      /\ \A g \in Flight \ {f} : flight'[g] = flight[g]
  BY SettleSession
<1> DEFINE t == flight[f].tab
           ok == flight[f].reply = "ok"
           waiting == {c \in Call : call[c].pc = "waiting" /\ call[c].on = f}
           resumed == [c \in Call |-> IF c \in waiting THEN Resumed(c, ok) ELSE call[c]]
<1>2. GoodCalls(resumed, flight')
  <2>1. ASSUME NEW c \in Call
        PROVE  resumed[c] \in CallType /\ GoodCall(resumed[c], flight')
    <3>1. call[c] \in CallType /\ GoodCall(call[c], flight)
      BY DEF PageInv, GoodCalls
    <3>2. CASE c \in waiting /\ ok
      <4> DEFINE b == call[c].method = "post"
                 r == [call[c] EXCEPT !.pc = "sent", !.retried = TRUE, !.on = None, !.bearer = b]
      <4>1. resumed[c] = r
        BY <3>2 DEF Resumed
      <4>2. b \in BOOLEAN
        OBVIOUS
      <4> HIDE DEF b
      <4>3. /\ r \in CallType /\ r.pc = "sent" /\ r.tab = call[c].tab
            /\ r.inserted = call[c].inserted
        BY <3>1, <4>2 DEF CallType
      <4> HIDE DEF r
      <4>4. QED
        BY <3>1, <3>2, <4>1, <4>3 DEF GoodCall
    <3>3. CASE c \in waiting /\ ~ok
      BY <3>3, NoCallFacts DEF Resumed
    <3>4. CASE c \notin waiting
      <4>1. resumed[c] = call[c]
        BY <3>4
      <4>2. call[c].pc = "waiting" => call[c].on \in Flight \ {f}
        BY <3>1, <3>4 DEF GoodCall
      <4>3. QED
        BY <1>1, <3>1, <4>1, <4>2 DEF GoodCall
    <3>5. QED
      BY <3>2, <3>3, <3>4
  <2> HIDE DEF waiting, ok
  <2>2. QED
    BY <2>1 DEF GoodCalls
<1>3. UNCHANGED <<loads, doubled>>
  BY DEF Settle, history
<1>4. \/ LoggedOut(t, resumed)
      \/ /\ call' = resumed
         /\ \E x \in Screens : screen' = [screen EXCEPT ![t] = x]
         /\ \E b \in BOOLEAN : access' = access \/ access' = [access EXCEPT ![t] = b]
  <2>1. LoggedOut(t, resumed) \/ call' = resumed
    BY DEF Settle
  <2>2. \/ LoggedOut(t, resumed)
        \/ screen' = [screen EXCEPT ![t] =
              IF @ # "loading" THEN @ ELSE IF ok THEN "board" ELSE "login"]
    BY DEF Settle
  <2>3. \/ LoggedOut(t, resumed)
        \/ access' = access \/ access' = [access EXCEPT ![t] = TRUE]
        \/ access' = [access EXCEPT ![t] = FALSE]
    BY DEF Settle, SetTokens, ClearTokens
  <2>4. screen[t] \in Screens
    BY <1>1 DEF PageInv, PageTypes
  <2> HIDE DEF resumed, t, ok
  <2>5. QED
    BY <2>1, <2>2, <2>3, <2>4 DEF Screens
<1> HIDE DEF resumed, t
<1>5. /\ access' \in [Tab -> BOOLEAN] /\ screen' \in [Tab -> Screens]
      /\ GoodCalls(call', flight')
  <2>1. CASE LoggedOut(t, resumed)
    BY <1>2, <2>1, LoggedOutPage DEF PageInv
  <2>2. CASE ~LoggedOut(t, resumed)
    BY <1>2, <1>4, <2>2 DEF PageInv, PageTypes
  <2>3. QED
    BY <2>1, <2>2
<1>6. PageInv'
  BY <1>3, <1>5 DEF PageInv, PageTypes, PostedOnce
<1>7. QED
  BY <1>1, <1>6

\* A call that met a 401 starts the refresh of its tab, or joins it.
LEMMA RefreshesPage ==
    ASSUME SessionInv, PageInv, NEW c \in Call, call[c].pc = "sent", NEW status,
           NEW inserted, inserted = FALSE, Refreshes(c, status, inserted), alarm' = alarm
    PROVE  /\ SessionInv' /\ GoodCalls(call', flight') /\ UNCHANGED <<access, screen>>
<1>1. /\ call[c] \in CallType /\ GoodCall(call[c], flight)
      /\ call \in [Call -> CallType] /\ GoodCalls(call, flight)
  BY DEF PageInv, GoodCalls
<1>2. PICK t \in Tab : t = call[c].tab
  BY <1>1 DEF GoodCall
<1> DEFINE w(f) == [call[c] EXCEPT !.pc = "waiting", !.on = f, !.inserted = inserted]
<1>3. ASSUME NEW f \in Flight
      PROVE  /\ w(f) \in CallType /\ w(f).pc = "waiting" /\ w(f).on = f /\ w(f).tab = t
             /\ w(f).inserted = FALSE
  BY <1>1, <1>2 DEF CallType
<1>4. \/ /\ inFlight[t] # None
         /\ call' = [call EXCEPT ![c] = w(inFlight[t])]
         /\ UNCHANGED <<flight, inFlight, excuse>>
      \/ /\ inFlight[t] = None /\ FreeFlights # {}
         /\ DoRefresh(t, OneOf(FreeFlights))
         /\ call' = [call EXCEPT ![c] = w(OneOf(FreeFlights))]
  BY <1>2 DEF Refreshes, JoinsRefresh
<1>5. stored # NoToken /\ UNCHANGED <<stored, access, screen>>
  BY DEF Refreshes, MayRefresh
<1>6. /\ inFlight \in [Tab -> Flight \cup {None}] /\ FlightInv
      /\ flight \in [Flight -> FlightType]
  BY DEF SessionInv, SessionTypes
<1> HIDE DEF w
<1>7. CASE /\ inFlight[t] # None
           /\ call' = [call EXCEPT ![c] = w(inFlight[t])]
           /\ UNCHANGED <<flight, inFlight, excuse>>
  <2>1. inFlight[t] \in Flight /\ flight[inFlight[t]].tab = t
    BY <1>6, <1>7 DEF FlightInv
  <2>2. GoodCall(w(inFlight[t]), flight) /\ w(inFlight[t]) \in CallType
    BY <1>2, <1>3, <2>1 DEF GoodCall
  <2>3. GoodCalls(call', flight)
    BY <1>1, <1>7, <2>2, OneCall
  <2>4. QED
    BY <1>5, <1>7, <2>3, SameSession
<1>8. CASE /\ inFlight[t] = None /\ FreeFlights # {}
           /\ DoRefresh(t, OneOf(FreeFlights))
           /\ call' = [call EXCEPT ![c] = w(OneOf(FreeFlights))]
  <2>1. PICK f \in FreeFlights : f = OneOf(FreeFlights)
    BY <1>8 DEF OneOf
  <2>2. f \in Flight /\ flight[f].tab = None
    BY <2>1, FlightFields DEF FreeFlights
  <2>3. SessionInv' /\ flight'[f].tab = t /\ \A g \in Flight \ {f} : flight'[g] = flight[g]
    BY <1>5, <1>8, <2>1, RefreshSession
  <2>4. GoodCalls(call, flight')
    <3>1. \A d \in Call : call[d].pc = "waiting" => call[d].on \in Flight \ {f}
      BY <1>1, <2>2, NoneAssumption DEF GoodCalls, GoodCall
    <3>2. QED
      BY <1>1, <2>3, <3>1, SameTabs
  <2>5. GoodCall(w(f), flight') /\ w(f) \in CallType
    BY <1>3, <2>2, <2>3 DEF GoodCall
  <2>6. GoodCalls(call', flight')
    BY <1>8, <2>1, <2>4, <2>5, OneCall
  <2>7. QED
    BY <1>5, <2>3, <2>6
<1>9. QED
  BY <1>4, <1>7, <1>8

\* A call that failed is over, and may take its tab back to the login screen.
LEMMA FailsPage ==
    ASSUME SessionInv, PageInv, NEW c \in Call, NEW status, Fails(c, status), alarm' = alarm
    PROVE  /\ SessionInv' /\ GoodCalls(call', flight')
           /\ access' \in [Tab -> BOOLEAN] /\ screen' \in [Tab -> Screens]
<1> DEFINE over == [call EXCEPT ![c] = NoCall]
<1>1. GoodCalls(over, flight)
  BY OneCall, NoCallFacts DEF PageInv
<1>2. /\ \/ LoggedOut(call[c].tab, over)
         \/ call' = over /\ UNCHANGED <<stored, access, screen>>
      /\ UNCHANGED <<flight, inFlight, excuse>>
  BY DEF Fails
<1> HIDE DEF over
<1>3. CASE LoggedOut(call[c].tab, over)
  <2>1. /\ stored' = NoToken
        /\ access' \in [Tab -> BOOLEAN] /\ screen' \in [Tab -> Screens]
        /\ GoodCalls(call', flight)
    BY <1>1, <1>3, LoggedOutPage DEF PageInv
  <2>2. QED
    BY <1>2, <2>1, ClearSession
<1>4. CASE call' = over /\ UNCHANGED <<stored, access, screen>>
  BY <1>1, <1>2, <1>4, SameSession DEF PageInv, PageTypes
<1>5. QED
  BY <1>2, <1>3, <1>4

\* A call is over and nothing else has happened.
LEMMA OverPage ==
    ASSUME SessionInv, PageInv, NEW c \in Call, call' = [call EXCEPT ![c] = NoCall],
           UNCHANGED <<page, inFlight, flight, excuse, alarm>>
    PROVE  /\ SessionInv' /\ GoodCalls(call', flight')
           /\ access' \in [Tab -> BOOLEAN] /\ screen' \in [Tab -> Screens]
<1>1. GoodCalls(call', flight)
  BY OneCall, NoCallFacts DEF PageInv
<1>2. QED
  BY <1>1, SameSession DEF PageInv, PageTypes, page

\* The reply to createPost: a call that may be sent again has inserted nothing.
LEMMA PostPage ==
    ASSUME SessionInv, PageInv, NEW c \in Call, PostReplied(c)
    PROVE  SessionInv' /\ PageInv'
<1>1. ~call[c].inserted /\ call[c].inserted \in BOOLEAN /\ call[c].pc = "sent"
  BY DEF PostReplied, PageInv, GoodCalls, GoodCall, CallType
<1>2. PICK r \in CreatePostReplies(call[c].bearer) :
        /\ doubled' = (doubled \/ (r.effect /\ call[c].inserted))
        /\ \/ /\ r.status = 200
              /\ call' = [call EXCEPT ![c] = NoCall]
              /\ UNCHANGED <<page, inFlight, flight, excuse>>
           \/ r.status # 200 /\ Refreshes(c, r.status, call[c].inserted \/ r.effect)
           \/ r.status # 200 /\ Fails(c, r.status)
  BY DEF PostReplied
<1>3. loads' = loads /\ alarm' = alarm
  BY DEF PostReplied
<1>4. doubled' \in BOOLEAN /\ ~doubled'
  BY <1>1, <1>2 DEF PageInv, PageTypes, PostedOnce
<1>5. /\ SessionInv' /\ GoodCalls(call', flight')
      /\ access' \in [Tab -> BOOLEAN] /\ screen' \in [Tab -> Screens]
  <2>1. CASE /\ call' = [call EXCEPT ![c] = NoCall]
             /\ UNCHANGED <<page, inFlight, flight, excuse>>
    BY <1>3, <2>1, OverPage
  <2>2. CASE Refreshes(c, r.status, call[c].inserted \/ r.effect)
    <3>1. r.status = 401
      BY <2>2 DEF Refreshes, MayRefresh
    <3>2. (call[c].inserted \/ r.effect) = FALSE
      BY <1>1, <3>1, UnauthenticatedPost
    <3>3. /\ SessionInv' /\ GoodCalls(call', flight') /\ UNCHANGED <<access, screen>>
      BY <1>1, <1>3, <2>2, <3>2, RefreshesPage
    <3>4. QED
      BY <3>3 DEF PageInv, PageTypes
  <2>3. CASE Fails(c, r.status)
    BY <1>3, <2>3, FailsPage
  <2>4. QED
    BY <1>2, <2>1, <2>2, <2>3
<1>6. PageInv'
  BY <1>3, <1>4, <1>5 DEF PageInv, PageTypes, PostedOnce
<1>7. QED
  BY <1>5, <1>6

\* The reply to a form of the login screens, and a call that got lost.
LEMMA LoginPage ==
    ASSUME SessionInv, PageInv, NEW c \in Call, LoginReplied(c) \/ NetworkFails(c)
    PROVE  SessionInv' /\ PageInv'
<1>1. loads' = loads /\ alarm' = alarm /\ doubled' = doubled /\ call[c].pc = "sent"
  BY DEF LoginReplied, NetworkFails, history
<1>2. CASE /\ call' = [call EXCEPT ![c] = NoCall]
           /\ UNCHANGED <<page, inFlight, flight, excuse>>
  BY <1>1, <1>2, OverPage DEF PageInv, PageTypes, PostedOnce
<1>3. CASE \E status \in LoginStatuses \ {200} : Refreshes(c, status, FALSE) \/ Fails(c, status)
  <2>1. /\ SessionInv' /\ GoodCalls(call', flight')
        /\ access' \in [Tab -> BOOLEAN] /\ screen' \in [Tab -> Screens]
    <3>1. PICK status : Refreshes(c, status, FALSE) \/ Fails(c, status)
      BY <1>3
    <3>2. CASE Refreshes(c, status, FALSE)
      <4>1. /\ SessionInv' /\ GoodCalls(call', flight') /\ UNCHANGED <<access, screen>>
        BY <1>1, <3>2, RefreshesPage
      <4>2. QED
        BY <4>1 DEF PageInv, PageTypes
    <3>3. CASE Fails(c, status)
      BY <1>1, <3>3, FailsPage
    <3>4. QED
      BY <3>1, <3>2, <3>3
  <2>2. QED
    BY <1>1, <2>1 DEF PageInv, PageTypes, PostedOnce
<1> DEFINE over == [call EXCEPT ![c] = NoCall]
           t == call[c].tab
<1>4. CASE /\ FreeFamilies # {}
           /\ SetTokens(t, RefreshToken(OneOf(FreeFamilies), "current"))
           /\ screen' = [screen EXCEPT ![t] = "board"]
           /\ call' = (IF screen[t] = "login" THEN Unmounted(over, t) ELSE over)
           /\ UNCHANGED <<inFlight, flight, excuse>>
  <2>1. GoodCalls(over, flight)
    BY OneCall, NoCallFacts DEF PageInv
  <2> HIDE DEF over
  <2>2. GoodCalls(call', flight)
    BY <1>4, <2>1, UnmountedCalls
  <2>3. access' \in [Tab -> BOOLEAN] /\ screen' \in [Tab -> Screens]
    BY <1>4 DEF SetTokens, PageInv, PageTypes, Screens
  <2>4. SessionInv'
    BY <1>1, <1>4, LoginSession DEF SetTokens
  <2>5. QED
    BY <1>1, <1>4, <2>2, <2>3, <2>4 DEF PageInv, PageTypes, PostedOnce
<1>5. QED
  BY <1>2, <1>3, <1>4 DEF LoginReplied, NetworkFails, history

-----------------------------------------------------------------------------

\* The inductive invariant of the browser.
BrowserInv == SessionInv /\ PageInv

\* The browser starts in the invariant.
LEMMA InitBrowserInv == Init => BrowserInv
<1> SUFFICES ASSUME Init
             PROVE  BrowserInv
  OBVIOUS
<1>1. \A f \in Flight : flight[f] = NoFlight
  BY DEF Init
<1>2. SessionTypes
  BY FlightFields, TokenFacts DEF Init, SessionTypes
<1>3. FlightInv
  BY <1>1, FlightFields, TokenFacts, NoneAssumption DEF Init, FlightInv
<1>4. HonestInv
  BY <1>1, FlightFields, TokenFacts
     DEF Init, HonestInv, StoredIsCurrent, SentIsFresh, StoredInFlight, OneFlight, Carries
<1>5. AlarmNeedsCause
  BY DEF Init, AlarmNeedsCause
<1>6. GoodCalls(call, flight)
  BY NoCallFacts DEF Init, GoodCalls
<1>7. PageTypes /\ PostedOnce
  <2>1. 0 \in 0..MaxLoads
    BY MaxLoadsAssumption
  <2>2. access \in [Tab -> BOOLEAN] /\ screen \in [Tab -> Screens]
    BY DEF Init, Screens
  <2>3. QED
    BY <2>1, <2>2 DEF Init, PageTypes, PostedOnce
<1>8. QED
  BY <1>2, <1>3, <1>4, <1>5, <1>6, <1>7 DEF BrowserInv, SessionInv, PageInv

\* Every step preserves it.
LEMMA NextBrowserInv == BrowserInv /\ [Next]_vars => BrowserInv'
<1> SUFFICES ASSUME SessionInv, PageInv, [Next]_vars
             PROVE  SessionInv' /\ PageInv'
  BY DEF BrowserInv
<1>1. CASE UNCHANGED vars
  <2>1. UNCHANGED <<stored, inFlight, flight, excuse, alarm, access, screen, call, loads, doubled>>
    BY <1>1 DEF vars, page, network, history
  <2>2. PageInv'
    BY <2>1 DEF PageInv, PageTypes, PostedOnce
  <2>3. QED
    BY <2>1, <2>2, SameSession
<1>2. ASSUME NEW t \in Tab, Load(t) \/ Logout(t) \/ Restart(t) \/ Submit(t)
      PROVE  SessionInv' /\ PageInv'
  BY <1>2, LoadPage, LeavePage, SubmitPage
<1>3. ASSUME NEW f \in Flight, FlightStep(f)
      PROVE  SessionInv' /\ PageInv'
  BY <1>3, ServerPage, SettlePage DEF FlightStep
<1>4. ASSUME NEW c \in Call, CallStep(c)
      PROVE  SessionInv' /\ PageInv'
  BY <1>4, PostPage, LoginPage DEF CallStep
<1>5. ASSUME NEW fam \in Family, EndSession(fam)
      PROVE  SessionInv' /\ PageInv'
  BY <1>5, ServerPage
<1>6. QED
  BY <1>1, <1>2, <1>3, <1>4, <1>5 DEF Next

\* The tokens and the calls of one browser, however replies, reloads, logins
\* and logouts interleave.
THEOREM BrowserInvariance == Spec => []BrowserInv
<1>1. QED
  BY InitBrowserInv, NextBrowserInv, PTL DEF Spec

\* Types, and every waiting call waits for a refresh of its own tab.
THEOREM TypeCorrect == Spec => []TypeOK
<1>1. BrowserInv => TypeOK
  <2> SUFFICES ASSUME SessionInv, PageInv
               PROVE  TypeOK
    BY DEF BrowserInv
  <2>1. \A c \in Call : call[c].pc = "waiting" => flight[call[c].on].tab = call[c].tab
    BY DEF PageInv, GoodCalls, GoodCall
  <2>2. {alarm, excuse, doubled} \subseteq BOOLEAN
    BY DEF SessionInv, SessionTypes, PageInv, PageTypes
  <2>3. QED
    BY <2>1, <2>2 DEF TypeOK, SessionInv, SessionTypes, FlightType, PageInv, PageTypes, Screens,
       GoodCalls, CallType
<1>2. QED
  BY <1>1, BrowserInvariance, PTL

\* The stored token is current, its session is over, or its successor is on
\* the way to a tab that will store it, unless there is an excuse: for any
\* number of tabs, calls and refreshes.
THEOREM StoredTokenIsCurrent == Spec => []StoredIsCurrent
<1>1. BrowserInv => StoredIsCurrent
  BY DEF BrowserInv, SessionInv, HonestInv, StoredIsCurrent
<1>2. QED
  BY <1>1, BrowserInvariance, PTL

\* The single refresh a tab's callers share keeps an honest browser from
\* tripping reuse detection, for any number of tabs, calls and refreshes.
THEOREM NoAlarmWithoutCause == Spec => []AlarmNeedsCause
<1>1. BrowserInv => AlarmNeedsCause
  BY DEF BrowserInv, SessionInv
<1>2. QED
  BY <1>1, BrowserInvariance, PTL

\* The retry after a refresh never inserts a second post, for any number of
\* calls.
THEOREM OnePostPerSubmit == Spec => []PostedOnce
<1>1. BrowserInv => PostedOnce
  BY DEF BrowserInv, PageInv
<1>2. QED
  BY <1>1, BrowserInvariance, PTL
=============================================================================
