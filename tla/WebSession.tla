----------------------------- MODULE WebSession -----------------------------
(***************************************************************************)
(* The session of one browser: web/src/auth.ts, api.ts, App.tsx and the    *)
(* screens, in tabs that share localStorage, against the identity and the  *)
(* board service as their delivery layer shows them.                       *)
(*                                                                         *)
(* JavaScript runs to the next await without interruption, so that a step  *)
(* is what happens between two replies of the network.  The token endpoint *)
(* keeps the promise of SessionFamilies: the current token of a family is  *)
(* replaced by a rotation, and presenting a former one ends the family.  A *)
(* copy of a refresh token is described by its family and by what the      *)
(* server will make of it: "current", "former", or Dead once the family    *)
(* has ended.  The name of a family without copies is used again.          *)
(***************************************************************************)
EXTENDS Delivery, FiniteSets

CONSTANTS
    Tab,       \* tabs of the browser
    Family,    \* login sessions on the server
    Call,      \* apiFetch calls in progress
    Flight,    \* requests to the token endpoint in progress
    None,      \* null, and the absence of any of the above
    MaxLoads   \* bound: how often pages are loaded

ASSUME NoneAssumption == None \notin Family \cup Flight \cup Tab \cup {"ok", "refused"}
ASSUME MaxLoadsAssumption == MaxLoads \in Nat

VARIABLES
    stored,     \* localStorage: the refresh token
    access,     \* per tab: whether an access token is in memory
    screen,     \* per tab: loading, login (all screens before the board), board
    inFlight,   \* per tab: refreshInFlight, the refresh its callers share
    flight,     \* requests to the token endpoint
    call,       \* apiFetch calls
    loads,      \* pages loaded so far
    \* History
    excuse,     \* a token went to the server twice, or its successor got lost
    alarm,      \* the server reported reuse although there was no excuse
    doubled     \* one createPost inserted two posts

page == <<stored, access, screen>>
network == <<inFlight, flight, call>>
history == <<excuse, alarm, doubled>>
vars == <<page, network, loads, history>>

RefreshToken(fam, state) == [family |-> fam, state |-> state]
NoToken == RefreshToken(None, "none")
Dead == RefreshToken(None, "dead")
Tokens == {NoToken, Dead} \cup [family : Family, state : {"current", "former"}]

\* A flight is sent by a tab and then answered; an orphan's tab has gone.
NoFlight == [pc |-> "idle", tab |-> None, token |-> NoToken, reply |-> None, new |-> NoToken]

\* A call is on the network, or waits for the refresh it asked for.
NoCall ==
    [pc |-> "idle", tab |-> None, method |-> "post", retried |-> FALSE, bearer |-> FALSE,
     mounted |-> FALSE, inserted |-> FALSE, on |-> None]

TypeOK ==
    /\ stored \in Tokens
    /\ access \in [Tab -> BOOLEAN]
    /\ screen \in [Tab -> {"loading", "login", "board"}]
    /\ inFlight \in [Tab -> Flight \cup {None}]
    /\ flight \in [Flight ->
            [pc : {"idle", "sent", "answered"}, tab : Tab \cup {None}, token : Tokens,
             reply : {"ok", "refused", None}, new : Tokens]]
    /\ call \in [Call ->
            [pc : {"idle", "sent", "waiting"}, tab : Tab \cup {None}, method : {"post", "login"},
             retried : BOOLEAN, bearer : BOOLEAN, mounted : BOOLEAN, inserted : BOOLEAN,
             on : Flight \cup {None}]]
    /\ \A c \in Call : call[c].pc = "waiting" => flight[call[c].on].tab = call[c].tab
    /\ loads \in 0..MaxLoads
    /\ {alarm, excuse, doubled} \subseteq BOOLEAN

Init ==
    /\ stored = NoToken
    /\ access = [t \in Tab |-> FALSE]
    /\ screen = [t \in Tab |-> "login"]
    /\ inFlight = [t \in Tab |-> None]
    /\ flight = [f \in Flight |-> NoFlight]
    /\ call = [c \in Call |-> NoCall]
    /\ loads = 0
    /\ excuse = FALSE /\ alarm = FALSE /\ doubled = FALSE

-----------------------------------------------------------------------------
(* The token endpoint.                                                     *)

\* Names to draw from; one free name is as good as another.
FreeFamilies ==
    {fam \in Family :
        /\ stored.family # fam
        /\ \A f \in Flight : fam \notin {flight[f].token.family, flight[f].new.family}}
FreeFlights == {f \in Flight : flight[f] = NoFlight}
FreeCalls == {c \in Call : call[c] = NoCall}
OneOf(S) == CHOOSE x \in S : TRUE

\* A copy of a token after its family was rotated, and after it ended.
Rotated(fam, token) == IF token.family = fam THEN RefreshToken(fam, "former") ELSE token
EndedCopy(fam, token) == IF token.family = fam THEN Dead ELSE token

\* What the server did to the family of a flight's token, seen in all copies.
Copies(After(_, _), fam) ==
    [f \in Flight |-> [flight[f] EXCEPT !.token = After(fam, @), !.new = After(fam, @)]]

\* The reply starts on its way; no one waits for the reply to an orphan.
\* doRefresh looks at res.ok only; None is a reply that gets lost.
Ok(err) == IF HTTPStatusFromCode(mapErr(err)) = 200 THEN "ok" ELSE "refused"

Answered(flights, f, reply, new) ==
    LET sent == flights[f] IN
    flight' = [flights EXCEPT ![f] =
        IF sent.tab = None THEN NoFlight
        ELSE [sent EXCEPT !.pc = "answered", !.reply = reply, !.new = new,
                          !.token = IF reply = "ok" THEN @ ELSE NoToken]]

\* The current token is exchanged.  The new one gets to the browser unless
\* Refresh fails after the rotation or the reply is lost.
Rotate(f) ==
    LET fam == flight[f].token.family IN
    /\ flight[f].pc = "sent" /\ flight[f].token.state = "current"
    /\ stored' = Rotated(fam, stored)
    /\ \E reply \in {None} \cup {Ok(err) : err \in {"nil"} \cup IssueTokenErrors} :
            /\ Answered(Copies(Rotated, fam), f, reply,
                        IF reply = "ok" THEN RefreshToken(fam, "current") ELSE NoToken)
            /\ excuse' = (excuse \/ reply # "ok")
    /\ UNCHANGED <<access, screen, inFlight, call, loads, alarm, doubled>>

\* A token that is not current: reuse if its family lives, else invalid.
Reject(f) ==
    LET fam == flight[f].token.family
        reuse == flight[f].token.state = "former" IN
    /\ flight[f].pc = "sent" /\ flight[f].token.state \in {"former", "dead"}
    /\ stored' = IF reuse THEN EndedCopy(fam, stored) ELSE stored
    /\ alarm' = (alarm \/ (reuse /\ ~excuse))
    /\ \E reply \in {None, Ok(IF reuse THEN "rtr.ErrReuseDetected" ELSE "rtr.ErrInvalidToken")} :
            Answered(IF reuse THEN Copies(EndedCopy, fam) ELSE flight, f, reply, NoToken)
    /\ UNCHANGED <<access, screen, inFlight, call, loads, excuse, doubled>>

\* The request fails before it reaches the store, or does not get there.
RotateFails(f) ==
    /\ flight[f].pc = "sent"
    /\ \E reply \in {None} \cup {Ok(err) : err \in RotateErrors} :
            Answered(flight, f, reply, NoToken)
    /\ UNCHANGED <<page, inFlight, call, loads, history>>

\* A family expires or is revoked.
EndSession(fam) ==
    /\ fam \notin FreeFamilies
    /\ stored' = EndedCopy(fam, stored)
    /\ flight' = Copies(EndedCopy, fam)
    /\ UNCHANGED <<access, screen, inFlight, call, loads, history>>

-----------------------------------------------------------------------------
(* refreshSession, apiFetch and the screens, between two replies.          *)

\* A token that another tab, or the page before a reload, is presenting.
PresentedElsewhere(t, token) ==
    \E f \in Flight : flight[f].token = token /\ flight[f].tab # t

\* Mutant: every caller starts a refresh of its own.
JoinsRefresh_Never(t) == FALSE

\* "concurrent 401s must share one refresh"
JoinsRefresh(t) == inFlight[t] # None

\* doRefresh reads localStorage and sends the request.
Sent(t) == [NoFlight EXCEPT !.pc = "sent", !.tab = t, !.token = stored]

DoRefresh(t, f) ==
    /\ flight' = [flight EXCEPT ![f] = Sent(t)]
    /\ inFlight' = [inFlight EXCEPT ![t] = f]
    /\ excuse' = (excuse \/ PresentedElsewhere(t, stored))

\* call with the board and login calls of tab t left to themselves.
Unmounted(calls, t) ==
    [c \in Call |-> IF calls[c].tab = t THEN [calls[c] EXCEPT !.mounted = FALSE] ELSE calls[c]]

\* clearTokens and onLogout, with or without a failed call.
LoggedOut(t, calls) ==
    /\ stored' = NoToken
    /\ access' = [access EXCEPT ![t] = FALSE]
    /\ screen' = [screen EXCEPT ![t] = "login"]
    /\ call' = IF screen[t] = "board" THEN Unmounted(calls, t) ELSE calls

\* The page is opened or reloaded; what the former page had asked for is
\* answered to nobody.  With a stored token App restores the session.
Load(t) ==
    LET left == [f \in Flight |->
                    IF flight[f].tab # t THEN flight[f]
                    ELSE IF flight[f].pc = "sent" THEN [flight[f] EXCEPT !.tab = None]
                    ELSE NoFlight] IN
    /\ loads < MaxLoads
    /\ call' = [c \in Call |-> IF call[c].tab = t THEN NoCall ELSE call[c]]
    /\ access' = [access EXCEPT ![t] = FALSE]
    /\ \/ /\ stored = NoToken
          /\ screen' = [screen EXCEPT ![t] = "login"]
          /\ inFlight' = [inFlight EXCEPT ![t] = None]
          /\ flight' = left
          /\ UNCHANGED excuse
       \/ /\ stored # NoToken
          /\ screen' = [screen EXCEPT ![t] = "loading"]
          /\ \E g \in Flight : left[g] = NoFlight
          /\ LET f == CHOOSE g \in Flight : left[g] = NoFlight IN
             /\ flight' = [left EXCEPT ![f] = Sent(t)]
             /\ inFlight' = [inFlight EXCEPT ![t] = f]
          /\ excuse' = (excuse \/ \E g \in Flight : flight[g].token = stored)
    /\ loads' = loads + 1
    /\ UNCHANGED <<stored, alarm, doubled>>

\* A screen's form is sent; its button is disabled until the call is over.
Submit(t) ==
    /\ screen[t] # "loading"
    /\ FreeCalls # {}
    /\ \A d \in Call : call[d].tab = t => ~call[d].mounted
    /\ call' = [call EXCEPT ![OneOf(FreeCalls)] =
            [NoCall EXCEPT !.pc = "sent", !.tab = t, !.mounted = TRUE,
                           !.bearer = screen[t] = "board" /\ access[t],
                           !.method = IF screen[t] = "board" THEN "post" ELSE "login"]]
    /\ UNCHANGED <<page, inFlight, flight, loads, history>>

\* The logout button: nothing is sent to the server.
Logout(t) ==
    /\ screen[t] = "board"
    /\ LoggedOut(t, call)
    /\ UNCHANGED <<inFlight, flight, loads, history>>

\* The device screen's way back to the login form, with a call under way.
Restart(t) ==
    /\ screen[t] = "login"
    /\ call' = Unmounted(call, t)
    /\ UNCHANGED <<page, inFlight, flight, loads, history>>

\* What becomes of a waiting call: sent again, or over.
Resumed(c, ok) ==
    IF ok THEN [call[c] EXCEPT !.pc = "sent", !.retried = TRUE, !.on = None,
                               !.bearer = call[c].method = "post"]
    ELSE NoCall

\* Mutant: a token that is stored already is not replaced.
SetTokens_Keep(t, token) ==
    /\ stored' = IF stored = NoToken THEN token ELSE stored
    /\ access' = [access EXCEPT ![t] = TRUE]

SetTokens(t, token) ==
    /\ stored' = token
    /\ access' = [access EXCEPT ![t] = TRUE]

ClearTokens(t) ==
    /\ stored' = NoToken
    /\ access' = [access EXCEPT ![t] = FALSE]

\* Mutant: the settled promise is kept.
Reset_Never(t, f) == inFlight

\* finally: refreshInFlight is null again.
Reset(t, f) == [inFlight EXCEPT ![t] = IF @ = f THEN None ELSE @]

\* The reply to a refresh is there.  The tokens are kept, cleared on an error
\* reply, or left as they are when the network failed; refreshInFlight is
\* reset and everyone who waits goes on: App shows a screen, calls are sent
\* again or fail, and a failed board call logs the tab out.
Settle(f) ==
    LET t == flight[f].tab
        ok == flight[f].reply = "ok"
        waiting == {c \in Call : call[c].pc = "waiting" /\ call[c].on = f}
        resumed == [c \in Call |-> IF c \in waiting THEN Resumed(c, ok) ELSE call[c]]
        expelled == ~ok /\ \E c \in waiting : call[c].method = "post" IN
    /\ flight[f].pc = "answered"
    /\ flight' = [flight EXCEPT ![f] = NoFlight]
    /\ inFlight' = Reset(t, f)
    /\ IF expelled THEN LoggedOut(t, resumed)
       ELSE /\ \/ ok /\ SetTokens(t, flight[f].new)
               \/ flight[f].reply = "refused" /\ ClearTokens(t)
               \/ flight[f].reply = None /\ UNCHANGED <<stored, access>>
            /\ screen' = [screen EXCEPT ![t] =
                    IF @ # "loading" THEN @ ELSE IF ok THEN "board" ELSE "login"]
            /\ call' = resumed
    /\ UNCHANGED <<loads, history>>

\* Mutant: every failed call is tried again after a refresh.
MayRefresh_Always(c, status) == ~call[c].retried /\ stored # NoToken

\* apiFetch refreshes once, for a 401, when there is a session to refresh.
MayRefresh(c, status) == status = 401 /\ ~call[c].retried /\ stored # NoToken

\* A reply other than success: the call waits for a refresh, or it is over.
Refreshes(c, status, inserted) ==
    LET t == call[c].tab
        wait(f) == call' = [call EXCEPT ![c] = [@ EXCEPT !.pc = "waiting", !.on = f,
                                                         !.inserted = inserted]] IN
    /\ MayRefresh(c, status)
    /\ \/ /\ JoinsRefresh(t)
          /\ wait(inFlight[t])
          /\ UNCHANGED <<flight, inFlight, excuse>>
       \/ /\ ~JoinsRefresh(t)
          /\ FreeFlights # {} /\ DoRefresh(t, OneOf(FreeFlights)) /\ wait(OneOf(FreeFlights))
    /\ UNCHANGED <<stored, access, screen>>

\* Board.fail logs the tab out on a 401; any other error is shown.
Fails(c, status) ==
    LET t == call[c].tab
        over == [call EXCEPT ![c] = NoCall] IN
    /\ ~MayRefresh(c, status)
    /\ IF call[c].method = "post" /\ status = 401 THEN LoggedOut(t, over)
       ELSE call' = over /\ UNCHANGED <<stored, access, screen>>
    /\ UNCHANGED <<flight, inFlight, excuse>>

\* The reply to createPost.  The services' part and the client's are one step:
\* nothing either of them reads can change in between.
PostReplied(c) ==
    /\ call[c].pc = "sent" /\ call[c].method = "post"
    /\ \E r \in CreatePostReplies(call[c].bearer) :
            /\ doubled' = (doubled \/ (r.effect /\ call[c].inserted))
            /\ \/ /\ r.status = 200
                  /\ call' = [call EXCEPT ![c] = NoCall]
                  /\ UNCHANGED <<page, inFlight, flight, excuse>>
               \/ r.status # 200 /\ Refreshes(c, r.status, call[c].inserted \/ r.effect)
               \/ r.status # 200 /\ Fails(c, r.status)
    /\ UNCHANGED <<loads, alarm>>

\* The reply to a form of the login screens: tokens of a new family, a reply
\* that leads to the next form, or an error.
LoginReplied(c) ==
    LET t == call[c].tab IN
    /\ call[c].pc = "sent" /\ call[c].method = "login"
    /\ \/ /\ FreeFamilies # {}
          /\ SetTokens(t, RefreshToken(OneOf(FreeFamilies), "current"))
          /\ screen' = [screen EXCEPT ![t] = "board"]
          /\ call' = LET over == [call EXCEPT ![c] = NoCall] IN
                      IF screen[t] = "login" THEN Unmounted(over, t) ELSE over
          /\ UNCHANGED <<inFlight, flight, excuse>>
       \/ /\ call' = [call EXCEPT ![c] = NoCall]
          /\ UNCHANGED <<page, inFlight, flight, excuse>>
       \/ \E status \in LoginStatuses \ {200} : Refreshes(c, status, FALSE) \/ Fails(c, status)
    /\ UNCHANGED <<loads, alarm, doubled>>

\* fetch rejects: the request or its reply was lost.
NetworkFails(c) ==
    /\ call[c].pc = "sent"
    /\ call' = [call EXCEPT ![c] = NoCall]
    /\ UNCHANGED <<page, inFlight, flight, loads, history>>

-----------------------------------------------------------------------------

FlightStep(f) == Rotate(f) \/ Reject(f) \/ RotateFails(f) \/ Settle(f)
CallStep(c) == PostReplied(c) \/ LoginReplied(c) \/ NetworkFails(c)

Next ==
    \/ \E t \in Tab : Load(t) \/ Logout(t) \/ Restart(t) \/ Submit(t)
    \/ \E f \in Flight : FlightStep(f)
    \/ \E c \in Call : CallStep(c)
    \/ \E fam \in Family : EndSession(fam)

Spec == Init /\ [][Next]_vars

-----------------------------------------------------------------------------
(* Properties.                                                             *)

\* The token in localStorage is the current one of its session, or the
\* session is over, or the reply with its successor is on the way to a tab
\* that will store it; unless a token was presented twice (two tabs, a
\* reload) or the reply to a rotation was lost.
StoredIsCurrent ==
    stored.state = "former" /\ ~excuse =>
        \E f \in Flight : flight[f].token = stored /\ flight[f].reply = "ok" /\ flight[f].tab # None

\* "a second concurrent rotation would trip RTR reuse detection": the server
\* reports reuse to an honest browser only when two tabs or two pages
\* presented a token or a successor got lost, however calls of one tab that
\* meet a 401 at once, logouts and logins interleave.
AlarmNeedsCause == ~alarm

\* One submit of the form inserts one post at most: apiFetch sends a request
\* again only after a reply that promises that nothing was done.
PostedOnce == ~doubled
=============================================================================
