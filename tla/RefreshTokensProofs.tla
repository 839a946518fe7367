------------------------ MODULE RefreshTokensProofs ------------------------
(***************************************************************************)
(* Proofs about RefreshTokens, for any number of tokens, families, users,  *)
(* concurrent calls and retries.                                           *)
(***************************************************************************)
EXTENDS RefreshTokens, TLAPS

(***************************************************************************)
(* The inductive invariant.                                                *)
(***************************************************************************)

\* A family key that exists was opened and names a token that resolves back.
CurrentInv ==
    \A f \in Family : famCur[f] # None =>
        /\ f \in opened
        /\ tokenRec[famCur[f]] # NoRec
        /\ tokenRec[famCur[f]].family = f

\* A record never changes, and only drawn tokens have one.
RecordInv ==
    \A t \in Token :
        /\ tokenRec[t] # NoRec => tokenRec[t] = origin[t]
        /\ origin[t] # NoRec => t \in minted /\ origin[t].family \in opened

\* A token the script ran for was stored and is not current any more; when
\* the script ran again, the family was gone by then.
RunsInv ==
    \A t \in Token : runs[t] # 0 =>
        /\ origin[t] # NoRec
        /\ famCur[origin[t].family] # t
        /\ runs[t] = 2 => famCur[origin[t].family] = None

\* A successor was stored, by a run of the script for its parent.
ParentInv ==
    \A t \in Token : parent[t] # None => origin[t] # NoRec /\ runs[parent[t]] # 0

\* A call works on a token that was stored, with the record it was stored
\* with; its new token is its own, and stored only by a run of its script.
CallerInv ==
    \A c \in Caller : caller[c].pc = "script" =>
        /\ origin[caller[c].old] = caller[c].rec
        /\ caller[c].new \in minted
        /\ origin[caller[c].new] # NoRec => runs[caller[c].old] # 0
        /\ \A d \in Caller : (caller[d].pc = "script" /\ caller[d].new = caller[c].new) => d = c

IInv ==
    /\ TypeOK
    /\ CurrentInv
    /\ RecordInv
    /\ RunsInv
    /\ ParentInv
    /\ CallerInv
    /\ SingleUse
    /\ FamilyHasOneOwner

-----------------------------------------------------------------------------

\* The missing record is not a record, and None is none of the values.
LEMMA NoRecFacts ==
    /\ NoRec \notin Record
    /\ NoRec.family = None
    /\ \A r \in Record : r.family \in Family /\ r # NoRec
BY NoneAssumption DEF NoRec, Record

\* The initial state satisfies the invariant.
LEMMA InitIInv == Init => IInv
<1> SUFFICES ASSUME Init PROVE IInv
  OBVIOUS
<1>1. TypeOK
  BY NoneAssumption, RetriesAssumption DEF Init, TypeOK, Idle, InScript
<1>2. \A c \in Caller : caller[c].pc # "script"
  BY DEF Init, Idle
<1>3. CurrentInv /\ RecordInv /\ RunsInv /\ ParentInv /\ CallerInv /\ SingleUse
        /\ FamilyHasOneOwner
  BY <1>2 DEF Init, CurrentInv, RecordInv, RunsInv, ParentInv, CallerInv, SingleUse,
        FamilyHasOneOwner
<1> QED
  BY <1>1, <1>3 DEF IInv

\* What is known of a call that is about to run its script.
LEMMA CallFacts ==
    ASSUME IInv, NEW c \in Caller, caller[c].pc = "script"
    PROVE  /\ caller[c] \in InScript
           /\ caller[c].old \in Token
           /\ caller[c].new \in Token
           /\ caller[c].rec \in Record
           /\ caller[c].rec.family \in Family
           /\ caller[c].tries \in 0..MaxRetries
BY DEF IInv, TypeOK, InScript, Idle, Record

-----------------------------------------------------------------------------
(* The script, shared by RunScript, RunScriptReplyLost and RefreshFails.   *)

\* What a run of call c's script leaves to the caller: it is idle, or still
\* there to send the same command again.
StillSame(c) ==
    \E k \in 0..MaxRetries : caller' = [caller EXCEPT ![c] = [@ EXCEPT !.tries = k]]

\* One run of the script, whether or not its reply arrives.
ScriptRun(c) ==
    /\ caller[c].pc = "script"
    /\ ScriptEffect(caller[c])
    /\ runs' = [runs EXCEPT ![caller[c].old] = Again(@)]
    /\ UNCHANGED <<minted, opened>>
    /\ caller' = [caller EXCEPT ![c] = Idle] \/ StillSame(c)

\* The three actions that run the script are runs of it.
LEMMA AllRunTheScript ==
    ASSUME IInv, NEW c \in Caller, RunScript(c) \/ RunScriptReplyLost(c) \/ RefreshFails(c)
    PROVE  ScriptRun(c)
<1>1. CASE RunScript(c)
  BY <1>1 DEF RunScript, ScriptRun
<1>3. CASE RefreshFails(c)
  BY <1>3 DEF RefreshFails, ScriptRun
<1>2. CASE RunScriptReplyLost(c)
  <2>1. caller[c].pc = "script"
    BY <1>2 DEF RunScriptReplyLost
  <2>2. caller[c].tries \in 0..MaxRetries
    BY <2>1, CallFacts
  <2>3. CASE MayResend(caller[c])
    <3>1. caller[c].tries + 1 \in 0..MaxRetries
      BY <2>2, <2>3, RetriesAssumption DEF MayResend
    <3>2. caller' = [caller EXCEPT ![c] = [@ EXCEPT !.tries = caller[c].tries + 1]]
      BY <1>2, <2>3 DEF RunScriptReplyLost
    <3> QED
      BY <1>2, <3>1, <3>2 DEF RunScriptReplyLost, ScriptRun, StillSame
  <2>4. CASE ~MayResend(caller[c])
    BY <1>2, <2>4 DEF RunScriptReplyLost, ScriptRun
  <2> QED
    BY <2>3, <2>4
<1> QED
  BY <1>1, <1>2, <1>3

\* After a run of c's script every call in progress is one from before, with
\* the same tokens and record.
LEMMA CallsUnchanged ==
    ASSUME IInv, NEW c \in Caller, ScriptRun(c)
    PROVE  /\ caller' \in [Caller -> InScript \cup {Idle}]
           /\ \A d \in Caller : caller'[d].pc = "script" =>
                /\ caller[d].pc = "script"
                /\ caller'[d].old = caller[d].old
                /\ caller'[d].new = caller[d].new
                /\ caller'[d].rec = caller[d].rec
<1>1. caller \in [Caller -> InScript \cup {Idle}]
  BY DEF IInv, TypeOK
<1>2. caller[c] \in InScript
  BY CallFacts DEF ScriptRun
<1>3. CASE caller' = [caller EXCEPT ![c] = Idle]
  BY <1>1, <1>3 DEF Idle
<1>4. CASE StillSame(c)
  <2>1. PICK k \in 0..MaxRetries : caller' = [caller EXCEPT ![c] = [@ EXCEPT !.tries = k]]
    BY <1>4 DEF StillSame
  <2>2. [caller[c] EXCEPT !.tries = k] \in InScript
    BY <1>2 DEF InScript
  <2> QED
    BY <1>1, <1>2, <2>1, <2>2 DEF InScript
<1> QED
  BY <1>3, <1>4 DEF ScriptRun

\* What a run of the script does to the keys, case by case.
LEMMA ScriptCases ==
    ASSUME IInv, NEW c \in Caller, ScriptRun(c)
    PROVE  \/ /\ famCur[caller[c].rec.family] = None
              /\ UNCHANGED <<tokenRec, famCur, origin, parent>>
           \/ /\ famCur[caller[c].rec.family] \notin {None, caller[c].old}
              /\ DeleteFamily(caller[c])
           \/ /\ famCur[caller[c].rec.family] = caller[c].old
              /\ StoreSuccessor(caller[c])
BY DEF ScriptRun, ScriptEffect, FamilyGone, IsCurrent

\* The script preserves the types of what it writes.
LEMMA ScriptTypes ==
    ASSUME IInv, NEW c \in Caller, ScriptRun(c)
    PROVE  /\ tokenRec' \in [Token -> Record \cup {NoRec}]
           /\ famCur' \in [Family -> Token \cup {None}]
           /\ origin' \in [Token -> Record \cup {NoRec}]
           /\ parent' \in [Token -> Token \cup {None}]
           /\ runs' \in [Token -> 0..2]
           /\ runs'[caller[c].old] = Again(runs[caller[c].old])
           /\ runs'[caller[c].old] # 0
           /\ \A t \in Token : t # caller[c].old => runs'[t] = runs[t]
           /\ \A t \in Token : runs[t] # 0 => runs'[t] # 0
<1>1. /\ caller[c].old \in Token /\ caller[c].new \in Token
      /\ caller[c].rec \in Record /\ caller[c].rec.family \in Family
  BY CallFacts DEF ScriptRun
<1>2. TypeOK
  BY DEF IInv
<1>3. /\ tokenRec' \in [Token -> Record \cup {NoRec}]
      /\ famCur' \in [Family -> Token \cup {None}]
      /\ origin' \in [Token -> Record \cup {NoRec}]
      /\ parent' \in [Token -> Token \cup {None}]
  <2>1. CASE UNCHANGED <<tokenRec, famCur, origin, parent>>
    BY <1>2, <2>1 DEF TypeOK
  <2>2. CASE DeleteFamily(caller[c])
    BY <1>1, <1>2, <2>2 DEF TypeOK, DeleteFamily
  <2>3. CASE StoreSuccessor(caller[c])
    BY <1>1, <1>2, <2>3 DEF TypeOK, StoreSuccessor
  <2> QED
    BY <2>1, <2>2, <2>3, ScriptCases
<1>4. runs' = [runs EXCEPT ![caller[c].old] = Again(@)] /\ runs \in [Token -> 0..2]
  BY <1>2 DEF ScriptRun, TypeOK
<1>5. Again(runs[caller[c].old]) \in 1..2
  BY DEF Again
<1> QED
  BY <1>1, <1>3, <1>4, <1>5

\* A run of the script that finds the family key missing.
LEMMA ScriptMiss ==
    ASSUME IInv, TypeOK', NEW c \in Caller, ScriptRun(c),
           famCur[caller[c].rec.family] = None
    PROVE  IInv'
<1> DEFINE w == caller[c]
<1>1. /\ w.old \in Token /\ w.new \in Token
      /\ w.rec \in Record /\ w.rec.family \in Family
      /\ origin[w.old] = w.rec
  BY CallFacts DEF ScriptRun, IInv, CallerInv
<1>2. UNCHANGED <<tokenRec, famCur, origin, parent, minted, opened>>
  BY ScriptCases, <1>1, NoneAssumption DEF ScriptRun
<1>3. CurrentInv' /\ RecordInv' /\ SingleUse' /\ FamilyHasOneOwner'
  BY <1>2 DEF IInv, CurrentInv, RecordInv, SingleUse, FamilyHasOneOwner
<1>4. RunsInv'
  BY <1>1, <1>2, ScriptTypes, NoRecFacts, NoneAssumption DEF IInv, RunsInv
<1>5. ParentInv'
  BY <1>1, <1>2, ScriptTypes DEF IInv, TypeOK, ParentInv
<1>6. CallerInv'
  BY <1>1, <1>2, ScriptTypes, CallsUnchanged, CallFacts DEF IInv, CallerInv
<1> QED
  BY <1>3, <1>4, <1>5, <1>6 DEF IInv

\* A run of the script that detects reuse.
LEMMA ScriptReuse ==
    ASSUME IInv, TypeOK', NEW c \in Caller, ScriptRun(c),
           famCur[caller[c].rec.family] \notin {None, caller[c].old},
           DeleteFamily(caller[c])
    PROVE  IInv'
<1> DEFINE w == caller[c]
           f == w.rec.family
<1>1. /\ w.old \in Token /\ w.new \in Token
      /\ w.rec \in Record /\ f \in Family
      /\ origin[w.old] = w.rec
  BY CallFacts DEF ScriptRun, IInv, CallerInv
<1>2. /\ UNCHANGED <<origin, parent, minted, opened>>
      /\ famCur' = [famCur EXCEPT ![f] = None]
      /\ tokenRec' = [tokenRec EXCEPT ![famCur[f]] = NoRec]
  BY DEF ScriptRun, DeleteFamily
<1>3. TypeOK
  BY DEF IInv
<1>4. CurrentInv'
  <2>1. ASSUME NEW g \in Family, famCur'[g] # None
        PROVE  /\ g # f /\ famCur'[g] = famCur[g]
               /\ famCur[g] # famCur[f] /\ famCur[g] \in Token
               /\ tokenRec'[famCur[g]] = tokenRec[famCur[g]]
    BY <1>1, <1>2, <1>3, <2>1 DEF TypeOK, IInv, CurrentInv
  <2> QED
    BY <1>2, <2>1 DEF IInv, CurrentInv
<1>5. RecordInv'
  BY <1>1, <1>2, <1>3 DEF TypeOK, IInv, RecordInv
<1>6. SingleUse' /\ FamilyHasOneOwner'
  BY <1>2 DEF IInv, SingleUse, FamilyHasOneOwner
<1>7. RunsInv'
  BY <1>1, <1>2, <1>3, ScriptTypes, NoRecFacts, NoneAssumption DEF TypeOK, IInv, RunsInv
<1>8. ParentInv'
  BY <1>1, <1>2, ScriptTypes DEF IInv, TypeOK, ParentInv
<1>9. CallerInv'
  BY <1>1, <1>2, ScriptTypes, CallsUnchanged, CallFacts DEF IInv, CallerInv
<1> QED
  BY <1>4, <1>5, <1>6, <1>7, <1>8, <1>9 DEF IInv

\* A run of the script that rotates: the old token was current, so neither
\* it nor the new token was touched by an earlier run.
LEMMA ScriptRotate ==
    ASSUME IInv, TypeOK', NEW c \in Caller, ScriptRun(c),
           famCur[caller[c].rec.family] = caller[c].old,
           StoreSuccessor(caller[c])
    PROVE  IInv'
<1> DEFINE w == caller[c]
           f == w.rec.family
<1>1. /\ w.old \in Token /\ w.new \in Token
      /\ w.rec \in Record /\ f \in Family /\ w.rec # NoRec
      /\ origin[w.old] = w.rec /\ w.new \in minted
  BY CallFacts, NoRecFacts DEF ScriptRun, IInv, CallerInv
<1>2. /\ UNCHANGED <<minted, opened>>
      /\ tokenRec' = [tokenRec EXCEPT ![w.new] = w.rec]
      /\ famCur' = [famCur EXCEPT ![f] = w.new]
      /\ origin' = [origin EXCEPT ![w.new] = w.rec]
      /\ parent' = [parent EXCEPT ![w.new] = w.old]
  BY DEF ScriptRun, StoreSuccessor
<1>3. TypeOK
  BY DEF IInv
<1>4. runs[w.old] = 0
  BY <1>1 DEF IInv, RunsInv
<1>5. /\ origin[w.new] = NoRec
      /\ tokenRec[w.new] = NoRec
      /\ parent[w.new] = None
      /\ runs[w.new] = 0
      /\ w.new # w.old
  BY <1>1, <1>4, NoRecFacts DEF ScriptRun, IInv, CallerInv, RecordInv, ParentInv, RunsInv
<1>6. \A g \in Family : famCur[g] # w.new
  BY <1>1, <1>5, NoneAssumption DEF IInv, CurrentInv
<1>7. \A t \in Token : parent[t] # w.old
  BY <1>1, <1>4, NoneAssumption DEF IInv, ParentInv
<1>8. CurrentInv'
  <2>1. ASSUME NEW g \in Family, famCur'[g] # None, g # f
        PROVE  /\ famCur'[g] = famCur[g] /\ famCur[g] # w.new /\ famCur[g] \in Token
               /\ tokenRec'[famCur[g]] = tokenRec[famCur[g]]
    BY <1>1, <1>2, <1>3, <1>6, <2>1 DEF TypeOK
  <2>2. f \in opened /\ famCur'[f] = w.new /\ tokenRec'[w.new] = w.rec
    BY <1>1, <1>2, <1>3, NoneAssumption DEF TypeOK, IInv, CurrentInv
  <2> QED
    BY <1>1, <1>2, <2>1, <2>2 DEF IInv, CurrentInv
<1>9. f \in opened
  BY <1>1, NoneAssumption DEF IInv, CurrentInv
<1>10. RecordInv'
  BY <1>1, <1>2, <1>3, <1>9 DEF TypeOK, IInv, RecordInv
<1>11. RunsInv'
  <2>1. ASSUME NEW t \in Token, runs'[t] # 0
        PROVE  /\ t # w.new /\ origin'[t] = origin[t] /\ origin[t] # NoRec
               /\ famCur'[origin[t].family] # t
               /\ runs'[t] = 2 => famCur'[origin[t].family] = None
    <3>1. t # w.new
      BY <1>1, <1>5, <2>1, ScriptTypes
    <3>2. origin'[t] = origin[t]
      BY <1>1, <1>2, <1>3, <3>1 DEF TypeOK
    <3>3. CASE t = w.old
      BY <1>1, <1>2, <1>3, <1>4, <1>5, <3>2, <3>3, ScriptTypes DEF TypeOK, Again
    <3>4. CASE t # w.old
      <4>1. runs[t] = runs'[t] /\ runs[t] # 0
        BY <2>1, <3>4, ScriptTypes
      <4>2. origin[t] # NoRec /\ origin[t].family \in Family
        BY <1>3, <4>1, NoRecFacts DEF TypeOK, IInv, RunsInv
      <4>3. runs[t] = 2 => origin[t].family # f
        BY <1>1, <4>1, NoneAssumption DEF IInv, RunsInv
      <4> QED
        BY <1>1, <1>2, <1>3, <3>1, <3>2, <4>1, <4>2, <4>3 DEF TypeOK, IInv, RunsInv
    <3> QED
      BY <3>3, <3>4
  <2> QED
    BY <2>1 DEF RunsInv
<1>12. ParentInv'
  BY <1>1, <1>2, <1>3, <1>4, <1>5, ScriptTypes DEF IInv, TypeOK, ParentInv
<1>13. CallerInv'
  <2>1. ASSUME NEW d \in Caller, caller'[d].pc = "script"
        PROVE  /\ origin'[caller'[d].old] = caller'[d].rec
               /\ caller'[d].new \in minted'
               /\ origin'[caller'[d].new] # NoRec => runs'[caller'[d].old] # 0
    <3>1. /\ caller[d].pc = "script"
          /\ caller'[d].old = caller[d].old
          /\ caller'[d].new = caller[d].new
          /\ caller'[d].rec = caller[d].rec
      BY <2>1, CallsUnchanged
    <3>2. caller[d].old \in Token /\ caller[d].new \in Token /\ caller[d].rec \in Record
      BY <3>1, CallFacts
    <3>3. origin[caller[d].old] = caller[d].rec /\ caller[d].old # w.new
      BY <1>5, <3>1, <3>2, NoRecFacts DEF IInv, CallerInv
    <3>4. caller[d].new = w.new => d = c
      BY <3>1 DEF ScriptRun, IInv, CallerInv
    <3>5. origin'[caller[d].new] # NoRec => runs'[caller[d].old] # 0
      <4>1. CASE d = c
        BY <4>1, ScriptTypes
      <4>2. CASE d # c
        <5>1. origin'[caller[d].new] = origin[caller[d].new]
          BY <1>1, <1>2, <1>3, <3>2, <3>4, <4>2 DEF TypeOK
        <5> QED
          BY <3>1, <3>2, <5>1, ScriptTypes DEF IInv, CallerInv
      <4> QED
        BY <4>1, <4>2
    <3> QED
      BY <1>1, <1>2, <1>3, <3>1, <3>2, <3>3, <3>5 DEF TypeOK, IInv, CallerInv
  <2>2. ASSUME NEW d \in Caller, NEW e \in Caller, caller'[d].pc = "script",
               caller'[e].pc = "script", caller'[e].new = caller'[d].new
        PROVE  e = d
    BY <2>2, CallsUnchanged DEF IInv, CallerInv
  <2> QED
    BY <2>1, <2>2 DEF CallerInv
<1>14. SingleUse'
  BY <1>1, <1>2, <1>3, <1>7 DEF TypeOK, IInv, SingleUse
<1>15. FamilyHasOneOwner'
  BY <1>1, <1>2, <1>3, <1>5 DEF TypeOK, IInv, FamilyHasOneOwner
<1> QED
  BY <1>8, <1>10, <1>11, <1>12, <1>13, <1>14, <1>15 DEF IInv

-----------------------------------------------------------------------------
(* The other actions.                                                      *)

\* A login: its token and its family were never seen before.
LEMMA IssueIInv ==
    ASSUME IInv, TypeOK', NEW u \in User, NEW f \in Family, NEW t \in Token,
           NEW answered \in BOOLEAN, Issue(u, f, t, answered)
    PROVE  IInv'
<1> DEFINE r == [user |-> u, family |-> f]
<1>1. r \in Record /\ r # NoRec /\ r.family = f /\ r.user = u
  BY NoRecFacts DEF Record
<1>2. /\ t \notin minted /\ f \notin opened
      /\ minted' = minted \cup {t} /\ opened' = opened \cup {f}
      /\ tokenRec' = [tokenRec EXCEPT ![t] = r]
      /\ famCur' = [famCur EXCEPT ![f] = t]
      /\ origin' = [origin EXCEPT ![t] = r]
      /\ UNCHANGED <<caller, parent, runs>>
  BY DEF Issue, FreshToken, FreshFamily
<1>3. TypeOK
  BY DEF IInv
<1>4. /\ origin[t] = NoRec /\ tokenRec[t] = NoRec
      /\ parent[t] = None /\ runs[t] = 0 /\ famCur[f] = None
  BY <1>2 DEF IInv, RecordInv, ParentInv, RunsInv, CurrentInv
<1>5. \A g \in Family : famCur[g] # t
  BY <1>4, NoneAssumption DEF IInv, CurrentInv
<1>6. CurrentInv'
  <2>1. ASSUME NEW g \in Family, famCur'[g] # None, g # f
        PROVE  /\ famCur'[g] = famCur[g] /\ famCur[g] # t /\ famCur[g] \in Token
               /\ tokenRec'[famCur[g]] = tokenRec[famCur[g]]
    BY <1>2, <1>3, <1>5, <2>1 DEF TypeOK
  <2>2. f \in opened' /\ famCur'[f] = t /\ tokenRec'[t] = r
    BY <1>2, <1>3 DEF TypeOK
  <2> QED
    BY <1>1, <1>2, <2>1, <2>2 DEF IInv, CurrentInv
<1>7. RecordInv'
  BY <1>1, <1>2, <1>3 DEF TypeOK, IInv, RecordInv
<1>8. RunsInv'
  <2>1. ASSUME NEW s \in Token, runs[s] # 0
        PROVE  /\ s # t /\ origin'[s] = origin[s] /\ origin[s] # NoRec
               /\ origin[s].family \in Family /\ origin[s].family # f
    BY <1>2, <1>3, <1>4, <2>1, NoRecFacts DEF TypeOK, IInv, RunsInv, RecordInv
  <2> QED
    BY <1>2, <1>3, <2>1 DEF TypeOK, IInv, RunsInv
<1>9. ParentInv'
  BY <1>1, <1>2, <1>3 DEF TypeOK, IInv, ParentInv
<1>10. CallerInv'
  <2>1. ASSUME NEW d \in Caller, caller[d].pc = "script"
        PROVE  /\ caller[d].old \in Token /\ caller[d].new \in Token
               /\ caller[d].old # t /\ caller[d].new # t
    BY <1>2, <1>4, <2>1, CallFacts, NoRecFacts DEF IInv, CallerInv
  <2> QED
    BY <1>2, <1>3, <2>1 DEF TypeOK, IInv, CallerInv
<1>11. SingleUse'
  BY <1>2 DEF IInv, SingleUse
<1>12. FamilyHasOneOwner'
  <2>1. \A s \in Token : s # t => origin'[s] = origin[s] /\ origin[s].family # f
    BY <1>2, <1>3, NoRecFacts, NoneAssumption DEF TypeOK, IInv, RecordInv
  <2>2. origin'[t] = r
    BY <1>2, <1>3 DEF TypeOK
  <2> QED
    BY <1>1, <2>1, <2>2 DEF IInv, FamilyHasOneOwner
<1> QED
  BY <1>6, <1>7, <1>8, <1>9, <1>10, <1>11, <1>12 DEF IInv

\* A lookup draws a token nobody else has.
LEMMA LookupIInv ==
    ASSUME IInv, TypeOK', NEW c \in Caller, NEW t \in Token, NEW n \in Token,
           LookupHit(c, t, n)
    PROVE  IInv'
<1> DEFINE w == [pc |-> "script", old |-> t, new |-> n, rec |-> tokenRec[t], tries |-> 0]
<1>1. /\ tokenRec[t] # NoRec /\ n \notin minted
      /\ minted' = minted \cup {n}
      /\ caller' = [caller EXCEPT ![c] = w]
      /\ UNCHANGED <<tokenRec, famCur, opened, origin, parent, runs>>
  BY DEF LookupHit, FreshToken
<1>2. caller \in [Caller -> InScript \cup {Idle}]
  BY DEF IInv, TypeOK
<1>3. CurrentInv' /\ RecordInv' /\ RunsInv' /\ ParentInv' /\ SingleUse' /\ FamilyHasOneOwner'
  BY <1>1 DEF IInv, CurrentInv, RecordInv, RunsInv, ParentInv, SingleUse, FamilyHasOneOwner
<1>4. origin[n] = NoRec /\ origin[t] = tokenRec[t]
  BY <1>1 DEF IInv, RecordInv
<1>5. CallerInv'
  <2>1. caller'[c] = w /\ \A d \in Caller : d # c => caller'[d] = caller[d]
    BY <1>1, <1>2
  <2>2. \A d \in Caller : caller[d].pc = "script" => caller[d].new \in minted
    BY DEF IInv, CallerInv
  <2>3. ASSUME NEW d \in Caller, caller'[d].pc = "script"
        PROVE  /\ origin'[caller'[d].old] = caller'[d].rec
               /\ caller'[d].new \in minted'
               /\ origin'[caller'[d].new] # NoRec => runs'[caller'[d].old] # 0
    BY <1>1, <1>4, <2>1, <2>3 DEF IInv, CallerInv
  <2>4. ASSUME NEW d \in Caller, NEW e \in Caller, caller'[d].pc = "script",
               caller'[e].pc = "script", caller'[e].new = caller'[d].new
        PROVE  e = d
    BY <1>1, <2>1, <2>2, <2>4 DEF IInv, CallerInv
  <2> QED
    BY <2>3, <2>4 DEF CallerInv
<1> QED
  BY <1>3, <1>5 DEF IInv

\* A call that ends early changes nothing but itself.
LEMMA AbandonIInv ==
    ASSUME IInv, TypeOK', NEW c \in Caller, Abandon(c)
    PROVE  IInv'
<1>1. /\ caller' = [caller EXCEPT ![c] = Idle]
      /\ UNCHANGED <<tokenRec, famCur, minted, opened, origin, parent, runs>>
  BY DEF Abandon, redisVars, history
<1>2. CurrentInv' /\ RecordInv' /\ RunsInv' /\ ParentInv' /\ SingleUse' /\ FamilyHasOneOwner'
  BY <1>1 DEF IInv, CurrentInv, RecordInv, RunsInv, ParentInv, SingleUse, FamilyHasOneOwner
<1>3. \A d \in Caller : caller'[d].pc = "script" => caller'[d] = caller[d]
  BY <1>1 DEF IInv, TypeOK, Idle
<1>4. CallerInv'
  BY <1>1, <1>3 DEF IInv, CallerInv
<1> QED
  BY <1>2, <1>4 DEF IInv

\* Keys that are deleted, by RevokeFamily or by expiry: records and family
\* keys only disappear, and a family key goes whenever its token's record
\* does.
LEMMA DeletionIInv ==
    ASSUME IInv, TypeOK',
           UNCHANGED <<caller, minted, opened, origin, parent, runs>>,
           \A t \in Token : tokenRec'[t] \in {tokenRec[t], NoRec},
           \A f \in Family : famCur'[f] \in {famCur[f], None},
           \A f \in Family : famCur'[f] # None => tokenRec'[famCur[f]] = tokenRec[famCur[f]]
    PROVE  IInv'
<1>1. CurrentInv'
  BY DEF IInv, CurrentInv
<1>2. RecordInv'
  BY DEF IInv, RecordInv
<1>3. RunsInv'
  <2>1. ASSUME NEW t \in Token, runs[t] # 0
        PROVE  origin[t].family \in Family
    BY <2>1, NoRecFacts DEF IInv, TypeOK, RunsInv
  <2> QED
    BY <2>1, NoneAssumption DEF IInv, RunsInv
<1>4. ParentInv' /\ CallerInv' /\ SingleUse' /\ FamilyHasOneOwner'
  BY DEF IInv, ParentInv, CallerInv, SingleUse, FamilyHasOneOwner
<1> QED
  BY <1>1, <1>2, <1>3, <1>4 DEF IInv

-----------------------------------------------------------------------------
(* Types.                                                                  *)

\* Every step preserves the types.
LEMMA NextTypeOK == IInv /\ [Next]_vars => TypeOK'
<1> SUFFICES ASSUME IInv, [Next]_vars PROVE TypeOK'
  OBVIOUS
<1>0. TypeOK
  BY DEF IInv
<1>1. ASSUME NEW u \in User, NEW f \in Family, NEW t \in Token,
             NEW answered \in BOOLEAN, Issue(u, f, t, answered)
      PROVE  TypeOK'
  <2>1. [user |-> u, family |-> f] \in Record
    BY DEF Record
  <2> QED
    BY <1>0, <1>1, <2>1 DEF TypeOK, Issue
<1>2. ASSUME NEW c \in Caller, NEW t \in Token, NEW n \in Token, LookupHit(c, t, n)
      PROVE  TypeOK'
  <2>1. tokenRec[t] \in Record
    BY <1>0, <1>2 DEF TypeOK, LookupHit
  <2>2. [pc |-> "script", old |-> t, new |-> n, rec |-> tokenRec[t], tries |-> 0] \in InScript
    BY <2>1, RetriesAssumption DEF InScript
  <2>3. /\ caller' \in [Caller -> InScript \cup {Idle}]
        /\ minted' \subseteq Token
    BY <1>0, <1>2, <2>2 DEF TypeOK, LookupHit
  <2> QED
    BY <1>0, <1>2, <2>3 DEF TypeOK, LookupHit
<1>3. ASSUME NEW c \in Caller, RunScript(c) \/ RunScriptReplyLost(c) \/ RefreshFails(c)
      PROVE  TypeOK'
  <2>1. ScriptRun(c)
    BY <1>3, AllRunTheScript
  <2>2. caller[c].old \in Token /\ caller[c].new \in Token
    BY <2>1, CallFacts DEF ScriptRun
  <2>3. caller' \in [Caller -> InScript \cup {Idle}]
    BY <2>1, CallsUnchanged
  <2>4. handed' \subseteq Token /\ alarms' \subseteq Token
    BY <1>0, <1>3, <2>2 DEF TypeOK, RunScript, RunScriptReplyLost, RefreshFails
  <2> QED
    BY <1>0, <2>1, <2>3, <2>4, ScriptTypes DEF TypeOK, ScriptRun
<1>4. ASSUME NEW c \in Caller, Abandon(c) PROVE TypeOK'
  BY <1>0, <1>4 DEF TypeOK, Abandon, redisVars, history
<1>5. ASSUME NEW f \in Family, NEW ts \in SUBSET Token, RevokeFamily(f, ts)
      PROVE  TypeOK'
  BY <1>0, <1>5 DEF TypeOK, RevokeFamily, history
<1>6. ASSUME NEW t \in Token, ExpireToken(t) PROVE TypeOK'
  BY <1>0, <1>6 DEF TypeOK, ExpireToken, history
<1>7. ASSUME NEW f \in Family, ExpireFamily(f) PROVE TypeOK'
  BY <1>0, <1>7 DEF TypeOK, ExpireFamily, history
<1>8. CASE UNCHANGED vars
  BY <1>0, <1>8 DEF TypeOK, vars
<1> QED
  BY <1>1, <1>2, <1>3, <1>4, <1>5, <1>6, <1>7, <1>8 DEF Next, Rotate

-----------------------------------------------------------------------------
(* The invariant is inductive.                                             *)

\* Every step preserves the invariant.
LEMMA NextIInv == IInv /\ [Next]_vars => IInv'
<1> SUFFICES ASSUME IInv, [Next]_vars PROVE IInv'
  OBVIOUS
<1>0. TypeOK /\ TypeOK'
  BY NextTypeOK DEF IInv
<1>1. ASSUME NEW u \in User, NEW f \in Family, NEW t \in Token,
             NEW answered \in BOOLEAN, Issue(u, f, t, answered)
      PROVE  IInv'
  BY <1>0, <1>1, IssueIInv
<1>2. ASSUME NEW c \in Caller, NEW t \in Token, NEW n \in Token, LookupHit(c, t, n)
      PROVE  IInv'
  BY <1>0, <1>2, LookupIInv
<1>3. ASSUME NEW c \in Caller, RunScript(c) \/ RunScriptReplyLost(c) \/ RefreshFails(c)
      PROVE  IInv'
  <2>1. ScriptRun(c)
    BY <1>3, AllRunTheScript
  <2> QED
    BY <1>0, <2>1, ScriptCases, ScriptMiss, ScriptReuse, ScriptRotate
<1>4. ASSUME NEW c \in Caller, Abandon(c) PROVE IInv'
  BY <1>0, <1>4, AbandonIInv
<1>5. ASSUME NEW f \in Family, NEW ts \in SUBSET Token, RevokeFamily(f, ts)
      PROVE  IInv'
  <2>1. UNCHANGED <<caller, minted, opened, origin, parent, runs>>
    BY <1>5 DEF RevokeFamily, history
  <2>2. /\ \A t \in Token : tokenRec'[t] = IF t \in ts THEN NoRec ELSE tokenRec[t]
        /\ \A t \in ts : tokenRec[t].family = f
        /\ \A g \in Family : famCur'[g] = IF g = f THEN None ELSE famCur[g]
    BY <1>0, <1>5 DEF TypeOK, RevokeFamily
  <2>3. \A g \in Family : famCur'[g] # None => tokenRec'[famCur[g]] = tokenRec[famCur[g]]
    BY <1>0, <2>2 DEF TypeOK, IInv, CurrentInv
  <2> QED
    BY <1>0, <2>1, <2>2, <2>3, DeletionIInv
<1>6. ASSUME NEW t \in Token, ExpireToken(t) PROVE IInv'
  <2>1. UNCHANGED <<famCur, caller, minted, opened, origin, parent, runs>>
    BY <1>6 DEF ExpireToken, history
  <2>2. \A s \in Token : tokenRec'[s] = IF s = t THEN NoRec ELSE tokenRec[s]
    BY <1>0, <1>6 DEF TypeOK, ExpireToken
  <2>3. \A g \in Family : famCur[g] # None => famCur[g] # t
    BY <1>6 DEF ExpireToken, IInv, CurrentInv
  <2>4. \A g \in Family : famCur'[g] # None => tokenRec'[famCur[g]] = tokenRec[famCur[g]]
    BY <1>0, <2>1, <2>2, <2>3 DEF TypeOK
  <2> QED
    BY <1>0, <2>1, <2>2, <2>4, DeletionIInv
<1>7. ASSUME NEW f \in Family, ExpireFamily(f) PROVE IInv'
  <2>1. UNCHANGED <<caller, minted, opened, origin, parent, runs>>
    BY <1>7 DEF ExpireFamily, history
  <2>2. /\ famCur[f] \in Token
        /\ \A s \in Token : tokenRec'[s] = IF s = famCur[f] THEN NoRec ELSE tokenRec[s]
        /\ \A g \in Family : famCur'[g] = IF g = f THEN None ELSE famCur[g]
    BY <1>0, <1>7 DEF TypeOK, ExpireFamily
  <2>3. \A g \in Family : famCur'[g] # None => famCur[g] # famCur[f]
    BY <2>2 DEF IInv, CurrentInv
  <2>4. \A g \in Family : famCur'[g] # None => tokenRec'[famCur[g]] = tokenRec[famCur[g]]
    BY <1>0, <2>2, <2>3 DEF TypeOK
  <2> QED
    BY <1>0, <2>1, <2>2, <2>4, DeletionIInv
<1>8. CASE UNCHANGED vars
  BY <1>8 DEF vars, IInv, TypeOK, CurrentInv, RecordInv, RunsInv, ParentInv, CallerInv,
        SingleUse, FamilyHasOneOwner
<1> QED
  BY <1>1, <1>2, <1>3, <1>4, <1>5, <1>6, <1>7, <1>8 DEF Next, Rotate

\* The invariant holds in every reachable state.
THEOREM InvariantTheorem == Spec => []IInv
<1>1. Init => IInv
  BY InitIInv
<1>2. IInv /\ [Next]_vars => IInv'
  BY NextIInv
<1> QED
  BY <1>1, <1>2, PTL DEF Spec

-----------------------------------------------------------------------------
(* The properties.                                                         *)

\* Redis keys, calls in progress and history stay well-typed.
THEOREM TypeCorrect == Spec => []TypeOK
<1>1. IInv => TypeOK
  BY DEF IInv
<1> QED
  BY <1>1, InvariantTheorem, PTL

\* No interleaving of Rotate calls, lost replies, resends, revocations and
\* expiries lets Rotate store two successors of one refresh token.
THEOREM SingleUseTheorem == Spec => []SingleUse
<1>1. IInv => SingleUse
  BY DEF IInv
<1> QED
  BY <1>1, InvariantTheorem, PTL

\* A token the script ran for twice has a family without a current token.
THEOREM ReplayTheorem == Spec => []ReplayKillsFamily
<1>1. IInv => ReplayKillsFamily
  <2> SUFFICES ASSUME IInv, NEW t \in Token, runs[t] = 2
               PROVE  Dead(origin[t].family)
    BY DEF ReplayKillsFamily
  <2>1. origin[t] # NoRec /\ famCur[origin[t].family] = None
    BY DEF IInv, RunsInv
  <2> QED
    BY <2>1 DEF IInv, RecordInv, Dead
<1> QED
  BY <1>1, InvariantTheorem, PTL

\* The token a family key names resolves to a record of that family.
THEOREM CurrentResolvesTheorem == Spec => []CurrentResolves
<1>1. IInv => CurrentResolves
  BY DEF IInv, CurrentInv, CurrentResolves
<1> QED
  BY <1>1, InvariantTheorem, PTL

\* All tokens of a family belong to the user who logged in.
THEOREM OneOwnerTheorem == Spec => []FamilyHasOneOwner
<1>1. IInv => FamilyHasOneOwner
  BY DEF IInv
<1> QED
  BY <1>1, InvariantTheorem, PTL

-----------------------------------------------------------------------------
(* No false alarm about the store.                                         *)

\* A stored token whose family now has another current token was rotated: the
\* script ran for it.
RotatedInv ==
    \A t \in Token :
        (origin[t] # NoRec /\ famCur[origin[t].family] \notin {None, t}) => runs[t] # 0

AlarmInv == RotatedInv /\ AlarmMeansRerun

\* The script preserves it: a rotation counts a run for the token it replaces,
\* and an alarm is raised only where RotatedInv says there was a run before.
LEMMA ScriptAlarm ==
    ASSUME IInv, AlarmInv, NEW c \in Caller,
           RunScript(c) \/ RunScriptReplyLost(c) \/ RefreshFails(c)
    PROVE  AlarmInv'
<1> DEFINE w == caller[c]
<1>1. ScriptRun(c)
  BY AllRunTheScript
<1>2. /\ w.old \in Token /\ w.new \in Token /\ w.rec \in Record
      /\ w.rec.family \in Family /\ w.rec # NoRec /\ origin[w.old] = w.rec
  BY <1>1, CallFacts, NoRecFacts DEF ScriptRun, IInv, CallerInv
<1>3. TypeOK
  BY DEF IInv
<1>4. RotatedInv'
  <2> SUFFICES ASSUME NEW t \in Token, origin'[t] # NoRec,
                      famCur'[origin'[t].family] \notin {None, t}
               PROVE  runs'[t] # 0
    BY DEF RotatedInv
  <2>1. t = w.old \/ runs[t] # 0 => runs'[t] # 0
    BY <1>1, ScriptTypes
  <2>2. CASE UNCHANGED <<tokenRec, famCur, origin, parent>>
    BY <2>1, <2>2 DEF AlarmInv, RotatedInv
  <2>3. CASE DeleteFamily(w)
    <3>1. origin' = origin /\ origin[t].family \in Family
      BY <1>3, <2>3, NoRecFacts DEF TypeOK, DeleteFamily
    <3>2. famCur'[origin[t].family] = famCur[origin[t].family]
      BY <1>2, <1>3, <2>3, <3>1 DEF TypeOK, DeleteFamily
    <3> QED
      BY <2>1, <3>1, <3>2 DEF AlarmInv, RotatedInv
  <2>4. CASE famCur[w.rec.family] = w.old /\ StoreSuccessor(w)
    <3>1. /\ \A s \in Token : origin'[s] = IF s = w.new THEN w.rec ELSE origin[s]
          /\ \A g \in Family : famCur'[g] = IF g = w.rec.family THEN w.new ELSE famCur[g]
      BY <1>2, <1>3, <2>4 DEF TypeOK, StoreSuccessor
    <3>2. t # w.new /\ origin[t] # NoRec /\ origin[t].family \in Family
      BY <1>2, <1>3, <3>1, NoRecFacts DEF TypeOK
    <3>3. CASE origin[t].family = w.rec.family
      BY <1>2, <2>1, <2>4, <3>2, <3>3, NoneAssumption DEF AlarmInv, RotatedInv
    <3>4. CASE origin[t].family # w.rec.family
      BY <2>1, <3>1, <3>2, <3>4 DEF AlarmInv, RotatedInv
    <3> QED
      BY <3>3, <3>4
  <2> QED
    BY <1>1, <2>2, <2>3, <2>4, ScriptCases
<1>5. AlarmMeansRerun'
  <2>1. \A t \in Token : runs[t] = 2 => runs'[t] = 2
    BY <1>1, ScriptTypes DEF Again
  <2>2. alarms \subseteq Token
    BY <1>3 DEF TypeOK
  <2>3. CASE alarms' = alarms
    BY <2>1, <2>2, <2>3 DEF AlarmInv, AlarmMeansRerun
  <2>4. CASE DetectsReuse(w) /\ alarms' = alarms \cup {w.old}
    <3>1. runs[w.old] # 0
      BY <1>2, <2>4 DEF DetectsReuse, FamilyGone, IsCurrent, AlarmInv, RotatedInv
    <3>2. runs'[w.old] = 2
      BY <1>1, <3>1, ScriptTypes DEF Again
    <3> QED
      BY <2>1, <2>2, <2>4, <3>2 DEF AlarmInv, AlarmMeansRerun
  <2> QED
    BY <2>3, <2>4 DEF RunScript, RunScriptReplyLost, RefreshFails
<1> QED
  BY <1>4, <1>5 DEF AlarmInv

\* Every step preserves it; only a login or a run of the script can make a
\* token current, and no other step than a run of the script raises an alarm.
LEMMA NextAlarm == IInv /\ AlarmInv /\ [Next]_vars => AlarmInv'
<1> SUFFICES ASSUME IInv, AlarmInv, [Next]_vars PROVE AlarmInv'
  OBVIOUS
<1>0. TypeOK
  BY DEF IInv
<1>1. ASSUME NEW u \in User, NEW f \in Family, NEW t \in Token,
             NEW answered \in BOOLEAN, Issue(u, f, t, answered)
      PROVE  AlarmInv'
  <2>1. /\ \A s \in Token : origin'[s] = IF s = t THEN [user |-> u, family |-> f] ELSE origin[s]
        /\ \A g \in Family : famCur'[g] = IF g = f THEN t ELSE famCur[g]
        /\ UNCHANGED <<runs, alarms>> /\ f \notin opened
    BY <1>0, <1>1 DEF TypeOK, Issue, FreshFamily
  <2>2. \A s \in Token : origin[s] # NoRec =>
            origin[s].family \in Family /\ origin[s].family # f
    BY <1>0, <2>1, NoRecFacts DEF TypeOK, IInv, RecordInv
  <2>3. \A s \in Token : s # t /\ origin'[s] # NoRec =>
            famCur'[origin'[s].family] = famCur[origin[s].family]
    BY <2>1, <2>2
  <2>4. famCur'[origin'[t].family] = t
    BY <2>1
  <2>5. RotatedInv'
    BY <2>1, <2>3, <2>4 DEF AlarmInv, RotatedInv
  <2> QED
    BY <2>1, <2>5 DEF AlarmInv, AlarmMeansRerun
<1>2. ASSUME UNCHANGED <<origin, runs, alarms>>,
             \A g \in Family : famCur'[g] \in {None, famCur[g]}
      PROVE  AlarmInv'
  <2>1. \A t \in Token : origin[t] # NoRec => origin[t].family \in Family
    BY <1>0, NoRecFacts DEF TypeOK
  <2>2. RotatedInv'
    BY <1>2, <2>1 DEF AlarmInv, RotatedInv
  <2> QED
    BY <1>2, <2>2 DEF AlarmInv, AlarmMeansRerun
<1>3. ASSUME NEW c \in Caller, NEW t \in Token, NEW n \in Token, LookupHit(c, t, n)
      PROVE  AlarmInv'
  BY <1>2, <1>3 DEF LookupHit
<1>4. ASSUME NEW c \in Caller, RunScript(c) \/ RunScriptReplyLost(c) \/ RefreshFails(c)
      PROVE  AlarmInv'
  BY <1>4, ScriptAlarm
<1>5. ASSUME NEW c \in Caller, Abandon(c) PROVE AlarmInv'
  BY <1>2, <1>5 DEF Abandon, redisVars, history
<1>6. ASSUME NEW f \in Family, NEW ts \in SUBSET Token, RevokeFamily(f, ts)
      PROVE  AlarmInv'
  BY <1>0, <1>2, <1>6 DEF TypeOK, RevokeFamily, history
<1>7. ASSUME NEW t \in Token, ExpireToken(t) PROVE AlarmInv'
  BY <1>2, <1>7 DEF ExpireToken, history
<1>8. ASSUME NEW f \in Family, ExpireFamily(f) PROVE AlarmInv'
  BY <1>0, <1>2, <1>8 DEF TypeOK, ExpireFamily, history
<1>9. CASE UNCHANGED vars
  BY <1>2, <1>9 DEF vars
<1> QED
  BY <1>1, <1>3, <1>4, <1>5, <1>6, <1>7, <1>8, <1>9 DEF Next, Rotate

\* ErrReuseDetected is returned only for a token the script ran for twice,
\* never because its family was revoked or expired in the meantime.
THEOREM AlarmTheorem == Spec => []AlarmMeansRerun
<1>1. Init => AlarmInv
  BY DEF Init, AlarmInv, RotatedInv, AlarmMeansRerun
<1>2. IInv /\ AlarmInv /\ [Next]_vars => AlarmInv'
  BY NextAlarm
<1>3. AlarmInv => AlarmMeansRerun
  BY DEF AlarmInv
<1> QED
  BY <1>1, <1>2, <1>3, InvariantTheorem, PTL DEF Spec

-----------------------------------------------------------------------------
(* The steps, as the sessions see them.                                    *)

\* A new family gets its first token.
OpensFamily(f, t) ==
    /\ f \notin opened /\ opened' = opened \cup {f}
    /\ origin[t] = NoRec /\ \A s \in Token : origin'[s] # NoRec <=> origin[s] # NoRec \/ s = t
    /\ famCur' = [famCur EXCEPT ![f] = t]

\* A live family gets the next token.
RotatesFamily(f, t) ==
    /\ famCur[f] # None /\ opened' = opened
    /\ origin[t] = NoRec /\ \A s \in Token : origin'[s] # NoRec <=> origin[s] # NoRec \/ s = t
    /\ famCur' = [famCur EXCEPT ![f] = t]

\* A live family loses its key.
ClosesFamily(f) ==
    /\ famCur[f] # None /\ opened' = opened /\ origin' = origin
    /\ famCur' = [famCur EXCEPT ![f] = None]

\* Every step of the detailed specification is one of these or leaves the
\* family keys alone.
LEMMA StepKinds ==
    ASSUME IInv, [Next]_vars
    PROVE  \/ \E f \in Family, t \in Token : OpensFamily(f, t) \/ RotatesFamily(f, t)
           \/ \E f \in Family : ClosesFamily(f)
           \/ UNCHANGED <<famCur, opened, origin>>
<1>0. TypeOK
  BY DEF IInv
<1>1. ASSUME NEW u \in User, NEW f \in Family, NEW t \in Token,
             NEW answered \in BOOLEAN, Issue(u, f, t, answered)
      PROVE  OpensFamily(f, t)
  <2>1. [user |-> u, family |-> f] # NoRec
    BY NoRecFacts DEF Record
  <2>2. origin[t] = NoRec
    BY <1>1 DEF Issue, FreshToken, IInv, RecordInv
  <2> QED
    BY <1>0, <1>1, <2>1, <2>2 DEF TypeOK, Issue, FreshFamily, OpensFamily
<1>2. ASSUME NEW c \in Caller, RunScript(c) \/ RunScriptReplyLost(c) \/ RefreshFails(c)
      PROVE  \/ \E f \in Family, t \in Token : RotatesFamily(f, t)
             \/ \E f \in Family : ClosesFamily(f)
             \/ UNCHANGED <<famCur, opened, origin>>
  <2> DEFINE w == caller[c]
             f == w.rec.family
  <2>1. ScriptRun(c)
    BY <1>2, AllRunTheScript
  <2>2. /\ w.old \in Token /\ w.new \in Token /\ w.rec \in Record /\ f \in Family
        /\ w.rec # NoRec /\ origin[w.old] = w.rec /\ opened' = opened
    BY <2>1, CallFacts, NoRecFacts DEF ScriptRun, IInv, CallerInv
  <2>3. CASE f \in Family /\ famCur[f] # None /\ DeleteFamily(w)
    <3>1. ClosesFamily(f)
      BY <2>2, <2>3 DEF DeleteFamily, ClosesFamily
    <3> QED
      BY <2>2, <3>1
  <2>4. CASE famCur[f] = w.old /\ StoreSuccessor(w)
    <3>1. runs[w.old] = 0
      BY <2>2, <2>4 DEF IInv, RunsInv
    <3>2. origin[w.new] = NoRec
      BY <2>1, <3>1 DEF ScriptRun, IInv, CallerInv
    <3>3. RotatesFamily(f, w.new)
      BY <1>0, <2>2, <2>4, <3>2, NoneAssumption DEF TypeOK, StoreSuccessor, RotatesFamily
    <3> QED
      BY <2>2, <3>3
  <2> QED
    BY <2>1, <2>2, <2>3, <2>4, ScriptCases
<1>3. ASSUME NEW f \in Family, NEW ts \in SUBSET Token, RevokeFamily(f, ts)
      PROVE  ClosesFamily(f) \/ UNCHANGED <<famCur, opened, origin>>
  BY <1>0, <1>3 DEF TypeOK, RevokeFamily, ClosesFamily, history
<1>4. ASSUME NEW f \in Family, ExpireFamily(f) PROVE ClosesFamily(f)
  BY <1>4 DEF ExpireFamily, ClosesFamily, history
<1>5. ASSUME NEW c \in Caller, NEW t \in Token, NEW n \in Token, LookupHit(c, t, n)
      PROVE  UNCHANGED <<famCur, opened, origin>>
  BY <1>5 DEF LookupHit
<1>6. ASSUME NEW c \in Caller, Abandon(c) PROVE UNCHANGED <<famCur, opened, origin>>
  BY <1>6 DEF Abandon, redisVars, history
<1>7. ASSUME NEW t \in Token, ExpireToken(t) PROVE UNCHANGED <<famCur, opened, origin>>
  BY <1>7 DEF ExpireToken, history
<1>8. CASE UNCHANGED vars
  BY <1>8 DEF vars
<1> QED
  BY <1>1, <1>2, <1>3, <1>4, <1>5, <1>6, <1>7, <1>8 DEF Next, Rotate

\* No step revives a dead family.
LEMMA DeadStep ==
    ASSUME IInv, [Next]_vars, NEW g \in Family, Dead(g)
    PROVE  Dead(g)'
<1>0. famCur \in [Family -> Token \cup {None}]
  BY DEF IInv, TypeOK
<1>1. ASSUME NEW f \in Family, NEW t \in Token, OpensFamily(f, t) \/ RotatesFamily(f, t)
      PROVE  Dead(g)'
  BY <1>0, <1>1 DEF OpensFamily, RotatesFamily, Dead
<1>2. ASSUME NEW f \in Family, ClosesFamily(f) PROVE Dead(g)'
  BY <1>0, <1>2 DEF ClosesFamily, Dead
<1>3. CASE UNCHANGED <<famCur, opened, origin>>
  BY <1>3 DEF Dead
<1> QED
  BY <1>1, <1>2, <1>3, StepKinds

\* A family that was revoked, logged out or expired stays that way.
THEOREM DeadStaysDeadTheorem == Spec => DeadStaysDead
<1>1. IInv /\ [Next]_vars => [\A f \in Family : Dead(f) => Dead(f)']_vars
  BY DeadStep
<1> QED
  BY <1>1, InvariantTheorem, PTL DEF Spec, DeadStaysDead

-----------------------------------------------------------------------------
(* Refinement.                                                             *)

\* A token without a record was never stored, so the sessions see it as fresh.
LEMMA UnstoredIsFresh ==
    ASSUME IInv, NEW t \in Token, origin[t] = NoRec
    PROVE  Sessions!Fresh(t)
<1>1. \A f \in Family : famCur[f] # t
  BY NoneAssumption DEF IInv, CurrentInv, RecordInv
<1>2. \A f \in Family : Holder[f] # t
  BY <1>1, TokensAreOpaque DEF Holder
<1>3. t \notin Spent
  BY DEF Spent
<1> QED
  BY <1>2, <1>3 DEF Sessions!Fresh

\* The current token of a family is current in no other, and was stored.
LEMMA CurrentFacts ==
    ASSUME IInv, NEW f \in Family, famCur[f] # None
    PROVE  /\ famCur[f] \in Token /\ f \in opened /\ origin[famCur[f]] # NoRec
           /\ \A g \in Family : famCur[g] = famCur[f] => g = f
BY DEF IInv, TypeOK, CurrentInv, RecordInv

\* The initial states correspond.
LEMMA InitRefines == Init => Sessions!SessionInit
BY DEF Init, Sessions!SessionInit, Holder, Spent

\* Every step is a step of the sessions or leaves them unchanged.
LEMMA StepRefines ==
    IInv /\ [Next]_vars => [Sessions!SessionNext]_(Sessions!sessionVars)
<1> SUFFICES ASSUME IInv, [Next]_vars
             PROVE  Sessions!SessionNext \/ UNCHANGED Sessions!sessionVars
  OBVIOUS
<1>0. famCur \in [Family -> Token \cup {None}]
  BY DEF IInv, TypeOK
<1>1. ASSUME NEW f \in Family, NEW t \in Token, OpensFamily(f, t)
      PROVE  Sessions!Login(f, t)
  <2>1. famCur[f] = None /\ Holder[f] = "unborn" /\ Sessions!Fresh(t)
    BY <1>1, UnstoredIsFresh DEF OpensFamily, Holder, IInv, CurrentInv
  <2>2. Holder' = [Holder EXCEPT ![f] = t]
    BY <1>0, <1>1, NoneAssumption DEF OpensFamily, Holder
  <2>3. Spent' = Spent
    <3>1. \A g \in Family : famCur'[g] = IF g = f THEN t ELSE famCur[g]
      BY <1>0, <1>1 DEF OpensFamily
    <3>2. \A s \in Token : s # t => ((\E g \in Family : famCur'[g] = s) <=> (\E g \in Family : famCur[g] = s))
      BY <2>1, <3>1, NoneAssumption
    <3>3. \A s \in Token : s \in Spent' <=> s \in Spent
      BY <1>1, <3>1, <3>2 DEF Spent, OpensFamily
    <3> QED
      BY <3>3 DEF Spent
  <2> QED
    BY <2>1, <2>2, <2>3 DEF Sessions!Login
<1>2. ASSUME NEW f \in Family, NEW t \in Token, RotatesFamily(f, t)
      PROVE  Sessions!Exchange(f, t)
  <2>1. /\ Sessions!Fresh(t) /\ Holder[f] = famCur[f] /\ famCur[f] \in Token
        /\ origin[famCur[f]] # NoRec /\ f \in opened
        /\ \A g \in Family : famCur[g] = famCur[f] => g = f
    BY <1>2, UnstoredIsFresh, CurrentFacts DEF RotatesFamily, Holder
  <2>2. Holder' = [Holder EXCEPT ![f] = t]
    BY <1>0, <1>2, <2>1, NoneAssumption DEF RotatesFamily, Holder
  <2>3. Spent' = Spent \cup {Holder[f]}
    <3>1. \A g \in Family : famCur'[g] = IF g = f THEN t ELSE famCur[g]
      BY <1>0, <1>2 DEF RotatesFamily
    <3>2. \A s \in Token : s \in Spent' <=> s \in Spent \/ s = famCur[f]
      BY <1>2, <2>1, <3>1 DEF Spent, RotatesFamily
    <3> QED
      BY <2>1, <3>2 DEF Spent
  <2> QED
    BY <2>1, <2>2, <2>3 DEF Sessions!Exchange
<1>3. ASSUME NEW f \in Family, ClosesFamily(f)
      PROVE  Sessions!End(f)
  <2>1. /\ Holder[f] = famCur[f] /\ famCur[f] \in Token
        /\ origin[famCur[f]] # NoRec /\ f \in opened
        /\ \A g \in Family : famCur[g] = famCur[f] => g = f
    BY <1>3, CurrentFacts DEF ClosesFamily, Holder
  <2>2. Holder' = [Holder EXCEPT ![f] = "ended"]
    BY <1>0, <1>3, <2>1, NoneAssumption DEF ClosesFamily, Holder
  <2>3. Spent' = Spent \cup {Holder[f]}
    <3>1. \A g \in Family : famCur'[g] = IF g = f THEN None ELSE famCur[g]
      BY <1>0, <1>3 DEF ClosesFamily
    <3>2. \A s \in Token : s \in Spent' <=> s \in Spent \/ s = famCur[f]
      BY <1>3, <2>1, <3>1, NoneAssumption DEF Spent, ClosesFamily
    <3> QED
      BY <2>1, <3>2 DEF Spent
  <2> QED
    BY <2>1, <2>2, <2>3 DEF Sessions!End
<1>4. CASE UNCHANGED <<famCur, opened, origin>>
  BY <1>4 DEF Sessions!sessionVars, Holder, Spent
<1> QED
  BY <1>1, <1>2, <1>3, <1>4, StepKinds DEF Sessions!SessionNext

\* Rotation in Redis implements the abstract sessions of SessionFamilies.
THEOREM RefinementTheorem == Spec => SessionRefinement
<1>1. Init => Sessions!SessionInit
  BY InitRefines
<1>2. IInv /\ [Next]_vars => [Sessions!SessionNext]_(Sessions!sessionVars)
  BY StepRefines
<1> QED
  BY <1>1, <1>2, InvariantTheorem, PTL DEF Spec, SessionRefinement, Sessions!SessionSpec
=============================================================================
