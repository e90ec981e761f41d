--------------------------- MODULE SessionsProofs ---------------------------
(***************************************************************************)
(* For any number of tabs, tokens and requests, and whatever is lost,      *)
(* reloaded, copied or fails: an exchanged token is spent, and the first   *)
(* alarm is never a false one.                                             *)
(*                                                                         *)
(* The second rests on who may present a token.  As long as a token was    *)
(* neither logged out nor exposed, one refresh at most holds it, the tab   *)
(* that sent it waits for that refresh, and no other tab has it stored;    *)
(* so by the time it is spent nobody is left to present it, and nobody     *)
(* else exchanges it.                                                      *)
(***************************************************************************)
EXTENDS Sessions, TLAPS

(***************************************************************************)
(* Types                                                                   *)
(***************************************************************************)
LEMMA TypeOKTab ==
  ASSUME TypeOK, NEW i \in Tabs, TabStep(i)
  PROVE  TypeOK'
<1> USE SessionsAssumption DEF TypeOK, tabVars, serverVars, history, RefreshSteps,
        LogoutSteps
<1>1. CASE Login(i)
  BY <1>1 DEF Login, IssueTokens
<1>2. CASE LoginReplies(i)
  BY <1>2 DEF LoginReplies, ApplyTokens
<1>3. CASE AccessExpires(i)
  BY <1>3 DEF AccessExpires
<1>4. CASE Call(i)
  BY <1>4 DEF Call
<1>5. CASE RefreshLost(i)
  BY <1>5 DEF RefreshLost
<1>6. ASSUME NEW h \in Handlers, Unauthorized(i, h) PROVE TypeOK'
  BY <1>6 DEF Unauthorized, RefreshSession, Receive
<1>7. ASSUME NEW h \in Handlers, Logout(i, h) PROVE TypeOK'
  BY <1>7 DEF Logout, ClearSession, Receive
<1>8. ASSUME NEW h \in Handlers, Reload(i, h) PROVE TypeOK'
  BY <1>8 DEF Reload, Receive
<1>9. ASSUME NEW h \in Handlers, NEW j \in Tabs \ {i}, Duplicate(i, j, h)
      PROVE TypeOK'
  BY <1>9 DEF Duplicate, Receive
<1>. QED
  BY <1>1, <1>2, <1>3, <1>4, <1>5, <1>6, <1>7, <1>8, <1>9 DEF TabStep

LEMMA TypeOKServer ==
  ASSUME TypeOK, NEW h \in Handlers, HandlerStep(h)
  PROVE  TypeOK'
<1> USE SessionsAssumption DEF TypeOK, tabVars, serverVars, history, RefreshSteps,
        LogoutSteps, Goes
<1>1. CASE RefreshRead(h)
  BY <1>1 DEF RefreshRead
<1>2. CASE RefreshRevokesAll(h)
  BY <1>2 DEF RefreshRevokesAll
<1>3. CASE RefreshRevokes(h)
  BY <1>3 DEF RefreshRevokes, Revoke
<1>4. CASE RefreshIssues(h)
  BY <1>4 DEF RefreshIssues, IssueTokens
<1>5. CASE RefreshReplies(h)
  BY <1>5 DEF RefreshReplies, Ends, ApplyTokens, ClearSession
<1>6. CASE RefreshFails(h)
  BY <1>6 DEF RefreshFails
<1>7. CASE LogoutReads(h)
  BY <1>7 DEF LogoutReads
<1>8. CASE LogoutRevokes(h)
  BY <1>8 DEF LogoutRevokes, Revoke, Ends
<1>9. CASE LogoutFails(h)
  BY <1>9 DEF LogoutFails, Ends
<1>. QED
  BY <1>1, <1>2, <1>3, <1>4, <1>5, <1>6, <1>7, <1>8, <1>9 DEF HandlerStep

LEMMA TypeOKNext == TypeOK /\ [Next]_vars => TypeOK'
<1>. SUFFICES ASSUME TypeOK, [Next]_vars PROVE TypeOK'
  OBVIOUS
<1>1. ASSUME NEW t \in Tokens, TokenExpires(t) PROVE TypeOK'
  BY <1>1 DEF TypeOK, TokenExpires, tabVars, serverVars, history
<1>2. CASE UNCHANGED vars
  BY <1>2 DEF TypeOK, vars
<1>. QED
  BY <1>1, <1>2, TypeOKTab, TypeOKServer DEF Next

LEMMA InitTypeOK == Init => TypeOK
<1>. SUFFICES ASSUME Init PROVE TypeOK
  OBVIOUS
<1>1. calls \in [Tabs -> 0..MaxCalls]
  BY SessionsAssumption DEF Init
<1>2. alarm \in BOOLEAN /\ ended \in SUBSET Tokens /\ exposed \in SUBSET Tokens
  BY DEF Init
<1>. QED
  BY <1>1, <1>2, SessionsAssumption DEF Init, TypeOK

(* Every variable keeps its type, a request being served has a token, and  *)
(* a tab waits only for a refresh that is being served.                    *)
THEOREM TypeCorrect == Spec => []TypeOK
  BY InitTypeOK, TypeOKNext, PTL DEF Spec

(***************************************************************************)
(* Exchanged tokens                                                        *)
(***************************************************************************)
SpentInv ==
  /\ TypeOK
  /\ ExchangedIsSpent
  /\ \A h \in Handlers : step[h] = "issue" => row[tok[h]] = "revoked"

(* A revoked row stays revoked, whatever happens.                          *)
LEMMA RevokedStays ==
  ASSUME TypeOK, Next, NEW t \in Tokens, row[t] = "revoked"
  PROVE  row'[t] = "revoked"
<1> USE DEF TypeOK, tabVars, serverVars, history
<1>1. ASSUME NEW i \in Tabs, TabStep(i) PROVE row'[t] = "revoked"
  BY <1>1 DEF TabStep, Login, LoginReplies, AccessExpires, Call, RefreshLost,
       Unauthorized, Logout, Reload, Duplicate, IssueTokens
<1>2. ASSUME NEW h \in Handlers, HandlerStep(h) PROVE row'[t] = "revoked"
  BY <1>2 DEF HandlerStep, RefreshRead, RefreshRevokesAll, RefreshRevokes,
       RefreshIssues, RefreshReplies, RefreshFails, LogoutReads, LogoutRevokes,
       LogoutFails, Revoke, IssueTokens
<1>3. ASSUME NEW u \in Tokens, TokenExpires(u) PROVE row'[t] = "revoked"
  BY <1>3 DEF TokenExpires
<1>. QED
  BY <1>1, <1>2, <1>3 DEF Next

LEMMA SpentTab ==
  ASSUME SpentInv, TypeOK', Next, NEW i \in Tabs, TabStep(i)
  PROVE  SpentInv'
<1> USE SessionsAssumption DEF SpentInv, TypeOK, tabVars, serverVars, history
<1>1. ExchangedIsSpent'
  <2>1. CASE Login(i)
    BY <2>1, RevokedStays DEF Login, IssueTokens, ExchangedIsSpent
  <2>2. CASE ~Login(i)
    <3>1. UNCHANGED parent
      BY <2>2 DEF TabStep, LoginReplies, AccessExpires, Call, RefreshLost,
           Unauthorized, Logout, Reload, Duplicate
    <3>. QED
      BY <3>1, RevokedStays DEF ExchangedIsSpent
  <2>. QED
    BY <2>1, <2>2
<1>2. \A h \in Handlers : step'[h] = "issue" => row'[tok'[h]] = "revoked"
  <2>. SUFFICES ASSUME NEW h \in Handlers, step'[h] = "issue"
               PROVE  row'[tok'[h]] = "revoked"
    OBVIOUS
  <2>1. step[h] = "issue" /\ tok'[h] = tok[h]
    BY DEF TabStep, Login, LoginReplies, AccessExpires, Call, RefreshLost,
       Unauthorized, RefreshSession, Logout, Reload, Duplicate, Receive
  <2>. QED
    BY <2>1, RevokedStays
<1>. QED
  BY <1>1, <1>2

LEMMA SpentServer ==
  ASSUME SpentInv, TypeOK', Next, NEW h \in Handlers, HandlerStep(h)
  PROVE  SpentInv'
<1> USE SessionsAssumption DEF SpentInv, TypeOK, tabVars, serverVars, history, Goes
<1>1. CASE RefreshIssues(h)
  <2>1. PICK t \in Tokens : IssueTokens(t, tok[h])
    BY <1>1 DEF RefreshIssues
  <2>2. row[tok[h]] = "revoked" /\ tok[h] \in Tokens
    BY <1>1 DEF RefreshIssues
  <2>3. ExchangedIsSpent'
    BY <2>1, <2>2, RevokedStays DEF IssueTokens, ExchangedIsSpent
  <2>4. \A g \in Handlers : step'[g] = "issue" => row'[tok'[g]] = "revoked"
    BY <1>1, RevokedStays DEF RefreshIssues
  <2>. QED
    BY <2>3, <2>4
<1>2. CASE ~RefreshIssues(h)
  <2>1. UNCHANGED parent
    BY <1>2 DEF HandlerStep, RefreshRead, RefreshRevokesAll, RefreshRevokes,
         RefreshReplies, RefreshFails, LogoutReads, LogoutRevokes, LogoutFails
  <2>2. ExchangedIsSpent'
    BY <2>1, RevokedStays DEF ExchangedIsSpent
  <2>3. ASSUME NEW g \in Handlers, step'[g] = "issue"
        PROVE  row'[tok'[g]] = "revoked"
    <3>1. CASE RefreshRevokes(h) /\ g = h
      BY <3>1 DEF RefreshRevokes, Revoke
    <3>2. CASE ~(RefreshRevokes(h) /\ g = h)
      <4>1. step[g] = "issue" /\ tok'[g] = tok[g]
        BY <1>2, <2>3, <3>2 DEF HandlerStep, RefreshRead, RefreshRevokesAll,
           RefreshRevokes, RefreshReplies, RefreshFails, LogoutReads,
           LogoutRevokes, LogoutFails, Ends
      <4>. QED
        BY <4>1, RevokedStays
    <3>. QED
      BY <3>1, <3>2
  <2>. QED
    BY <2>2, <2>3
<1>. QED
  BY <1>1, <1>2

LEMMA SpentNext == SpentInv /\ [Next]_vars => SpentInv'
<1>. SUFFICES ASSUME SpentInv, [Next]_vars PROVE SpentInv'
  OBVIOUS
<1>1. TypeOK'
  BY TypeOKNext DEF SpentInv
<1>2. ASSUME NEW t \in Tokens, TokenExpires(t), Next PROVE SpentInv'
  BY <1>1, <1>2, RevokedStays
     DEF SpentInv, ExchangedIsSpent, TypeOK, TokenExpires, tabVars, serverVars,
         history
<1>3. CASE UNCHANGED vars
  BY <1>1, <1>3 DEF SpentInv, ExchangedIsSpent, vars
<1>. QED
  BY <1>1, <1>2, <1>3, SpentTab, SpentServer DEF Next

(* For any number of requests presenting one token at once, and whatever   *)
(* fails between the two statements of Refresh: a token that was exchanged *)
(* is revoked.                                                             *)
THEOREM SpentOnExchange == Spec => []ExchangedIsSpent
<1>1. Init => SpentInv
  BY InitTypeOK DEF Init, SpentInv, ExchangedIsSpent
<1>2. SpentInv => ExchangedIsSpent
  BY DEF SpentInv
<1>. QED
  BY <1>1, <1>2, SpentNext, PTL DEF Spec

(***************************************************************************)
(* The first alarm                                                         *)
(***************************************************************************)
Busy(h) == step[h] \in RefreshSteps

Clean(t) == t \notin ended /\ t \notin exposed

(* Every token that anybody has was issued.                                *)
Issued ==
  /\ \A i \in Tabs : stored[i] # None => row[stored[i]] # "none"
  /\ \A i \in Tabs : login[i] # None => row[login[i]] # "none"
  /\ \A h \in Handlers : tok[h] # None => row[tok[h]] # "none"
  /\ \A h \in Handlers : new[h] # None => row[new[h]] # "none"
  /\ \A t \in ended \cup exposed : row[t] # "none"

(* A token on its way to its tab is nowhere else.                          *)
Unused(t) ==
  /\ Clean(t)
  /\ row[t] = "revoked" => alarm
  /\ \A i \in Tabs : stored[i] # t
  /\ \A h \in Handlers : tok[h] # t

Delivered ==
  /\ \A i \in Tabs : login[i] # None =>
       /\ Unused(login[i])
       /\ \A j \in Tabs : login[j] = login[i] => j = i
       /\ \A h \in Handlers : new[h] # login[i]
  /\ \A h \in Handlers : new[h] # None =>
       /\ Unused(new[h])
       /\ \A g \in Handlers : new[g] = new[h] => g = h

(* Refreshes, the tokens they hold and the tabs that wait for them.        *)
Waiting ==
  /\ \A i, j \in Tabs : flight[i] \in Handlers /\ flight[i] = flight[j] => i = j
  /\ \A h \in Handlers : step[h] \in LogoutSteps => tok[h] \in ended
  /\ \A h \in Handlers : step[h] = "ok" => new[h] # None
  /\ \A h \in Handlers : Busy(h) /\ Clean(tok[h]) =>
       \E i \in Tabs : flight[i] = h
  /\ \A g, h \in Handlers :
       Busy(g) /\ Busy(h) /\ tok[g] = tok[h] /\ Clean(tok[h]) => g = h

(* Tabs and the tokens they store.                                         *)
Storing ==
  /\ \A i \in Tabs : access[i] # "none" => stored[i] # None
  /\ \A i \in Tabs : stored[i] # None /\ stored[i] \notin exposed =>
       /\ stored[i] \notin ended
       /\ \A j \in Tabs : stored[j] = stored[i] => j = i
       /\ \A h \in Handlers : Busy(h) /\ tok[h] = stored[i] => flight[i] = h

(* Who can still present a token that is spent.                            *)
Spending ==
  ~alarm =>
    /\ \A i \in Tabs :
         stored[i] # None /\ stored[i] \notin exposed /\ row[stored[i]] = "revoked"
           => \E h \in Handlers : flight[i] = h /\ tok[h] = stored[i]
    /\ \A h \in Handlers :
         Busy(h) /\ Clean(tok[h]) /\ row[tok[h]] = "revoked"
           => step[h] \in {"issue", "ok", "no"}
    /\ \A h \in Handlers : step[h] = "revokeAll" => row[tok[h]] = "revoked"

AlarmInv == TypeOK /\ Issued /\ Delivered /\ Waiting /\ Storing /\ Spending

LEMMA AlarmTab ==
  ASSUME AlarmInv, TypeOK', NEW i \in Tabs, TabStep(i)
  PROVE  AlarmInv'
<1> USE SessionsAssumption DEF AlarmInv, TypeOK, Issued, Delivered, Waiting, Storing,
        Spending, Busy, Clean, Unused, RefreshSteps, LogoutSteps, tabVars,
        serverVars, history
<1>1. CASE Login(i)
  BY <1>1 DEF Login, IssueTokens
<1>2. CASE LoginReplies(i)
  BY <1>2 DEF LoginReplies, ApplyTokens
<1>3. CASE AccessExpires(i)
  BY <1>3 DEF AccessExpires
<1>4. CASE Call(i)
  BY <1>4 DEF Call
<1>5. CASE RefreshLost(i)
  BY <1>5 DEF RefreshLost
<1>6. ASSUME NEW h \in Handlers, Unauthorized(i, h) PROVE AlarmInv'
  BY <1>6 DEF Unauthorized, RefreshSession, Receive
<1>7. ASSUME NEW h \in Handlers, Logout(i, h) PROVE AlarmInv'
  <2>1. stored[i] # None
    BY <1>7 DEF Logout
  <2>2. /\ Receive(h, stored[i], "readOut")
        /\ ended' = ended \cup {stored[i]}
        /\ ClearSession(i)
        /\ UNCHANGED <<row, calls, flight, login, parent, exposed, alarm>>
    BY <1>7, <2>1 DEF Logout
  <2>3. Issued' /\ Delivered'
    BY <2>1, <2>2 DEF Receive, ClearSession
  <2>4. Waiting'
    BY <2>1, <2>2 DEF Receive, ClearSession
  <2>5. Storing'
    BY <2>1, <2>2 DEF Receive, ClearSession
  <2>6. Spending'
    BY <2>1, <2>2 DEF Receive, ClearSession
  <2>. QED
    BY <2>3, <2>4, <2>5, <2>6
<1>8. ASSUME NEW h \in Handlers, Reload(i, h) PROVE AlarmInv'
  <2>1. CASE stored[i] = None
    <3>1. Issued' /\ Delivered'
      BY <1>8, <2>1 DEF Reload
    <3>2. Waiting'
      BY <1>8, <2>1 DEF Reload
    <3>3. Storing' /\ Spending'
      BY <1>8, <2>1 DEF Reload
    <3>. QED
      BY <3>1, <3>2, <3>3
  <2>2. CASE stored[i] # None
    <3>1. Issued' /\ Delivered'
      BY <1>8, <2>2 DEF Reload, Receive
    <3>2. Waiting'
      BY <1>8, <2>2 DEF Reload, Receive
    <3>3. Storing'
      BY <1>8, <2>2 DEF Reload, Receive
    <3>4. flight' = [flight EXCEPT ![i] = h] /\ Receive(h, stored[i], "read")
      BY <1>8, <2>2 DEF Reload
    <3>5. UNCHANGED <<row, stored, ended, alarm>> /\ exposed \subseteq exposed'
      BY <1>8 DEF Reload
    <3>6. ASSUME ~alarm, Clean(stored[i])' PROVE row[stored[i]] # "revoked"
      BY <1>8, <2>2, <3>6 DEF Reload
    <3>7. ASSUME ~alarm, NEW j \in Tabs, stored[j] # None, Clean(stored[j])',
                 row[stored[j]] = "revoked"
          PROVE  \E g \in Handlers : flight'[j] = g /\ tok'[g] = stored[j]
      <4>1. j # i
        BY <3>5, <3>6, <3>7
      <4>2. PICK g \in Handlers : flight[j] = g /\ tok[g] = stored[j]
        BY <3>5, <3>7
      <4>3. g # h
        BY <3>4, <4>2 DEF Receive
      <4>. QED
        BY <3>4, <4>1, <4>2, <4>3 DEF Receive
    <3>8. Spending'
      BY <2>2, <3>3, <3>4, <3>5, <3>6, <3>7 DEF Receive
    <3>. QED
      BY <3>1, <3>2, <3>3, <3>8
  <2>. QED
    BY <2>1, <2>2
<1>9. ASSUME NEW h \in Handlers, NEW j \in Tabs \ {i}, Duplicate(i, j, h)
      PROVE AlarmInv'
  BY <1>9 DEF Duplicate, Receive
<1>. QED
  BY <1>1, <1>2, <1>3, <1>4, <1>5, <1>6, <1>7, <1>8, <1>9 DEF TabStep

LEMMA AlarmServer ==
  ASSUME AlarmInv, TypeOK', NEW h \in Handlers, HandlerStep(h)
  PROVE  AlarmInv'
<1> USE SessionsAssumption DEF AlarmInv, TypeOK, Issued, Delivered, Waiting, Storing,
        Spending, Busy, Clean, Unused, RefreshSteps, LogoutSteps, tabVars,
        serverVars, history, Goes
<1>1. CASE RefreshRead(h)
  BY <1>1 DEF RefreshRead
<1>2. CASE RefreshRevokesAll(h)
  BY <1>2 DEF RefreshRevokesAll
<1>3. CASE RefreshRevokes(h)
  BY <1>3 DEF RefreshRevokes, Revoke
<1>4. CASE RefreshIssues(h)
  BY <1>4 DEF RefreshIssues, IssueTokens
<1>5. CASE RefreshReplies(h)
  <2>1. CASE \A i \in Tabs : flight[i] # h
    <3>1. UNCHANGED <<row, stored, access, calls, login, history, flight>>
      BY <1>5, <2>1 DEF RefreshReplies
    <3>. QED
      BY <1>5, <2>1, <3>1 DEF RefreshReplies, Ends
  <2>2. ASSUME NEW i \in Tabs, flight[i] = h, step[h] = "ok"
        PROVE  AlarmInv'
    <3>1. /\ access' = [access EXCEPT ![i] = "fresh"]
          /\ stored' = [stored EXCEPT ![i] = new[h]]
      BY <1>5, <2>2 DEF RefreshReplies, ApplyTokens
    <3>2. Issued' /\ Delivered'
      BY <1>5, <2>2, <3>1 DEF RefreshReplies, Ends
    <3>3. Waiting'
      BY <1>5, <2>2, <3>1 DEF RefreshReplies, Ends
    <3>4. Storing'
      BY <1>5, <2>2, <3>1 DEF RefreshReplies, Ends
    <3>5. Spending'
      BY <1>5, <2>2, <3>1 DEF RefreshReplies, Ends
    <3>. QED
      BY <3>2, <3>3, <3>4, <3>5
  <2>3. ASSUME NEW i \in Tabs, flight[i] = h, step[h] # "ok"
        PROVE  AlarmInv'
    <3>1. /\ access' = [access EXCEPT ![i] = "none"]
          /\ stored' = [stored EXCEPT ![i] = None]
      BY <1>5, <2>3 DEF RefreshReplies, ClearSession
    <3>2. Issued' /\ Delivered'
      BY <1>5, <2>3, <3>1 DEF RefreshReplies, Ends
    <3>3. Waiting'
      BY <1>5, <2>3, <3>1 DEF RefreshReplies, Ends
    <3>4. Storing' /\ Spending'
      BY <1>5, <2>3, <3>1 DEF RefreshReplies, Ends
    <3>. QED
      BY <3>2, <3>3, <3>4
  <2>. QED
    BY <2>1, <2>2, <2>3
<1>6. CASE RefreshFails(h)
  BY <1>6 DEF RefreshFails
<1>7. CASE LogoutReads(h)
  BY <1>7 DEF LogoutReads
<1>8. CASE LogoutRevokes(h)
  BY <1>8 DEF LogoutRevokes, Revoke, Ends
<1>9. CASE LogoutFails(h)
  BY <1>9 DEF LogoutFails, Ends
<1>. QED
  BY <1>1, <1>2, <1>3, <1>4, <1>5, <1>6, <1>7, <1>8, <1>9 DEF HandlerStep

LEMMA AlarmNext == AlarmInv /\ [Next]_vars => AlarmInv'
<1>. SUFFICES ASSUME AlarmInv, [Next]_vars PROVE AlarmInv'
  OBVIOUS
<1> USE DEF AlarmInv, Issued, Delivered, Waiting, Storing, Spending, Busy, Clean, Unused
<1>1. TypeOK'
  BY TypeOKNext
<1>2. ASSUME NEW t \in Tokens, TokenExpires(t) PROVE AlarmInv'
  BY <1>1, <1>2, SessionsAssumption
     DEF TypeOK, TokenExpires, tabVars, serverVars, history
<1>3. CASE UNCHANGED vars
  BY <1>1, <1>3 DEF vars
<1>. QED
  BY <1>1, <1>2, <1>3, AlarmTab, AlarmServer DEF Next

THEOREM AlarmInvHolds == Spec => []AlarmInv
<1>1. Init => AlarmInv
  BY InitTypeOK, SessionsAssumption
     DEF Init, AlarmInv, Issued, Delivered, Waiting, Storing, Spending, Busy,
         Clean, RefreshSteps, LogoutSteps
<1>. QED
  BY <1>1, AlarmNext, PTL DEF Spec

(* However many calls fail together and whatever is lost, reloaded, copied *)
(* or fails: the first alarm is over a token that was logged out, copied,  *)
(* or whose refresh was cut off.                                           *)
THEOREM NoAlarmWithoutCause == Spec => []NoFalseAlarm
<1>1. AlarmInv => NoFalseAlarm
  BY DEF AlarmInv, Spending, Busy, Clean, NoFalseAlarm, RefreshSteps
<1>. QED
  BY <1>1, AlarmInvHolds, PTL

(* A tab that looks signed in has a token it can still exchange, or waits  *)
(* for its successor, until an alarm or a refresh that was cut off.        *)
THEOREM SessionsGoOn == Spec => []SignedInCanRefresh
<1>1. AlarmInv => SignedInCanRefresh
  BY DEF AlarmInv, Storing, Spending, SignedInCanRefresh
<1>. QED
  BY <1>1, AlarmInvHolds, PTL

(***************************************************************************)
(* Rotation                                                                *)
(***************************************************************************)

(* p was exchanged: nobody is given it any more, and whoever still has it  *)
(* is at the end of that very exchange.                                    *)
UsedUp(p) ==
  /\ \A i \in Tabs : login[i] # p
  /\ \A h \in Handlers : new[h] # p
  /\ \A h \in Handlers : Busy(h) /\ tok[h] = p => step[h] = "ok"
  /\ \A i \in Tabs : stored[i] = p =>
       \E h \in Handlers : flight[i] = h /\ tok[h] = p

RotationInv ==
  /\ \A t \in Tokens : parent[t] # None /\ Clean(parent[t]) => UsedUp(parent[t])
  /\ ExchangedOnce

(* A token that is used up stays so until it is logged out, copied or cut  *)
(* off.                                                                    *)
LEMMA UsedUpStays ==
  ASSUME AlarmInv, TypeOK', Next, NEW p \in Tokens, row[p] # "none", UsedUp(p),
         Clean(p)'
  PROVE  UsedUp(p)'
<1> USE SessionsAssumption DEF UsedUp, AlarmInv, TypeOK, Clean, Busy,
        RefreshSteps, LogoutSteps, tabVars, serverVars, history
<1>1. ASSUME NEW i \in Tabs, TabStep(i) PROVE UsedUp(p)'
  <2>1. CASE Login(i)
    BY <2>1 DEF Login, IssueTokens
  <2>2. CASE LoginReplies(i)
    BY <2>2 DEF LoginReplies, ApplyTokens
  <2>3. CASE AccessExpires(i) \/ Call(i) \/ RefreshLost(i)
    BY <2>3 DEF AccessExpires, Call, RefreshLost
  <2>4. ASSUME NEW h \in Handlers, Unauthorized(i, h) PROVE UsedUp(p)'
    BY <2>4 DEF Unauthorized, RefreshSession, Receive
  <2>5. ASSUME NEW h \in Handlers, Logout(i, h) PROVE UsedUp(p)'
    BY <2>5 DEF Logout, ClearSession, Receive
  <2>6. ASSUME NEW h \in Handlers, Reload(i, h) PROVE UsedUp(p)'
    BY <2>6 DEF Reload, Receive
  <2>7. ASSUME NEW h \in Handlers, NEW j \in Tabs \ {i}, Duplicate(i, j, h)
        PROVE  UsedUp(p)'
    BY <2>7 DEF Duplicate, Receive
  <2>. QED
    BY <1>1, <2>1, <2>2, <2>3, <2>4, <2>5, <2>6, <2>7 DEF TabStep
<1>2. ASSUME NEW h \in Handlers, HandlerStep(h) PROVE UsedUp(p)'
  <2>1. CASE RefreshIssues(h)
    BY <2>1 DEF RefreshIssues, IssueTokens, Goes
  <2>2. CASE RefreshReplies(h)
    <3>1. ASSUME NEW i \in Tabs, stored'[i] = p
          PROVE  stored[i] = p /\ flight[i] # h
      BY <2>2, <3>1, SessionsAssumption
         DEF RefreshReplies, Ends, ApplyTokens, ClearSession, Delivered, Waiting
    <3>2. UNCHANGED login /\ \A g \in Handlers : new'[g] \in {new[g], None}
      BY <2>2 DEF RefreshReplies, Ends
    <3>3. \A g \in Handlers \ {h} : step'[g] = step[g] /\ tok'[g] = tok[g]
      BY <2>2 DEF RefreshReplies, Ends
    <3>4. step'[h] = "idle" /\ \A i \in Tabs : flight[i] # h => flight'[i] = flight[i]
      BY <2>2 DEF RefreshReplies, Ends
    <3>. QED
      BY <3>1, <3>2, <3>3, <3>4
  <2>3. CASE LogoutRevokes(h) \/ LogoutFails(h)
    BY <2>3 DEF LogoutRevokes, LogoutFails, Ends, Waiting
  <2>4. CASE \/ RefreshRead(h) \/ RefreshRevokesAll(h) \/ RefreshRevokes(h)
             \/ RefreshFails(h) \/ LogoutReads(h)
    BY <2>4 DEF RefreshRead, RefreshRevokesAll, RefreshRevokes, RefreshFails,
       LogoutReads, Goes
  <2>. QED
    BY <1>2, <2>1, <2>2, <2>3, <2>4 DEF HandlerStep
<1>3. ASSUME NEW t \in Tokens, TokenExpires(t) PROVE UsedUp(p)'
  BY <1>3 DEF TokenExpires
<1>. QED
  BY <1>1, <1>2, <1>3 DEF Next

(* A token that is not exposed is used up by its exchange.                 *)
LEMMA ExchangeUsesUp ==
  ASSUME AlarmInv, NEW h \in Handlers, RefreshIssues(h),
         NEW p \in Tokens, p = tok[h], Clean(p)
  PROVE  UsedUp(p)'
<1>1. /\ step[h] = "issue" /\ row[p] # "none"
      /\ step' = [step EXCEPT ![h] = "ok"]
      /\ UNCHANGED <<stored, access, calls, flight, login, tok>>
      /\ \E t \in Tokens : row[t] = "none" /\ new' = [new EXCEPT ![h] = t]
  BY SessionsAssumption
     DEF RefreshIssues, IssueTokens, Goes, tabVars, AlarmInv, TypeOK, Issued
<1>2. /\ \A i \in Tabs : login[i] # p
      /\ \A g \in Handlers : new'[g] # p
  BY <1>1, SessionsAssumption DEF AlarmInv, Delivered, Unused, TypeOK
<1>3. \A g \in Handlers : Busy(g)' /\ tok[g] = p => step'[g] = "ok"
  BY <1>1 DEF AlarmInv, TypeOK, Waiting, Busy, RefreshSteps
<1>4. \A i \in Tabs : stored[i] = p => flight[i] = h
  BY <1>1, SessionsAssumption DEF AlarmInv, TypeOK, Storing, Busy, RefreshSteps, Clean
<1>. QED
  BY <1>1, <1>2, <1>3, <1>4 DEF UsedUp

LEMMA WhoExchanges ==
  ASSUME TypeOK, [Next]_vars, NEW t \in Tokens, parent'[t] # parent[t],
         parent'[t] # None
  PROVE  \E h \in Handlers : /\ RefreshIssues(h) /\ parent'[t] = tok[h]
                             /\ \A u \in Tokens \ {t} : parent'[u] = parent[u]
<1> USE DEF TypeOK, tabVars, serverVars, history
<1>1. ASSUME NEW i \in Tabs, TabStep(i) PROVE FALSE
  BY <1>1 DEF TabStep, Login, LoginReplies, AccessExpires, Call, RefreshLost,
     Unauthorized, Logout, Reload, Duplicate, IssueTokens
<1>2. ASSUME NEW h \in Handlers, HandlerStep(h)
      PROVE  /\ RefreshIssues(h) /\ parent'[t] = tok[h]
             /\ \A u \in Tokens \ {t} : parent'[u] = parent[u]
  <2>1. RefreshIssues(h)
    BY <1>2 DEF HandlerStep, RefreshRead, RefreshRevokesAll, RefreshRevokes,
       RefreshReplies, RefreshFails, LogoutReads, LogoutRevokes, LogoutFails
  <2>2. PICK v \in Tokens : parent' = [parent EXCEPT ![v] = tok[h]]
    BY <2>1 DEF RefreshIssues, IssueTokens
  <2>. QED
    BY <2>1, <2>2
<1>3. CASE UNCHANGED vars \/ \E u \in Tokens : TokenExpires(u)
  BY <1>3 DEF vars, TokenExpires
<1>. QED
  BY <1>1, <1>2, <1>3 DEF Next

LEMMA RotationNext ==
  ASSUME AlarmInv, SpentInv, RotationInv, TypeOK', [Next]_vars
  PROVE  RotationInv'
<1> USE DEF RotationInv
<1>0. TypeOK /\ \A p \in Tokens : Clean(p)' => Clean(p)
  BY DEF AlarmInv, Next, TabStep, HandlerStep, Login, LoginReplies, AccessExpires,
     Call, RefreshLost, Unauthorized, Logout, Reload, Duplicate, RefreshRead,
     RefreshRevokesAll, RefreshRevokes, RefreshIssues, RefreshReplies,
     RefreshFails, LogoutReads, LogoutRevokes, LogoutFails, TokenExpires,
     history, vars, Clean
<1>1. ASSUME NEW t \in Tokens, NEW p \in Tokens, parent'[t] = p, Clean(p)'
      PROVE  UsedUp(p)'
  <2>1. Clean(p) /\ p # None
    BY <1>0, <1>1, SessionsAssumption
  <2>2. CASE parent[t] = p
    <3>1. UsedUp(p) /\ row[p] # "none"
      BY <2>1, <2>2 DEF SpentInv, ExchangedIsSpent
    <3>2. CASE Next
      BY <1>1, <3>1, <3>2, UsedUpStays
    <3>3. CASE UNCHANGED vars
      BY <3>1, <3>3 DEF vars, UsedUp, Busy
    <3>. QED
      BY <3>2, <3>3
  <2>3. CASE parent[t] # p
    <3>1. PICK h \in Handlers : RefreshIssues(h) /\ parent'[t] = tok[h]
      BY <1>0, <1>1, <2>1, <2>3, WhoExchanges
    <3>. QED
      BY <1>1, <2>1, <3>1, ExchangeUsesUp
  <2>. QED
    BY <2>2, <2>3
<1>2. ASSUME NEW t \in Tokens, NEW u \in Tokens, NEW p \in Tokens, t # u,
             parent'[t] = p, parent'[u] = p, parent[t] # p, Clean(p)
      PROVE  FALSE
  <2>1. PICK h \in Handlers : /\ RefreshIssues(h) /\ parent'[t] = tok[h]
                              /\ \A v \in Tokens \ {t} : parent'[v] = parent[v]
    BY <1>0, <1>2, SessionsAssumption, WhoExchanges
  <2>2. parent[u] = p /\ tok[h] = p /\ p # None
    BY <1>2, <2>1, SessionsAssumption
  <2>3. UsedUp(p)
    BY <1>2, <2>2
  <2>. QED
    BY <2>1, <2>2, <2>3 DEF UsedUp, Busy, RefreshSteps, RefreshIssues
<1>3. ExchangedOnce'
  <2>. SUFFICES ASSUME NEW t \in Tokens, NEW u \in Tokens, t # u,
                       NEW p \in Tokens, parent'[t] = p, parent'[u] = p,
                       Clean(p)'
                PROVE  FALSE
    BY DEF ExchangedOnce, Clean, TypeOK
  <2>1. Clean(p) /\ p # None
    BY <1>0, SessionsAssumption
  <2>2. parent[t] = p /\ parent[u] = p
    BY <1>2, <2>1
  <2>. QED
    BY <2>1, <2>2 DEF ExchangedOnce, Clean
<1>4. ASSUME NEW t \in Tokens, parent'[t] # None, Clean(parent[t])'
      PROVE  UsedUp(parent[t])'
  <2>1. PICK p \in Tokens : p = parent'[t]
    BY <1>4 DEF TypeOK
  <2>2. UsedUp(p)'
    BY <1>1, <1>4, <2>1 DEF Clean
  <2>. QED
    BY <2>1, <2>2 DEF UsedUp
<1>. QED
  BY <1>3, <1>4

(* However many requests are served at once and whatever fails: a token is *)
(* exchanged once, unless it was logged out, copied or cut off.            *)
THEOREM RotatesOnce == Spec => []ExchangedOnce
<1>1. Init => AlarmInv /\ SpentInv /\ RotationInv
  BY InitTypeOK, SessionsAssumption
     DEF Init, AlarmInv, Issued, Delivered, Waiting, Storing, Spending, Busy,
         Clean, RefreshSteps, LogoutSteps, SpentInv, ExchangedIsSpent,
         RotationInv, ExchangedOnce
<1>2. AlarmInv /\ SpentInv /\ RotationInv /\ [Next]_vars
      => AlarmInv' /\ SpentInv' /\ RotationInv'
  BY AlarmNext, SpentNext, RotationNext, TypeOKNext DEF SpentInv
<1>3. RotationInv => ExchangedOnce
  BY DEF RotationInv
<1>. QED
  BY <1>1, <1>2, <1>3, PTL DEF Spec
=============================================================================
