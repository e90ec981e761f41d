------------------------------ MODULE Sessions ------------------------------
(***************************************************************************)
(* The sessions of one user: refresh tokens in Postgres, AuthService's     *)
(* Login, Refresh and Logout, and the browser tabs that use them.          *)
(*                                                                         *)
(* A tab keeps a refresh token in its sessionStorage, and in the memory of *)
(* the page an access token and the refresh it has in flight.  A request   *)
(* runs a statement per step in a handler of the server, which goes on     *)
(* whether or not the tab still waits.  Access tokens are checked without  *)
(* state, so all that matters of one is whether it has expired.            *)
(***************************************************************************)
EXTENDS Naturals

CONSTANTS
  Tabs,      \* browser tabs
  Tokens,    \* refresh tokens; each is issued once
  Handlers,  \* /auth/refresh and /auth/logout requests being served
  None,      \* no token, no handler
  Stuck,     \* a refreshInFlight that is settled and was never reset
  MaxCalls,  \* API calls of a tab waiting for an answer
  Mishaps    \* what may happen besides, a subset of MishapKinds

(* "reload" a page is loaded again; "copy" a tab is duplicated, and the    *)
(* sessionStorage with it; "lost" a reply is lost; "error" a statement     *)
(* fails without effect.                                                   *)
MishapKinds == {"reload", "copy", "lost", "error"}

ASSUME SessionsAssumption ==
  /\ None \notin Tokens \cup Handlers
  /\ Stuck \notin Handlers /\ Stuck # None
  /\ MaxCalls \in Nat
  /\ Mishaps \subseteq MishapKinds

VARIABLES
  \* Postgres
  row,      \* row[t]    : refresh_tokens: "none", "live", "expired", "revoked"
  \* a tab
  stored,   \* stored[i] : REFRESH_STORAGE_KEY in sessionStorage
  access,   \* access[i] : accessToken, "none", "fresh" or "stale"
  calls,    \* calls[i]  : calls sent with a stale access token
  flight,   \* flight[i] : refreshInFlight, the handler it waits for
  login,    \* login[i]  : token issued by a Login that i has to learn of
  \* the server
  step,     \* step[h]   : what handler h does next
  tok,      \* tok[h]    : the token presented to h
  new,      \* new[h]    : the token h issued
  \* history
  parent,   \* parent[t] : the token t was exchanged for
  ended,    \* tokens whose tab logged out
  exposed,  \* tokens whose refresh was cut short, or that were copied
  alarm     \* RevokeAllForUser has run

tabVars    == <<stored, access, calls, flight, login>>
serverVars == <<step, tok, new>>
history    == <<parent, ended, exposed, alarm>>
vars == <<row, stored, access, calls, flight, login, step, tok, new,
          parent, ended, exposed, alarm>>

RefreshSteps == {"read", "revokeAll", "revoke", "issue", "ok", "no"}
LogoutSteps  == {"readOut", "revokeOut"}

TypeOK ==
  /\ row \in [Tokens -> {"none", "live", "expired", "revoked"}]
  /\ stored \in [Tabs -> Tokens \cup {None}]
  /\ access \in [Tabs -> {"none", "fresh", "stale"}]
  /\ calls \in [Tabs -> 0..MaxCalls]
  /\ flight \in [Tabs -> Handlers \cup {None, Stuck}]
  /\ login \in [Tabs -> Tokens \cup {None}]
  /\ step \in [Handlers -> {"idle"} \cup RefreshSteps \cup LogoutSteps]
  /\ tok \in [Handlers -> Tokens \cup {None}]
  /\ new \in [Handlers -> Tokens \cup {None}]
  /\ parent \in [Tokens -> Tokens \cup {None}]
  /\ ended \in SUBSET Tokens
  /\ exposed \in SUBSET Tokens
  /\ alarm \in BOOLEAN
  /\ \A h \in Handlers : step[h] # "idle" => tok[h] # None
  /\ \A i \in Tabs : flight[i] \in Handlers => step[flight[i]] \in RefreshSteps

Init ==
  /\ row = [t \in Tokens |-> "none"]
  /\ stored = [i \in Tabs |-> None]
  /\ access = [i \in Tabs |-> "none"]
  /\ calls = [i \in Tabs |-> 0]
  /\ flight = [i \in Tabs |-> None]
  /\ login = [i \in Tabs |-> None]
  /\ step = [h \in Handlers |-> "idle"]
  /\ tok = [h \in Handlers |-> None]
  /\ new = [h \in Handlers |-> None]
  /\ parent = [t \in Tokens |-> None]
  /\ ended = {}
  /\ exposed = {}
  /\ alarm = FALSE

-----------------------------------------------------------------------------
(* A free handler receives token t.                                        *)
Receive(h, t, what) ==
  /\ step[h] = "idle"
  /\ step' = [step EXCEPT ![h] = what]
  /\ tok' = [tok EXCEPT ![h] = t]
  /\ UNCHANGED new

Goes(h, what) == step' = [step EXCEPT ![h] = what] /\ UNCHANGED tok

(* Mutant of Ends: the request's token is dropped before it is over.       *)
EndsEarly(h) ==
  /\ tok' = [tok EXCEPT ![h] = None]
  /\ UNCHANGED <<step, new>>

(* The handler is done, and free for another request.                      *)
Ends(h) ==
  /\ step' = [step EXCEPT ![h] = "idle"]
  /\ tok' = [tok EXCEPT ![h] = None]
  /\ new' = [new EXCEPT ![h] = None]

(* issueTokens: t is stored; what it is exchanged for is history.          *)
IssueTokens(t, from) ==
  /\ row[t] = "none"
  /\ row' = [row EXCEPT ![t] = "live"]
  /\ parent' = [parent EXCEPT ![t] = from]

(* Revoke: ... WHERE revoked_at IS NULL.                                   *)
Revoke(t) == row' = [row EXCEPT ![t] = "revoked"]

(* applyTokens and clearSession.                                           *)
ApplyTokens(i, t) ==
  /\ access' = [access EXCEPT ![i] = "fresh"]
  /\ stored' = [stored EXCEPT ![i] = t]

ClearSession(i) ==
  /\ access' = [access EXCEPT ![i] = "none"]
  /\ stored' = [stored EXCEPT ![i] = None]

-----------------------------------------------------------------------------
(* The tab                                                                 *)

(* Login or Register: the server issues a token, and the tab learns of it. *)
Login(i) ==
  /\ access[i] = "none" /\ login[i] = None
  /\ \E t \in Tokens :
       IssueTokens(t, None) /\ login' = [login EXCEPT ![i] = t]
  /\ UNCHANGED <<stored, access, calls, flight, serverVars, ended, exposed,
                 alarm>>

LoginReplies(i) ==
  /\ login[i] # None
  /\ login' = [login EXCEPT ![i] = None]
  /\ \/ ApplyTokens(i, login[i])
     \/ "lost" \in Mishaps /\ UNCHANGED <<access, stored>>
  /\ UNCHANGED <<row, calls, flight, serverVars, history>>

(* JWT_ACCESS_TTL passes.                                                  *)
AccessExpires(i) ==
  /\ access[i] = "fresh"
  /\ access' = [access EXCEPT ![i] = "stale"]
  /\ UNCHANGED <<row, stored, calls, flight, login, serverVars, history>>

(* An API call goes out with an access token that has expired.             *)
Call(i) ==
  /\ access[i] = "stale" /\ calls[i] < MaxCalls
  /\ calls' = [calls EXCEPT ![i] = @ + 1]
  /\ UNCHANGED <<row, stored, access, flight, login, serverVars, history>>

(* Mutant of RefreshSession: every caller sends its own refresh.           *)
RefreshSessionEach(i, h) ==
  IF stored[i] = None
  THEN UNCHANGED <<flight, serverVars>>
  ELSE /\ Receive(h, stored[i], "read")
       /\ flight' = [flight EXCEPT ![i] = h]

(* refreshSession: joins the refresh in flight, or starts one.  Without a  *)
(* stored token it returns before the try whose finally resets             *)
(* refreshInFlight.                                                        *)
RefreshSession(i, h) ==
  \/ /\ flight[i] # None
     /\ UNCHANGED <<flight, serverVars>>
  \/ /\ flight[i] = None /\ stored[i] = None
     /\ flight' = [flight EXCEPT ![i] = Stuck]
     /\ UNCHANGED serverVars
  \/ /\ flight[i] = None /\ stored[i] # None
     /\ Receive(h, stored[i], "read")
     /\ flight' = [flight EXCEPT ![i] = h]

(* A call is answered 401, token expired.                                  *)
Unauthorized(i, h) ==
  /\ calls[i] > 0
  /\ calls' = [calls EXCEPT ![i] = @ - 1]
  /\ RefreshSession(i, h)
  /\ UNCHANGED <<row, stored, access, login, history>>

(* logout: the local session goes first, then the server is told.          *)
Logout(i, h) ==
  /\ access[i] # "none"
  /\ ClearSession(i)
  /\ IF stored[i] = None
     THEN UNCHANGED <<serverVars, ended>>
     ELSE Receive(h, stored[i], "readOut") /\ ended' = ended \cup {stored[i]}
  /\ UNCHANGED <<row, calls, flight, login, parent, exposed, alarm>>

(* The page is loaded anew: its memory is empty and nobody waits for what  *)
(* it had asked, but the token is still stored, and restoreSession uses it.*)
Reload(i, h) ==
  /\ "reload" \in Mishaps
  /\ access' = [access EXCEPT ![i] = "none"]
  /\ calls' = [calls EXCEPT ![i] = 0]
  /\ login' = [login EXCEPT ![i] = None]
  /\ IF stored[i] = None
     THEN flight' = [flight EXCEPT ![i] = None] /\ UNCHANGED serverVars
     ELSE flight' = [flight EXCEPT ![i] = h] /\ Receive(h, stored[i], "read")
  /\ exposed' = IF flight[i] \in Handlers THEN exposed \cup {tok[flight[i]]}
                ELSE exposed
  /\ UNCHANGED <<row, stored, parent, ended, alarm>>

(* A tab is duplicated into an unused one, which restores its session.     *)
Duplicate(i, j, h) ==
  /\ "copy" \in Mishaps
  /\ stored[i] # None
  /\ stored[j] = None /\ access[j] = "none" /\ flight[j] = None
  /\ login[j] = None /\ calls[j] = 0
  /\ stored' = [stored EXCEPT ![j] = stored[i]]
  /\ Receive(h, stored[i], "read")
  /\ flight' = [flight EXCEPT ![j] = h]
  /\ exposed' = exposed \cup {stored[i]}
  /\ UNCHANGED <<row, access, calls, login, parent, ended, alarm>>

-----------------------------------------------------------------------------
(* AuthService.Refresh                                                     *)

(* GetByHash.                                                              *)
RefreshRead(h) ==
  /\ step[h] = "read"
  /\ \/ row[tok[h]] = "revoked" /\ Goes(h, "revokeAll")
     \/ row[tok[h]] = "expired" /\ Goes(h, "no")
     \/ row[tok[h]] = "live" /\ Goes(h, "revoke")
  /\ UNCHANGED <<row, tabVars, new, history>>

(* RevokeAllForUser, whose failure is only logged.                         *)
RefreshRevokesAll(h) ==
  /\ step[h] = "revokeAll"
  /\ Goes(h, "no")
  /\ \/ row' = [t \in Tokens |-> IF row[t] = "none" THEN "none" ELSE "revoked"]
     \/ "error" \in Mishaps /\ UNCHANGED row
  /\ alarm' = TRUE
  /\ UNCHANGED <<tabVars, new, parent, ended, exposed>>

(* Revoke of the presented token; the number of rows is not looked at.     *)
RefreshRevokes(h) ==
  /\ step[h] = "revoke"
  /\ Revoke(tok[h])
  /\ Goes(h, "issue")
  /\ UNCHANGED <<tabVars, new, history>>

RefreshIssues(h) ==
  /\ step[h] = "issue"
  /\ \E t \in Tokens : IssueTokens(t, tok[h]) /\ new' = [new EXCEPT ![h] = t]
  /\ Goes(h, "ok")
  /\ UNCHANGED <<tabVars, ended, exposed, alarm>>

(* Mutant of RefreshReplies: a failed refresh leaves the session in place. *)
RefreshRepliesKeep(h) ==
  /\ step[h] \in {"ok", "no"}
  /\ Ends(h)
  /\ flight' = [i \in Tabs |-> IF flight[i] = h THEN None ELSE flight[i]]
  /\ \/ \E i \in Tabs :
          /\ flight[i] = h
          /\ IF step[h] = "ok" THEN ApplyTokens(i, new[h])
             ELSE UNCHANGED <<access, stored>>
     \/ /\ \A i \in Tabs : flight[i] # h
        /\ UNCHANGED <<access, stored>>
  /\ UNCHANGED <<row, calls, login, history>>

(* The reply reaches the tab that waits for it, if one does: a new pair is *)
(* applied over whatever session the tab has by now, and any refusal or    *)
(* error clears it.                                                        *)
RefreshReplies(h) ==
  /\ step[h] \in {"ok", "no"}
  /\ Ends(h)
  /\ flight' = [i \in Tabs |-> IF flight[i] = h THEN None ELSE flight[i]]
  /\ \/ \E i \in Tabs :
          /\ flight[i] = h
          /\ IF step[h] = "ok" THEN ApplyTokens(i, new[h]) ELSE ClearSession(i)
     \/ /\ \A i \in Tabs : flight[i] # h
        /\ UNCHANGED <<access, stored>>
  /\ UNCHANGED <<row, calls, login, history>>

(* The connection breaks: fetch throws, and the session is kept as it was. *)
RefreshLost(i) ==
  /\ "lost" \in Mishaps
  /\ flight[i] \in Handlers
  /\ flight' = [flight EXCEPT ![i] = None]
  /\ exposed' = exposed \cup {tok[flight[i]]}
  /\ UNCHANGED <<row, stored, access, calls, login, serverVars, parent, ended,
                 alarm>>

(* A statement of Refresh fails; the answer is a 500.                      *)
RefreshFails(h) ==
  /\ "error" \in Mishaps
  /\ step[h] \in {"read", "revoke", "issue"}
  /\ Goes(h, "no")
  /\ UNCHANGED <<row, tabVars, new, history>>

-----------------------------------------------------------------------------
(* AuthService.Logout, and time                                            *)

LogoutReads(h) ==
  /\ step[h] = "readOut"
  /\ Goes(h, "revokeOut")
  /\ UNCHANGED <<row, tabVars, new, history>>

LogoutRevokes(h) ==
  /\ step[h] = "revokeOut"
  /\ Revoke(tok[h])
  /\ Ends(h)
  /\ UNCHANGED <<tabVars, history>>

LogoutFails(h) ==
  /\ "error" \in Mishaps
  /\ step[h] \in LogoutSteps
  /\ Ends(h)
  /\ UNCHANGED <<row, tabVars, history>>

(* JWT_REFRESH_TTL passes.                                                 *)
TokenExpires(t) ==
  /\ row[t] = "live"
  /\ row' = [row EXCEPT ![t] = "expired"]
  /\ UNCHANGED <<tabVars, serverVars, history>>

-----------------------------------------------------------------------------
TabStep(i) ==
  \/ Login(i) \/ LoginReplies(i) \/ AccessExpires(i) \/ Call(i) \/ RefreshLost(i)
  \/ \E h \in Handlers :
       \/ Unauthorized(i, h) \/ Logout(i, h) \/ Reload(i, h)
       \/ \E j \in Tabs \ {i} : Duplicate(i, j, h)

HandlerStep(h) ==
  \/ RefreshRead(h) \/ RefreshRevokesAll(h) \/ RefreshRevokes(h)
  \/ RefreshIssues(h) \/ RefreshReplies(h) \/ RefreshFails(h)
  \/ LogoutReads(h) \/ LogoutRevokes(h) \/ LogoutFails(h)

Next ==
  \/ \E i \in Tabs : TabStep(i)
  \/ \E h \in Handlers : HandlerStep(h)
  \/ \E t \in Tokens : TokenExpires(t)

Spec == Init /\ [][Next]_vars

-----------------------------------------------------------------------------
(* A token that was exchanged is spent: whatever fails between the two     *)
(* statements of Refresh, and however many requests present it, the old    *)
(* token and its successor are never both good.                            *)
ExchangedIsSpent ==
  \A t \in Tokens : parent[t] # None => row[parent[t]] = "revoked"

(* A token is exchanged once, although its row is read and revoked in two  *)
(* statements and nobody looks at the count: only a token that was logged  *)
(* out, copied or cut off can be presented while it is being exchanged.    *)
ExchangedOnce ==
  \A t, u \in Tokens :
    t # u /\ parent[t] = parent[u] /\ parent[t] # None
    => parent[t] \in ended \cup exposed

(* "Sharing one in-flight promise means one rotation" (api.ts): calls that *)
(* fail together never make the server take the user for a thief.  Only a  *)
(* token that its tab logged out, that was copied, or whose refresh was    *)
(* cut off can be the first to be presented when it is spent already.      *)
NoFalseAlarm ==
  \A h \in Handlers :
    step[h] = "revokeAll" /\ ~alarm => tok[h] \in ended \cup exposed

(* A tab that looks signed in has a token to go on with: the one it has    *)
(* stored is not spent, or its successor is on the way, unless its         *)
(* sessions were ended by an alarm or its refresh was cut off.             *)
SignedInCanRefresh ==
  \A i \in Tabs : LET t == stored[i] IN
    access[i] # "none" /\ ~alarm /\ t \notin exposed =>
      /\ t # None
      /\ row[t] = "revoked" => \E h \in Handlers : flight[i] = h /\ tok[h] = t

(* auth.go, of logout: "the caller's intent, that the session should not   *)
(* work any more, is satisfied".  No tab is signed in with the successor   *)
(* of a token that it logged out.                                          *)
LogoutEndsSession ==
  \A i \in Tabs :
    access[i] # "none" /\ stored[i] # None => parent[stored[i]] \notin ended
=============================================================================
