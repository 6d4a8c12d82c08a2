---------------------------- MODULE AdminSession ----------------------------
(***************************************************************************)
(* Who is logged in to the admin console: the browser tabs that show it    *)
(* (ui/src/App.tsx, pages/Login, the log out button of Layout), the token  *)
(* that each holds in a variable of its module api/admin.ts, what they     *)
(* share, namely the local storage and the cookie, and the server, which   *)
(* keeps a session per login until its time is over.                       *)
(***************************************************************************)
EXTENDS Naturals, FiniteSets

CONSTANTS
    Tabs,
    NoToken,    \* null
    AtOnce,     \* bound on requests a tab awaits at once
    MaxLogins,  \* bound on logins the server accepts; their tokens are numbers
    MaxLoads,   \* bound on tabs opened and reloaded
    MaxLost     \* bound on requests and answers that get lost

ASSUME SessionAssumption ==
    /\ AtOnce \in Nat /\ MaxLogins \in Nat /\ MaxLoads \in Nat /\ MaxLost \in Nat
    /\ NoToken \notin 1 .. MaxLogins

VARIABLES
    asView,     \* per tab: "closed", "checking", "login" or "console"
    asToken,    \* per tab: _token
    asReqs,     \* the requests the tabs await
    asStored,   \* localStorage: admin_token
    asCookie,   \* the cookie admin_token
    asLive,     \* server: tokens of the sessions that are not over
    asMinted,   \* number of logins accepted so far
    asLoads,    \* number of page loads so far
    asLost,     \* number of requests and answers lost so far
    asVouched,  \* history, per tab: tokens the server accepted since it was loaded
    asEnded     \* history: tokens of tabs whose logout was answered

asTabVars    == <<asView, asToken, asReqs>>
asShared     == <<asStored, asCookie>>
asServer     == <<asLive, asMinted>>
asHistory    == <<asVouched, asEnded>>
asVars       == <<asTabVars, asShared, asServer, asLoads, asLost, asHistory>>

SessionTokens == 1 .. MaxLogins

ReqsOf(t) == {r \in asReqs : r.tab = t}

SessionInit ==
    /\ asView = [t \in Tabs |-> "closed"]
    /\ asToken = [t \in Tabs |-> NoToken]
    /\ asReqs = {}
    /\ asStored = NoToken /\ asCookie = NoToken
    /\ asLive = {} /\ asMinted = 0 /\ asLoads = 0 /\ asLost = 0
    /\ asVouched = [t \in Tabs |-> {}] /\ asEnded = {}

(* Of the requests of a tab `kept` are still awaited, and one more is.     *)
AskServer(t, kept, kind, token) ==
    \E n \in 1 .. AtOnce :
      /\ \A r \in kept : r.no # n
      /\ \A m \in 1 .. n - 1 : \E r \in kept : r.no = m
      /\ asReqs' = (asReqs \ ReqsOf(t)) \cup kept
                     \cup {[no |-> n, tab |-> t, kind |-> kind, st |-> "sent", token |-> token]}

(* setAdminToken                                                           *)
SetAdminToken(t, token) ==
    asToken' = [asToken EXCEPT ![t] = token] /\ asStored' = token

Show(t, view) == asView' = [asView EXCEPT ![t] = view]
-----------------------------------------------------------------------------
(* A tab is opened or reloaded: it has the token of the storage, and asks  *)
(* the server about it before it shows anything.  What it awaited before   *)
(* it never learns.                                                        *)
LoadTab(t) ==
    /\ asLoads < MaxLoads
    /\ asLoads' = asLoads + 1
    /\ asToken' = [asToken EXCEPT ![t] = asStored]
    /\ IF asStored = NoToken
       THEN Show(t, "login") /\ asReqs' = asReqs \ ReqsOf(t)
       ELSE Show(t, "checking") /\ AskServer(t, {}, "verify", asStored)
    /\ asVouched' = [asVouched EXCEPT ![t] = {}]
    /\ UNCHANGED <<asShared, asServer, asLost, asEnded>>

SubmitLogin(t) ==
    /\ asView[t] = "login"
    /\ \A r \in ReqsOf(t) : r.kind # "login"
    /\ AskServer(t, ReqsOf(t), "login", NoToken)
    /\ UNCHANGED <<asView, asToken, asShared, asServer, asLoads, asLost, asHistory>>

(* Nothing keeps the operator from clicking twice.                         *)
HandleLogout(t) ==
    /\ asView[t] = "console"
    /\ AskServer(t, ReqsOf(t), "logout", asToken[t])
    /\ UNCHANGED <<asView, asToken, asShared, asServer, asLoads, asLost, asHistory>>
-----------------------------------------------------------------------------
Answers(r, st, token) ==
    asReqs' = (asReqs \ {r}) \cup {[r EXCEPT !.st = st, !.token = token]}

Vouch(r, tokens) == asVouched' = [asVouched EXCEPT ![r.tab] = @ \cup tokens]

(* The server looks the token up.                                          *)
ServeVerify(r) ==
    /\ r.kind = "verify"
    /\ Answers(r, IF r.token \in asLive THEN "ok" ELSE "refused", r.token)
    /\ Vouch(r, {r.token} \cap asLive)
    /\ UNCHANGED <<asShared, asServer>>

(* A login with the right password makes a session, and sets the cookie.   *)
ServeLogin(r) ==
    /\ r.kind = "login"
    /\ \/ /\ asMinted < MaxLogins
          /\ asMinted' = asMinted + 1
          /\ asLive' = asLive \cup {asMinted + 1}
          /\ asCookie' = asMinted + 1
          /\ Vouch(r, {asMinted + 1})
          /\ Answers(r, "ok", asMinted + 1)
       \/ Answers(r, "refused", NoToken) /\ UNCHANGED <<asServer, asCookie, asVouched>>
    /\ UNCHANGED asStored

(* The route of the logout has no middleware that would put the session in *)
(* the context the handler takes it from: the cookie is cleared, and the   *)
(* session goes on.                                                        *)
ServeLogout(r) ==
    /\ r.kind = "logout"
    /\ asCookie' = NoToken
    /\ Answers(r, "ok", r.token)
    /\ UNCHANGED <<asStored, asServer, asVouched>>

ServeTab ==
    /\ \E r \in asReqs : r.st = "sent" /\ (ServeVerify(r) \/ ServeLogin(r) \/ ServeLogout(r))
    /\ UNCHANGED <<asView, asToken, asLoads, asLost, asEnded>>

(* A request is lost, or the answer to it; a login may have been carried   *)
(* out by then, but its cookie does not arrive.                            *)
LoseTab ==
    /\ asLost < MaxLost
    /\ asLost' = asLost + 1
    /\ \E r \in asReqs :
         /\ r.st = "sent"
         /\ Answers(r, "failed", r.token)
         /\ \/ UNCHANGED asServer
            \/ /\ r.kind = "login" /\ asMinted < MaxLogins
               /\ asMinted' = asMinted + 1 /\ asLive' = asLive \cup {asMinted + 1}
    /\ UNCHANGED <<asView, asToken, asShared, asLoads, asHistory>>

ExpireSession ==
    /\ \E k \in asLive : asLive' = asLive \ {k}
    /\ UNCHANGED <<asTabVars, asShared, asMinted, asLoads, asLost, asHistory>>
-----------------------------------------------------------------------------
(* Anything but a yes ends the login, of the other tabs' next load too.    *)
VerifyAnswered(r) ==
    /\ r.kind = "verify"
    /\ IF r.st = "ok"
       THEN Show(r.tab, "console") /\ UNCHANGED <<asToken, asStored>>
       ELSE Show(r.tab, "login") /\ SetAdminToken(r.tab, NoToken)
    /\ UNCHANGED asEnded

LoginAnswered(r) ==
    /\ r.kind = "login"
    /\ IF r.st = "ok"
       THEN Show(r.tab, "console") /\ SetAdminToken(r.tab, r.token)
       ELSE UNCHANGED <<asView, asToken, asStored>>
    /\ UNCHANGED asEnded

(* Mutant of LogoutAnswered: the storage keeps the token. *)
LogoutAnsweredHere(r) ==
    /\ r.kind = "logout" /\ r.st = "ok"
    /\ Show(r.tab, "login")
    /\ asToken' = [asToken EXCEPT ![r.tab] = NoToken]
    /\ asEnded' = asEnded \cup {r.token}
    /\ UNCHANGED asStored

(* If the fetch failed the handler stops there, and nothing happens.       *)
LogoutAnswered(r) ==
    /\ r.kind = "logout"
    /\ IF r.st = "ok"
       THEN /\ Show(r.tab, "login") /\ SetAdminToken(r.tab, NoToken)
            /\ asEnded' = asEnded \cup {r.token}
       ELSE UNCHANGED <<asView, asToken, asStored, asEnded>>

TabAnswered ==
    /\ \E r \in asReqs :
         /\ r.st # "sent"
         /\ asReqs' = asReqs \ {r}
         /\ VerifyAnswered(r) \/ LoginAnswered(r) \/ LogoutAnswered(r)
    /\ UNCHANGED <<asCookie, asServer, asLoads, asLost, asVouched>>

SessionNext ==
    \/ \E t \in Tabs :
         LoadTab(t) \/ SubmitLogin(t) \/ HandleLogout(t)
    \/ ServeTab \/ LoseTab \/ TabAnswered \/ ExpireSession

SessionSpec == SessionInit /\ [][SessionNext]_asVars
-----------------------------------------------------------------------------
SessionTypeOK ==
    /\ asView \in [Tabs -> {"closed", "checking", "login", "console"}]
    /\ asToken \in [Tabs -> SessionTokens \cup {NoToken}]
    /\ asStored \in SessionTokens \cup {NoToken} /\ asCookie \in SessionTokens \cup {NoToken}
    /\ asMinted \in 0 .. MaxLogins /\ asLive \subseteq 1 .. asMinted
    /\ asReqs \subseteq [no : 1 .. AtOnce, tab : Tabs, kind : {"verify", "login", "logout"},
                         st : {"sent", "ok", "refused", "failed"},
                         token : SessionTokens \cup {NoToken}]
    /\ \A t \in Tabs : asView[t] = "checking" <=> \E r \in ReqsOf(t) : r.kind = "verify"

(* A tab shows the console only with a token of its own, which the server  *)
(* accepted, asked by this tab since it was loaded: what the other tabs do *)
(* to the storage and the cookie, and a check that fails, get nobody in.   *)
NothingShownUnchecked ==
    \A t \in Tabs : asView[t] = "console" => asToken[t] \in asVouched[t]

(* A token a tab has logged out of is forgotten: whichever tab is loaded   *)
(* next, and however the logins and logouts of the others were interleaved *)
(* with it, finds it neither in the storage nor in the cookie.             *)
LogoutForgets ==
    asStored \notin asEnded /\ asCookie \notin asEnded

(* In no tab is the console shown for a token that the server did not      *)
(* accept when the tab asked, and a token logged out of is left to no tab  *)
(* that is loaded later.  That is all that is promised.  The plan of the   *)
(* console has a logout delete the session, and a console whose session    *)
(* has expired go to the login: but the session lives on until its time is *)
(* over (ServeLogout), and a tab that has the token already, logged out of *)
(* elsewhere or expired, goes on showing the console, as an answer 401 is  *)
(* an error like others to its pages (ui/src/api/client.ts).               *)
CheckedAndForgotten == NothingShownUnchecked /\ LogoutForgets
=============================================================================
