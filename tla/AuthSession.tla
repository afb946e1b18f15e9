---------------------------- MODULE AuthSession ----------------------------
(***************************************************************************)
(* Accounts and sessions: sign-in by an identity at Google or Yandex,      *)
(* linking a second identity, refresh tokens that are rotated, the counter *)
(* of failed attempts, and the applications that keep a refresh token in   *)
(* a storage all their pages share: the Web UI, the extension, the admin   *)
(* console. All of them are behind one address. An access token is not     *)
(* modelled: it may have expired at any time.                              *)
(***************************************************************************)
EXTENDS Naturals, Sequences, FiniteSets

CONSTANTS
  Tabs,        \* tabs of the Web UI
  Idents,      \* identities: (provider, subject)
  Mails,       \* e-mail addresses
  MailOf,      \* MailOf[i]: the address the provider has for identity i at first
  MaxUsers,    \* bound on the users
  MaxTokens,   \* bound on the rows of auth_refresh_sessions
  Slots,       \* requests that may be under way at a time
  MaxFails,    \* lockout.refresh_invalid_max_per_ip, api_key_invalid_max_per_ip
  Events,      \* the kinds of event below that occur
  MaxEvents    \* bound on their number

Pages == Tabs \cup {"panel", "console", "cli"}
Apps == {"web", "ext", "admin", "cli"}
App(p) == CASE p \in Tabs -> "web" [] p = "panel" -> "ext" [] p = "console" -> "admin"
            [] OTHER -> "cli"
Lockouts == {"refresh", "apikey"}
None == "none"

\* net:    a request or its answer is lost
\* crash:  the API process ends
\* redis:  a call to Redis raises
\* expire: a refresh token reaches expires_at
\* late:   the user takes longer at the provider than the state is valid
\* mail:   the address of an identity changes at its provider
\* logout: the user logs out
\* save:   a panel saves another setting
\* key:    a request with an API key
EventKinds == {"net", "crash", "redis", "expire", "late", "mail", "logout", "save", "key"}

ASSUME AuthBounds == {MaxUsers, MaxTokens, MaxFails, MaxEvents} \subseteq Nat
ASSUME AuthInputs == MailOf \in [Idents -> Mails] /\ Events \subseteq EventKinds
ASSUME PagesAreNew == Tabs \cap {"panel", "console", "cli"} = {}

VARIABLES
  users,      \* users[u]: the e-mail of user u
  owner,      \* user_oauth_identities: identity -> user, 0 for none
  mail,       \* the address of each identity at its provider
  sessions,   \* auth_refresh_sessions, with the identity and the first token of its sign-in
  fails,      \* Redis: vt:auth:*:fail, at most MaxFails, as more makes no difference
  ttl,        \* the counter expires
  blocked,    \* vt:auth:*:block, which always expires
  store,      \* the refresh token in localStorage or chrome.storage.local, 0 for none
  calls,      \* requests under way, each with its handler
  signed,     \* history: the user signed in and has not logged out
  disturbed,  \* history: since then a call was crossed, lost, refused by a block ...
  raced,      \* history: sign-ins of which one token was used twice at a time
  orphan,     \* history: the call that gives a counter its expiry failed
  budget      \* events that may still come

accountVars == <<users, owner>>
counterVars == <<fails, ttl, blocked>>
pageVars    == <<store, signed, disturbed>>
vars == <<accountVars, mail, sessions, counterVars, pageVars, calls, raced, orphan, budget>>

Free == [page |-> None, at |-> "free", tok |-> 0, ident |-> None, user |-> 0, mail |-> None,
         client |-> None]

Init ==
  /\ users = <<>> /\ owner = [i \in Idents |-> 0] /\ mail = MailOf
  /\ sessions = <<>>
  /\ fails = [l \in Lockouts |-> 0] /\ ttl = [l \in Lockouts |-> FALSE]
  /\ blocked = [l \in Lockouts |-> FALSE]
  /\ store = [a \in Apps |-> 0] /\ calls = [k \in Slots |-> Free]
  /\ signed = [a \in Apps |-> FALSE] /\ disturbed = [a \in Apps |-> FALSE]
  /\ raced = {} /\ orphan = {} /\ budget = MaxEvents

Spend(e) == e \in Events /\ budget > 0 /\ budget' = budget - 1

-----------------------------------------------------------------------------
\* Calls

Under(k) == calls[k].at # "free"
AppOf(k) == App(calls[k].page)
LockoutOf(k) == IF AppOf(k) = "cli" THEN "apikey" ELSE "refresh"
Busy(a) == \E k \in Slots : Under(k) /\ AppOf(k) = a

Room == Len(sessions) + Cardinality({k \in Slots : Under(k)}) < MaxTokens

Begin(c) == \E k \in Slots : ~Under(k) /\ calls' = [calls EXCEPT ![k] = c]

Goto(k, l) == calls' = [calls EXCEPT ![k].at = l]
\* End, mutated: what is over keeps its slot.
MarkDone(k) == Goto(k, "done")
End(k) == calls' = [calls EXCEPT ![k] = Free]

Disturb(a, b) == disturbed' = [disturbed EXCEPT ![a] = @ \/ b]

-----------------------------------------------------------------------------
\* POST /api/auth/refresh, and any request with an API key

\* refreshInFlight of a tab, which all its requests share
\* InFlight, mutated: each request refreshes for itself.
NoneInFlight(p) == FALSE
InFlight(p) == \E k \in Slots : calls[k].page = p

\* A request was answered with 401 (Web UI), GET /me was (extension), the button was
\* pressed (console). The Web UI has one refresh per tab, the extension any number.
Refresh(p) ==
  /\ p # "cli" /\ store[App(p)] # 0 /\ Room
  /\ p \in Tabs => ~InFlight(p)
  /\ Begin([Free EXCEPT !.page = p, !.at = "ask", !.tok = store[App(p)]])
  /\ Disturb(App(p), \E k \in Slots : AppOf(k) = App(p) /\ Under(k)
                                      /\ (p \in Tabs => calls[k].page # p))
  /\ UNCHANGED <<accountVars, mail, sessions, counterVars, store, signed, raced, orphan, budget>>

UseApiKey ==
  /\ Spend("key")
  /\ Begin([Free EXCEPT !.page = "cli", !.at = "ask"])
  /\ UNCHANGED <<accountVars, mail, sessions, counterVars, pageVars, raced, orphan>>

\* is_refresh_blocked, is_api_key_blocked
Ask(k) ==
  /\ calls[k].at = "ask"
  /\ \/ Goto(k, IF blocked[LockoutOf(k)] THEN "refused" ELSE "look") /\ UNCHANGED budget
     \/ Spend("redis") /\ Goto(k, "look")
  /\ Disturb(AppOf(k), calls'[k].at = "refused")
  /\ UNCHANGED <<accountVars, mail, sessions, counterVars, store, signed, raced, orphan>>

\* The row is read, without a lock. An API key is known or it is not.
Look(k) ==
  /\ calls[k].at = "look"
  /\ LET t == calls[k].tok IN
     IF AppOf(k) = "cli" THEN (Goto(k, "count") \/ End(k)) /\ UNCHANGED raced
     ELSE IF sessions[t].live
     THEN /\ Goto(k, "rotate")
          /\ raced' = IF \E j \in Slots \ {k} : calls[j].at = "rotate" /\ calls[j].tok = t
                      THEN raced \cup {sessions[t].root} ELSE raced
     ELSE Goto(k, "count") /\ UNCHANGED raced
  /\ UNCHANGED <<accountVars, mail, sessions, counterVars, pageVars, orphan, budget>>

\* One transaction: the old row is revoked, a new one added.
\* Revoke, mutated: the old row stays.
KeepLive(t) == sessions
Revoke(t) == [sessions EXCEPT ![t].live = FALSE]

Rotate(k) ==
  /\ calls[k].at = "rotate"
  /\ LET t == calls[k].tok IN sessions' = Append(Revoke(t), [sessions[t] EXCEPT !.live = TRUE])
  /\ calls' = [calls EXCEPT ![k].at = "clear", ![k].tok = Len(sessions) + 1]
  /\ UNCHANGED <<accountVars, mail, counterVars, pageVars, raced, orphan, budget>>

\* clear_refresh_failures: the counter, not the block
ClearFailures(k) ==
  /\ calls[k].at = "clear" /\ Goto(k, "granted")
  /\ \/ /\ fails' = [fails EXCEPT !["refresh"] = 0] /\ ttl' = [ttl EXCEPT !["refresh"] = FALSE]
        /\ UNCHANGED budget
     \/ Spend("redis") /\ UNCHANGED <<fails, ttl>>
  /\ UNCHANGED <<accountVars, mail, sessions, blocked, pageVars, raced, orphan>>

\* register_refresh_failure, register_api_key_failure: INCR, EXPIRE, SETEX
\* FirstFailure, mutated: the expiry is set with the block.
LastFailure(n) == n = MaxFails
FirstFailure(n) == n = 1
AfterCount(n) == IF n >= MaxFails THEN "block" ELSE "refused"

CountFailure(k) ==
  /\ calls[k].at = "count"
  /\ LET l == LockoutOf(k)
         n == fails[l] + 1 IN
     \/ /\ fails' = [fails EXCEPT ![l] = IF n > MaxFails THEN MaxFails ELSE n]
        /\ Goto(k, IF FirstFailure(n) THEN "ttl" ELSE AfterCount(n))
        /\ UNCHANGED budget
     \/ Spend("redis") /\ Goto(k, "refused") /\ UNCHANGED fails
  /\ UNCHANGED <<accountVars, mail, sessions, ttl, blocked, pageVars, raced, orphan>>

SetExpiry(k) ==
  /\ calls[k].at = "ttl"
  /\ LET l == LockoutOf(k) IN
     \/ /\ ttl' = [ttl EXCEPT ![l] = fails[l] > 0]
        /\ Goto(k, AfterCount(1)) /\ UNCHANGED <<budget, orphan>>
     \/ Spend("redis") /\ orphan' = orphan \cup {l} /\ Goto(k, "refused") /\ UNCHANGED ttl
  /\ UNCHANGED <<accountVars, mail, sessions, fails, blocked, pageVars, raced>>

Block(k) ==
  /\ calls[k].at = "block" /\ Goto(k, "refused")
  /\ \/ blocked' = [blocked EXCEPT ![LockoutOf(k)] = TRUE] /\ UNCHANGED budget
     \/ Spend("redis") /\ UNCHANGED blocked
  /\ UNCHANGED <<accountVars, mail, sessions, fails, ttl, pageVars, raced, orphan>>

CounterExpires(l) ==
  /\ ttl[l]
  /\ ttl' = [ttl EXCEPT ![l] = FALSE] /\ fails' = [fails EXCEPT ![l] = 0]
  /\ UNCHANGED <<accountVars, mail, sessions, blocked, pageVars, calls, raced, orphan, budget>>

BlockExpires(l) ==
  /\ blocked[l] /\ blocked' = [blocked EXCEPT ![l] = FALSE]
  /\ UNCHANGED <<accountVars, mail, sessions, fails, ttl, pageVars, calls, raced, orphan, budget>>

-----------------------------------------------------------------------------
\* The page that refreshes

PutTokens(a, t) == store' = [store EXCEPT ![a] = t]

\* Granted, mutated: only the new access token is stored.
GrantedAccessOnly(k) ==
  /\ calls[k].at = "granted"
  /\ IF AppOf(k) = "ext" THEN Goto(k, "verify") ELSE End(k)
  /\ UNCHANGED <<accountVars, mail, sessions, counterVars, pageVars, raced, orphan, budget>>
Granted(k) ==
  /\ calls[k].at = "granted" /\ PutTokens(AppOf(k), calls[k].tok)
  /\ IF AppOf(k) = "ext" THEN Goto(k, "verify") ELSE End(k)
  /\ UNCHANGED <<accountVars, mail, sessions, counterVars, signed, disturbed, raced, orphan,
                 budget>>

\* The extension tries the new token. No answer, and it removes both.
Verify(k) ==
  /\ calls[k].at = "verify" /\ End(k)
  /\ \/ UNCHANGED <<budget, store, disturbed>>
     \/ Spend("net") /\ PutTokens("ext", 0) /\ Disturb("ext", TRUE)
  /\ UNCHANGED <<accountVars, mail, sessions, counterVars, signed, raced, orphan>>

\* 401 or 429: Web UI and extension remove the tokens, whatever is stored by now.
Refused(k) ==
  /\ calls[k].at = "refused" /\ End(k)
  /\ IF AppOf(k) \in {"web", "ext"} THEN PutTokens(AppOf(k), 0) ELSE UNCHANGED store
  /\ UNCHANGED <<accountVars, mail, sessions, counterVars, signed, disturbed, raced, orphan,
                 budget>>

\* No answer: the Web UI removes the tokens; the exception leaves the others alone.
NoAnswer(k) ==
  /\ calls[k].at = "error" /\ End(k)
  /\ IF AppOf(k) = "web" THEN PutTokens("web", 0) ELSE UNCHANGED store
  /\ UNCHANGED <<accountVars, mail, sessions, counterVars, signed, disturbed, raced, orphan,
                 budget>>

-----------------------------------------------------------------------------
\* Sign-in and link

UserWith(e) == {u \in DOMAIN users : users[u] = e}

\* The buttons of the extension are disabled while it signs in.
Pending == \E k \in Slots : calls[k].page = "panel" /\ calls[k].client # None

\* The user is sent to the provider, with a state that names the client and expires.
SignIn(p, i) ==
  /\ p # "cli" /\ Room /\ store[App(p)] = 0 /\ (p = "panel" => ~Pending)
  /\ Begin([Free EXCEPT !.page = p, !.at = "provider", !.ident = i, !.client = App(p)])
  /\ Disturb(App(p), Busy(App(p)))
  /\ UNCHANGED <<accountVars, mail, sessions, counterVars, store, signed, raced, orphan, budget>>

\* GET /api/auth/{provider}/extension/start: a client that will finalize by itself
SignInPkce(i) ==
  /\ Room /\ store["cli"] = 0
  /\ Begin([Free EXCEPT !.page = "cli", !.at = "pkce", !.ident = i, !.client = "cli"])
  /\ Disturb("cli", Busy("cli"))
  /\ UNCHANGED <<accountVars, mail, sessions, counterVars, store, signed, raced, orphan, budget>>

\* The provider answers for the code with the profile.
Exchange(k, l, client) ==
  calls' = [calls EXCEPT ![k].at = l, ![k].mail = mail[calls[k].ident], ![k].client = client]

\* A state that has expired names no client: the Web UI will get the tokens.
Callback(k) ==
  /\ calls[k].at = "provider"
  /\ \/ Exchange(k, "read", calls[k].client) /\ UNCHANGED budget
     \/ Spend("late") /\ calls[k].client # "web" /\ Exchange(k, "read", "web")
     \/ Spend("net") /\ End(k)
  /\ UNCHANGED <<accountVars, mail, sessions, counterVars, pageVars, raced, orphan>>

\* Here a state that has expired is refused.
FinalizeExtension(k) ==
  /\ calls[k].at = "pkce"
  /\ \/ Exchange(k, "read", calls[k].client) /\ UNCHANGED budget
     \/ (Spend("late") \/ Spend("net")) /\ End(k)
  /\ UNCHANGED <<accountVars, mail, sessions, counterVars, pageVars, raced, orphan>>

\* upsert_user_from_oauth_profile: 409 when the address is another user's
ReadIdentity(k) ==
  /\ calls[k].at = "read"
  /\ LET c == calls[k] IN
     IF owner[c.ident] # 0
     THEN calls' = [calls EXCEPT ![k].at = "update", ![k].user = owner[c.ident]]
     ELSE IF UserWith(c.mail) # {} THEN End(k) ELSE Goto(k, "create")
  /\ UNCHANGED <<accountVars, mail, sessions, counterVars, pageVars, raced, orphan, budget>>

\* The address of a known user follows the provider. users.email is unique: 500
UpdateUser(k) ==
  /\ calls[k].at = "update"
  /\ LET c == calls[k] IN
     IF UserWith(c.mail) \ {c.user} # {}
     THEN End(k) /\ UNCHANGED users
     ELSE Goto(k, "issue") /\ users' = [users EXCEPT ![c.user] = c.mail]
  /\ UNCHANGED <<owner, mail, sessions, counterVars, pageVars, raced, orphan, budget>>

\* Both rows in one transaction; what was made meanwhile violates a constraint: 500
\* IdentityTaken, mutated: user_oauth_identities has no unique constraint.
NeverTaken(i) == FALSE
IdentityTaken(i) == owner[i] # 0

CreateUser(k) ==
  /\ calls[k].at = "create"
  /\ LET c == calls[k]
         u == Len(users) + 1 IN
     IF IdentityTaken(c.ident) \/ UserWith(c.mail) # {} \/ u > MaxUsers
     THEN End(k) /\ UNCHANGED accountVars
     ELSE /\ users' = Append(users, c.mail) /\ owner' = [owner EXCEPT ![c.ident] = u]
          /\ calls' = [calls EXCEPT ![k].at = "issue", ![k].user = u]
  /\ UNCHANGED <<mail, sessions, counterVars, pageVars, raced, orphan, budget>>

IssueToken(k) ==
  /\ calls[k].at = "issue"
  /\ LET t == Len(sessions) + 1 IN
     /\ sessions' = Append(sessions, [user |-> calls[k].user, by |-> calls[k].ident,
                                      root |-> t, live |-> TRUE])
     /\ calls' = [calls EXCEPT ![k].at = "land", ![k].tok = t]
  /\ UNCHANGED <<accountVars, mail, counterVars, pageVars, raced, orphan, budget>>

\* The redirect to the client, or the answer to it; the window may be closed.
Land(k) ==
  /\ calls[k].at = "land"
  /\ \/ Goto(k, "landed") /\ UNCHANGED budget
     \/ Spend("net") /\ End(k)
  /\ UNCHANGED <<accountVars, mail, sessions, counterVars, pageVars, raced, orphan>>

\* The client takes the tokens.
TakeTokens(k) ==
  /\ calls[k].at = "landed" /\ End(k)
  /\ LET a == calls[k].client IN
     /\ PutTokens(a, calls[k].tok)
     /\ signed' = [signed EXCEPT ![a] = TRUE]
     /\ disturbed' = [disturbed EXCEPT ![a] = ~sessions[calls[k].tok].live
                                        \/ \E j \in Slots \ {k} : Under(j) /\ AppOf(j) = a]
  /\ UNCHANGED <<accountVars, mail, sessions, counterVars, raced, orphan, budget>>

\* GET /api/auth/{provider}/link/start: the state carries the user.
StartLink(p, i) ==
  /\ p \in Tabs /\ store["web"] # 0 /\ ~InFlight(p)
  /\ Begin([Free EXCEPT !.page = p, !.at = "linkprovider", !.ident = i,
                        !.user = sessions[store["web"]].user])
  /\ Disturb("web", Busy("web"))
  /\ UNCHANGED <<accountVars, mail, sessions, counterVars, store, signed, raced, orphan, budget>>

\* A state that has expired names no user, and nothing is linked.
LinkCallback(k) ==
  /\ calls[k].at = "linkprovider"
  /\ \/ Exchange(k, "linkread", "web") /\ UNCHANGED budget
     \/ (Spend("late") \/ Spend("net")) /\ End(k)
  /\ UNCHANGED <<accountVars, mail, sessions, counterVars, pageVars, raced, orphan>>

\* link_oauth_identity_to_user; linked here or elsewhere already, nothing is added.
ReadLink(k) ==
  /\ calls[k].at = "linkread"
  /\ LET c == calls[k] IN
     IF owner[c.ident] = 0 /\ UserWith(c.mail) \subseteq {c.user}
     THEN Goto(k, "linkadd") ELSE End(k)
  /\ UNCHANGED <<accountVars, mail, sessions, counterVars, pageVars, raced, orphan, budget>>

AddLink(k) ==
  /\ calls[k].at = "linkadd" /\ End(k)
  /\ LET c == calls[k] IN
     owner' = IF IdentityTaken(c.ident) THEN owner ELSE [owner EXCEPT ![c.ident] = c.user]
  /\ UNCHANGED <<users, mail, sessions, counterVars, pageVars, raced, orphan, budget>>

-----------------------------------------------------------------------------
\* The rest

\* Only this browser forgets the token.
Logout(a) ==
  /\ Spend("logout") /\ signed[a] /\ (a = "ext" => ~Pending)
  /\ PutTokens(a, 0) /\ signed' = [signed EXCEPT ![a] = FALSE] /\ Disturb(a, Busy(a))
  /\ UNCHANGED <<accountVars, mail, sessions, counterVars, calls, raced, orphan>>

\* updateSettings loads all settings, the tokens with them, and saves them all.
LoadSettings ==
  /\ Spend("save")
  /\ Begin([Free EXCEPT !.page = "panel", !.at = "save", !.tok = store["ext"]])
  /\ Disturb("ext", Busy("ext"))
  /\ UNCHANGED <<accountVars, mail, sessions, counterVars, store, signed, raced, orphan>>

SaveSettings(k) ==
  /\ calls[k].at = "save" /\ End(k) /\ PutTokens("ext", calls[k].tok)
  /\ UNCHANGED <<accountVars, mail, sessions, counterVars, signed, disturbed, raced, orphan,
                 budget>>

Expire(t) ==
  /\ Spend("expire") /\ sessions[t].live
  /\ sessions' = [sessions EXCEPT ![t].live = FALSE]
  /\ disturbed' = [a \in Apps |-> disturbed[a] \/ store[a] = t
                     \/ \E k \in Slots : Under(k) /\ AppOf(k) = a /\ calls[k].tok = t]
  /\ UNCHANGED <<accountVars, mail, counterVars, store, signed, calls, raced, orphan>>

ChangeMail(i, e) ==
  /\ Spend("mail") /\ mail' = [mail EXCEPT ![i] = e]
  /\ UNCHANGED <<accountVars, sessions, counterVars, pageVars, calls, raced, orphan>>

InHandler == {"look", "rotate", "clear", "count", "ttl", "block"}
Refreshing == InHandler \cup {"ask", "granted", "refused"}
InBrowser == {"free", "verify", "error", "save", "provider", "pkce", "linkprovider", "landed"}
SigningIn == {"read", "update", "create", "issue", "land", "linkread", "linkadd"}

LoseCall(k) ==
  /\ Spend("net") /\ calls[k].at \in {"ask", "granted", "refused"} /\ Goto(k, "error")
  /\ Disturb(AppOf(k), TRUE)
  /\ UNCHANGED <<accountVars, mail, sessions, counterVars, store, signed, raced, orphan>>

Crash ==
  /\ Spend("crash")
  /\ calls' = [k \in Slots |-> IF calls[k].at \in Refreshing THEN [calls[k] EXCEPT !.at = "error"]
                               ELSE IF calls[k].at \in SigningIn THEN Free ELSE calls[k]]
  /\ disturbed' = [a \in Apps |-> disturbed[a] \/ Busy(a)]
  /\ orphan' = orphan \cup {LockoutOf(k) : k \in {j \in Slots : calls[j].at = "ttl"}}
  /\ UNCHANGED <<accountVars, mail, sessions, counterVars, store, signed, raced>>

Handler(k) ==
  \/ Ask(k) \/ Look(k) \/ Rotate(k) \/ ClearFailures(k) \/ CountFailure(k) \/ SetExpiry(k)
  \/ Block(k) \/ Granted(k) \/ Verify(k) \/ Refused(k) \/ NoAnswer(k)
  \/ Callback(k) \/ FinalizeExtension(k) \/ LinkCallback(k)
  \/ ReadIdentity(k) \/ UpdateUser(k) \/ CreateUser(k) \/ IssueToken(k) \/ Land(k) \/ TakeTokens(k)
  \/ ReadLink(k) \/ AddLink(k) \/ SaveSettings(k)

Next ==
  \/ \E k \in Slots : Handler(k) \/ LoseCall(k)
  \/ \E p \in Pages : Refresh(p) \/ \E i \in Idents : SignIn(p, i) \/ StartLink(p, i)
  \/ \E i \in Idents : SignInPkce(i)
  \/ \E l \in Lockouts : CounterExpires(l) \/ BlockExpires(l)
  \/ \E a \in Apps : Logout(a)
  \/ \E t \in DOMAIN sessions : Expire(t)
  \/ \E i \in Idents, e \in Mails : ChangeMail(i, e)
  \/ UseApiKey \/ LoadSettings \/ Crash

Spec == Init /\ [][Next]_vars

-----------------------------------------------------------------------------
\* Properties

TypeOK ==
  /\ users \in Seq(Mails) /\ Len(users) <= MaxUsers
  /\ owner \in [Idents -> 0 .. Len(users)] /\ mail \in [Idents -> Mails]
  /\ sessions \in Seq([user : DOMAIN users, by : Idents, root : DOMAIN sessions, live : BOOLEAN])
  /\ fails \in [Lockouts -> 0 .. MaxFails]
  /\ {ttl, blocked} \subseteq [Lockouts -> BOOLEAN]
  /\ store \in [Apps -> 0 .. Len(sessions)]
  /\ calls \in [Slots -> [page : Pages \cup {None}, tok : 0 .. Len(sessions),
                          ident : Idents \cup {None}, user : 0 .. Len(users),
                          mail : Mails \cup {None},
                          client : Apps \cup {None},
                          at : InBrowser \cup Refreshing \cup SigningIn]]
  /\ {signed, disturbed} \subseteq [Apps -> BOOLEAN]
  /\ raced \subseteq DOMAIN sessions /\ orphan \subseteq Lockouts /\ budget \in 0 .. MaxEvents

\* Who has signed in stays so until the logout: when none of its pages is waiting, the
\* storage of an application holds a refresh token the server takes, however many
\* requests of one tab failed at once; and after the logout it holds none. Excepted is
\* who was disturbed: by calls of several pages that crossed, a call that was lost, a
\* block, or a token that expired.
SessionKept ==
  \A a \in Apps : (~disturbed[a] /\ ~Busy(a)) =>
    IF signed[a] THEN store[a] # 0 /\ sessions[store[a]].live ELSE store[a] = 0

\* The old token is dead once it is rotated: of the tokens that stem from one sign-in
\* one at most is live, unless one of them was used twice at the same time.
OneLivePerSignIn ==
  \A s, t \in DOMAIN sessions :
    (sessions[s].live /\ sessions[t].live /\ sessions[s].root = sessions[t].root /\ s # t)
      => sessions[s].root \in raced

\* A token is for the user who owns the identity it was obtained with, also when that
\* identity signs in for the first time twice at once, or while another user links it.
TokenOfOwner == \A t \in DOMAIN sessions : owner[sessions[t].by] = sessions[t].user

\* A count of failures is forgotten after a while: it has an expiry, or the call that
\* sets it is coming, whatever a success deletes in between. Unless that call failed.
CounterHasExpiry ==
  \A l \in Lockouts \ orphan :
    fails[l] = 0 \/ ttl[l] \/ \E k \in Slots : calls[k].at = "ttl" /\ LockoutOf(k) = l
=============================================================================
