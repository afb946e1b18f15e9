------------------------- MODULE AuthSessionProofs -------------------------
(***************************************************************************)
(* Proofs about AuthSession, for any number of tabs, identities, addresses *)
(* and requests under way, and any bounds.                                 *)
(***************************************************************************)
EXTENDS AuthSession, TLAPS

-----------------------------------------------------------------------------
\* The inductive invariant

\* TypeOK, in parts.
Session == [user : DOMAIN users, by : Idents, root : DOMAIN sessions, live : BOOLEAN]
Places == InBrowser \cup Refreshing \cup SigningIn
Call(us, ts) == [page : Pages \cup {None}, at : Places, tok : {0} \cup ts,
                 ident : Idents \cup {None}, user : {0} \cup us, mail : Mails \cup {None},
                 client : Apps \cup {None}]

AccountTypes ==
  /\ users \in Seq(Mails) /\ Len(users) <= MaxUsers
  /\ owner \in [Idents -> {0} \cup DOMAIN users] /\ mail \in [Idents -> Mails]
SessionTypes == sessions \in Seq(Session)
CounterTypes ==
  /\ fails \in [Lockouts -> 0 .. MaxFails]
  /\ ttl \in [Lockouts -> BOOLEAN] /\ blocked \in [Lockouts -> BOOLEAN]
  /\ orphan \subseteq Lockouts
StoreType == store \in [Apps -> {0} \cup DOMAIN sessions]
HistoryTypes ==
  /\ signed \in [Apps -> BOOLEAN] /\ disturbed \in [Apps -> BOOLEAN]
  /\ raced \subseteq DOMAIN sessions
CallTypes == calls \in [Slots -> Call(DOMAIN users, DOMAIN sessions)]
BudgetType == budget \in 0 .. MaxEvents

\* What a call has at hand at each place of its handler, for the users us, the tokens ts
\* and the owners ow of the identities.
Fits(c, us, ts, ow) ==
  /\ c.at \in Refreshing => c.client = None
  /\ c.at \in SigningIn \cup {"provider", "pkce", "linkprovider"} => c.ident \in Idents
  /\ c.at \in SigningIn => c.mail \in Mails
  /\ c.at \in {"update", "issue", "land", "landed", "linkprovider", "linkread", "linkadd"}
       => c.user \in us
  /\ c.at \in {"update", "issue"} => ow[c.ident] = c.user
  /\ c.at \in {"rotate", "land", "landed"} => c.tok \in ts
  /\ (c.at \in {"ask", "look"} /\ App(c.page) # "cli") => c.tok \in ts
CallsFit == \A k \in Slots : Fits(calls[k], DOMAIN users, DOMAIN sessions, owner)

\* Two refreshes are about to rotate tokens of one sign-in only if it is known to be raced.
Rotating(k) == calls[k].at = "rotate"
Root(k) == sessions[calls[k].tok].root
OneRotates ==
  \A j, k \in Slots :
    (Rotating(j) /\ Rotating(k) /\ j # k /\ Root(j) = Root(k)) => Root(k) \in raced

\* While a refresh is about to rotate a token, no other one of its sign-in is live.
RotatesTheLiveOne ==
  \A k \in Slots : (Rotating(k) /\ Root(k) \notin raced) =>
    \A t \in DOMAIN sessions : (sessions[t].live /\ sessions[t].root = Root(k)) => t = calls[k].tok

IInv ==
  /\ AccountTypes /\ SessionTypes /\ CounterTypes /\ StoreType /\ HistoryTypes /\ CallTypes
  /\ BudgetType
  /\ CallsFit
  /\ TokenOfOwner
  /\ OneRotates
  /\ RotatesTheLiveOne
  /\ OneLivePerSignIn
  /\ CounterHasExpiry

-----------------------------------------------------------------------------
\* The parts make up TypeOK.
LEMMA TypesAreTypeOK ==
  ASSUME AccountTypes, SessionTypes, CounterTypes, StoreType, HistoryTypes, CallTypes, BudgetType
  PROVE  TypeOK
<1>1. {0} \cup DOMAIN users = 0 .. Len(users) /\ {0} \cup DOMAIN sessions = 0 .. Len(sessions)
  BY DEF AccountTypes, SessionTypes
<1>2. owner \in [Idents -> 0 .. Len(users)] /\ store \in [Apps -> 0 .. Len(sessions)]
  BY <1>1 DEF AccountTypes, StoreType
<1>3. calls \in [Slots -> [page : Pages \cup {None}, tok : 0 .. Len(sessions),
                          ident : Idents \cup {None}, user : 0 .. Len(users),
                          mail : Mails \cup {None},
                          client : Apps \cup {None},
                          at : InBrowser \cup Refreshing \cup SigningIn]]
  BY <1>1 DEF CallTypes, Call, Places
<1>4. sessions \in Seq([user : DOMAIN users, by : Idents, root : DOMAIN sessions, live : BOOLEAN])
  BY DEF SessionTypes, Session
<1> QED
  BY <1>2, <1>3, <1>4 DEF TypeOK, AccountTypes, CounterTypes, HistoryTypes, BudgetType

\* Every page belongs to an application, and every call to a lockout.
LEMMA AppIsApp == ASSUME NEW p PROVE App(p) \in Apps
  BY DEF App, Apps

\* Every call is counted by one of the two lockouts.
LEMMA LockoutIsLockout == ASSUME NEW k PROVE LockoutOf(k) \in Lockouts
  BY DEF LockoutOf, Lockouts

\* A slot that is free is a call at rest, whatever exists.
LEMMA FreeFits ==
  ASSUME NEW us, NEW ts, NEW ow
  PROVE  Free \in Call(us, ts) /\ Fits(Free, us, ts, ow)
  BY DEF Free, Call, Fits, Places, InBrowser, Refreshing, InHandler, SigningIn

\* The invariant holds before anything happened.
LEMMA Initially == Init => IInv
<1> SUFFICES ASSUME Init PROVE IInv
  OBVIOUS
<1>1. \A k \in Slots : calls[k] = Free /\ Free.at = "free"
  BY DEF Init, Free
<1>2. sessions \in Seq(Session) /\ users \in Seq(Mails) /\ Len(users) = 0
  BY DEF Init
<1>3. DOMAIN sessions = {} /\ DOMAIN users = {}
  BY DEF Init
<1>4. CallTypes /\ CallsFit
  BY <1>1, FreeFits DEF Init, CallTypes, CallsFit
<1>5. 0 \in 0 .. MaxFails /\ MaxEvents \in 0 .. MaxEvents /\ Len(users) <= MaxUsers
  BY <1>2, AuthBounds
<1>6. AccountTypes /\ SessionTypes
  BY <1>2, <1>3, <1>5, AuthInputs DEF Init, AccountTypes, SessionTypes
<1>7. CounterTypes /\ StoreType /\ HistoryTypes /\ BudgetType
  BY <1>5 DEF Init, CounterTypes, StoreType, HistoryTypes, BudgetType
<1>8. CounterHasExpiry
  BY DEF Init, CounterHasExpiry
<1> QED
  BY <1>1, <1>3, <1>4, <1>6, <1>7, <1>8 DEF IInv, Init, TokenOfOwner, OneRotates,
     RotatesTheLiveOne, Rotating, OneLivePerSignIn

-----------------------------------------------------------------------------
\* Which actions change what

AccountStep ==
  \/ \E k \in Slots : UpdateUser(k) \/ CreateUser(k) \/ AddLink(k)
  \/ \E i \in Idents, e \in Mails : ChangeMail(i, e)
SessionStep == (\E k \in Slots : Rotate(k) \/ IssueToken(k)) \/ \E t \in DOMAIN sessions : Expire(t)
CounterStep ==
  \/ \E k \in Slots : ClearFailures(k) \/ CountFailure(k) \/ SetExpiry(k) \/ Block(k)
  \/ \E l \in Lockouts : CounterExpires(l) \/ BlockExpires(l)
  \/ Crash
StoreStep ==
  \/ \E k \in Slots : Granted(k) \/ Verify(k) \/ Refused(k) \/ NoAnswer(k) \/ TakeTokens(k)
                      \/ SaveSettings(k)
  \/ \E a \in Apps : Logout(a)

\* Accounts, tokens, counters and storages are written by their own actions only.
LEMMA Frames ==
  ASSUME Next
  PROVE  /\ AccountStep \/ UNCHANGED <<accountVars, mail>>
         /\ SessionStep \/ UNCHANGED sessions
         /\ CounterStep \/ UNCHANGED <<counterVars, orphan>>
         /\ StoreStep \/ UNCHANGED store
<1> USE DEF AccountStep, SessionStep, CounterStep, StoreStep, pageVars
<1>1. ASSUME NEW k \in Slots, Handler(k)
      PROVE  /\ AccountStep \/ UNCHANGED <<accountVars, mail>>
             /\ SessionStep \/ UNCHANGED sessions
             /\ CounterStep \/ UNCHANGED <<counterVars, orphan>>
             /\ StoreStep \/ UNCHANGED store
  <2>1. CASE Ask(k) \/ Look(k) \/ Rotate(k) \/ Callback(k) \/ FinalizeExtension(k)
             \/ LinkCallback(k) \/ ReadIdentity(k) \/ IssueToken(k) \/ Land(k) \/ ReadLink(k)
    BY <2>1 DEF Ask, Look, Rotate, Callback, FinalizeExtension, LinkCallback, ReadIdentity,
       IssueToken, Land, ReadLink
  <2>2. CASE ClearFailures(k) \/ CountFailure(k) \/ SetExpiry(k) \/ Block(k)
    BY <2>2 DEF ClearFailures, CountFailure, SetExpiry, Block
  <2>3. CASE Granted(k) \/ Verify(k) \/ Refused(k) \/ NoAnswer(k) \/ TakeTokens(k)
             \/ SaveSettings(k)
    BY <2>3 DEF Granted, Verify, Refused, NoAnswer, TakeTokens, SaveSettings
  <2>4. CASE UpdateUser(k) \/ CreateUser(k) \/ AddLink(k)
    BY <2>4 DEF UpdateUser, CreateUser, AddLink
  <2> QED
    BY <1>1, <2>1, <2>2, <2>3, <2>4 DEF Handler
<1>2. ASSUME NEW p \in Pages, NEW i \in Idents, SignIn(p, i) \/ StartLink(p, i)
      PROVE  UNCHANGED <<accountVars, mail, sessions, counterVars, orphan, store>>
  BY <1>2 DEF SignIn, StartLink
<1>3. ASSUME NEW p \in Pages, Refresh(p)
      PROVE  UNCHANGED <<accountVars, mail, sessions, counterVars, orphan, store>>
  BY <1>3 DEF Refresh
<1>4. ASSUME NEW k \in Slots, LoseCall(k)
      PROVE  UNCHANGED <<accountVars, mail, sessions, counterVars, orphan, store>>
  BY <1>4 DEF LoseCall
<1>5. ASSUME UseApiKey \/ LoadSettings
      PROVE  UNCHANGED <<accountVars, mail, sessions, counterVars, orphan, store>>
  BY <1>5 DEF UseApiKey, LoadSettings
<1>6. ASSUME Crash
      PROVE  UNCHANGED <<accountVars, mail, sessions, store>>
  BY <1>6 DEF Crash
<1>7. ASSUME NEW l \in Lockouts, CounterExpires(l) \/ BlockExpires(l)
      PROVE  UNCHANGED <<accountVars, mail, sessions, store>>
  BY <1>7 DEF CounterExpires, BlockExpires
<1>8. ASSUME NEW a \in Apps, Logout(a)
      PROVE  UNCHANGED <<accountVars, mail, sessions, counterVars, orphan>>
  BY <1>8 DEF Logout
<1>9. ASSUME NEW t \in DOMAIN sessions, Expire(t)
      PROVE  UNCHANGED <<accountVars, mail, counterVars, orphan, store>>
  BY <1>9 DEF Expire
<1>10. ASSUME NEW i \in Idents, NEW e \in Mails, ChangeMail(i, e)
       PROVE  UNCHANGED <<sessions, counterVars, orphan, store>>
  BY <1>10 DEF ChangeMail
<1>11. ASSUME NEW i \in Idents, SignInPkce(i)
       PROVE  UNCHANGED <<accountVars, mail, sessions, counterVars, orphan, store>>
  BY <1>11 DEF SignInPkce
<1> QED
  <2>1. CASE \E k \in Slots : Handler(k) \/ LoseCall(k)
    BY <2>1, <1>1, <1>4
  <2>2. CASE \E p \in Pages : Refresh(p) \/ \E i \in Idents : SignIn(p, i) \/ StartLink(p, i)
    BY <2>2, <1>2, <1>3
  <2>3. CASE (\E i \in Idents : SignInPkce(i)) \/ UseApiKey \/ LoadSettings
    BY <2>3, <1>5, <1>11
  <2>4. CASE (\E l \in Lockouts : CounterExpires(l) \/ BlockExpires(l)) \/ Crash
    BY <2>4, <1>6, <1>7
  <2>5. CASE \E a \in Apps : Logout(a)
    BY <2>5, <1>8
  <2>6. CASE \E t \in DOMAIN sessions : Expire(t)
    BY <2>6, <1>9
  <2>7. CASE \E i \in Idents, e \in Mails : ChangeMail(i, e)
    BY <2>7, <1>10
  <2> QED
    BY <2>1, <2>2, <2>3, <2>4, <2>5, <2>6, <2>7 DEF Next

-----------------------------------------------------------------------------
\* Users, identities and tokens

\* The owner of an identity stays its owner.
AccountsGrow ==
  /\ DOMAIN users \subseteq DOMAIN users'
  /\ \A i \in Idents : owner[i] # 0 => owner'[i] = owner[i]

\* A step keeps the types of the accounts, removes no user and disowns no identity.
LEMMA AccountsKept ==
  ASSUME AccountTypes, CallTypes, CallsFit, Next
  PROVE  AccountTypes' /\ AccountsGrow
<1> USE DEF AccountTypes, AccountsGrow, accountVars
<1>1. CASE UNCHANGED <<accountVars, mail>>
  BY <1>1
<1>2. ASSUME NEW k \in Slots, UpdateUser(k) PROVE AccountTypes' /\ AccountsGrow
  <2>1. calls[k].mail \in Mails /\ calls[k].user \in DOMAIN users
    BY <1>2 DEF UpdateUser, CallsFit, Fits, SigningIn
  <2>2. users' \in Seq(Mails) /\ Len(users') = Len(users) /\ DOMAIN users' = DOMAIN users
    BY <1>2, <2>1 DEF UpdateUser
  <2> QED
    BY <1>2, <2>2 DEF UpdateUser
<1>3. ASSUME NEW k \in Slots, CreateUser(k) PROVE AccountTypes' /\ AccountsGrow
  <2>1. calls[k].mail \in Mails /\ calls[k].ident \in Idents
    BY <1>3 DEF CreateUser, CallsFit, Fits, SigningIn
  <2> DEFINE u == Len(users) + 1
  <2>2. CASE IdentityTaken(calls[k].ident) \/ UserWith(calls[k].mail) # {} \/ u > MaxUsers
    BY <1>3, <2>2 DEF CreateUser
  <2>3. CASE ~(IdentityTaken(calls[k].ident) \/ UserWith(calls[k].mail) # {} \/ u > MaxUsers)
    <3>1. users' = Append(users, calls[k].mail) /\ owner' = [owner EXCEPT ![calls[k].ident] = u]
          /\ mail' = mail
      BY <1>3, <2>3 DEF CreateUser
    <3>2. users' \in Seq(Mails) /\ Len(users') = u /\ u <= MaxUsers
      BY <2>1, <2>3, <3>1, AuthBounds
    <3>3. DOMAIN users' = DOMAIN users \cup {u}
      BY <3>2
    <3>4. owner[calls[k].ident] = 0
      BY <2>3 DEF IdentityTaken
    <3> QED
      BY <2>1, <3>1, <3>2, <3>3, <3>4
  <2> QED
    BY <2>2, <2>3
<1>4. ASSUME NEW k \in Slots, AddLink(k) PROVE AccountTypes' /\ AccountsGrow
  <2>1. calls[k].user \in DOMAIN users /\ calls[k].ident \in Idents
    BY <1>4 DEF AddLink, CallsFit, Fits, SigningIn
  <2> QED
    BY <1>4, <2>1 DEF AddLink, IdentityTaken
<1>5. ASSUME NEW i \in Idents, NEW e \in Mails, ChangeMail(i, e) PROVE AccountTypes' /\ AccountsGrow
  BY <1>5 DEF ChangeMail
<1> QED
  BY <1>1, <1>2, <1>3, <1>4, <1>5, Frames DEF AccountStep

\* Tokens are added; what they were obtained with stays.
SessionsGrow ==
  /\ DOMAIN sessions \subseteq DOMAIN sessions'
  /\ \A t \in DOMAIN sessions :
       /\ sessions'[t].user = sessions[t].user /\ sessions'[t].by = sessions[t].by
       /\ sessions'[t].root = sessions[t].root
       /\ sessions'[t].live => sessions[t].live

New == Len(sessions) + 1

\* The fields of a row of auth_refresh_sessions.
LEMMA TokenFields ==
  ASSUME AccountTypes, SessionTypes, NEW t \in DOMAIN sessions
  PROVE  /\ sessions[t] \in Session
         /\ sessions[t].user \in DOMAIN users /\ sessions[t].user # 0
         /\ sessions[t].by \in Idents /\ sessions[t].root \in DOMAIN sessions
         /\ sessions[t].live \in BOOLEAN
<1>1. sessions[t] \in Session
  BY DEF SessionTypes
<1>2. 0 \notin DOMAIN users
  BY DEF AccountTypes
<1> QED
  BY <1>1, <1>2 DEF Session

\* A row that is revoked, or copied, keeps the rest of its fields.
LEMMA SetLive ==
  ASSUME NEW r \in Session, NEW b \in BOOLEAN
  PROVE  LET q == [r EXCEPT !.live = b] IN
         q.user = r.user /\ q.by = r.by /\ q.root = r.root /\ q.live = b
  BY DEF Session

\* What the transaction of a rotation leaves.
LEMMA Rotated ==
  ASSUME SessionTypes, CallTypes, CallsFit, NEW k \in Slots, Rotate(k)
  PROVE  /\ calls[k].tok \in DOMAIN sessions
         /\ DOMAIN sessions' = DOMAIN sessions \cup {New}
         /\ New \notin DOMAIN sessions
         /\ sessions' \in Seq(Session')
         /\ sessions'[calls[k].tok] = [sessions[calls[k].tok] EXCEPT !.live = FALSE]
         /\ \A t \in DOMAIN sessions : t # calls[k].tok => sessions'[t] = sessions[t]
         /\ sessions'[New] = [sessions[calls[k].tok] EXCEPT !.live = TRUE]
<1> DEFINE t == calls[k].tok
           old == [sessions[t] EXCEPT !.live = FALSE]
           new == [sessions[t] EXCEPT !.live = TRUE]
           S == Session
<1>1. t \in DOMAIN sessions
  BY DEF Rotate, CallsFit, Fits
<1>2. sessions' = Append(Revoke(t), new) /\ Revoke(t) = [sessions EXCEPT ![t] = old]
  BY DEF Rotate, Revoke
<1>3. sessions \in Seq(S) /\ sessions[t] \in S
  BY <1>1 DEF SessionTypes
<1>4. old \in S /\ new \in S
  BY <1>3 DEF Session
<1> HIDE DEF S, old, new
<1>5. /\ Revoke(t) \in Seq(S) /\ Len(Revoke(t)) = Len(sessions)
      /\ Revoke(t)[t] = old /\ \A s \in DOMAIN sessions : s # t => Revoke(t)[s] = sessions[s]
  BY <1>1, <1>2, <1>3, <1>4
<1>6. /\ sessions' \in Seq(S) /\ DOMAIN sessions' = DOMAIN sessions \cup {New}
      /\ New \notin DOMAIN sessions
      /\ sessions'[t] = old /\ sessions'[New] = new
      /\ \A s \in DOMAIN sessions : s # t => sessions'[s] = sessions[s]
  BY <1>1, <1>2, <1>3, <1>4, <1>5 DEF New
<1>7. S \subseteq Session'
  <2>1. users' = users
    BY DEF Rotate, accountVars
  <2> QED
    BY <1>6, <2>1 DEF S, Session
<1> QED
  BY <1>1, <1>6, <1>7 DEF old, new

\* What the row a sign-in adds is, and that all others stay.
LEMMA Issued ==
  ASSUME SessionTypes, CallTypes, CallsFit, NEW k \in Slots, IssueToken(k)
  PROVE  /\ calls[k].ident \in Idents /\ calls[k].user \in DOMAIN users
         /\ owner[calls[k].ident] = calls[k].user
         /\ DOMAIN sessions' = DOMAIN sessions \cup {New}
         /\ New \notin DOMAIN sessions
         /\ sessions' \in Seq(Session')
         /\ \A t \in DOMAIN sessions : sessions'[t] = sessions[t]
         /\ sessions'[New] = [user |-> calls[k].user, by |-> calls[k].ident, root |-> New,
                             live |-> TRUE]
<1> DEFINE new == [user |-> calls[k].user, by |-> calls[k].ident, root |-> New, live |-> TRUE]
           S == Session'
<1>1. /\ calls[k].ident \in Idents /\ calls[k].user \in DOMAIN users
      /\ owner[calls[k].ident] = calls[k].user
  BY DEF IssueToken, CallsFit, Fits, SigningIn
<1>2. sessions' = Append(sessions, new) /\ users' = users
  BY DEF IssueToken, New, accountVars
<1>3. /\ DOMAIN sessions' = DOMAIN sessions \cup {New} /\ New \notin DOMAIN sessions
      /\ sessions'[New] = new /\ \A t \in DOMAIN sessions : sessions'[t] = sessions[t]
  BY <1>2 DEF SessionTypes, New
<1>4. new \in S /\ Session \subseteq S
  BY <1>1, <1>2, <1>3 DEF Session
<1>5. sessions \in Seq(S)
  BY <1>4 DEF SessionTypes
<1> HIDE DEF new, S
<1>6. sessions' \in Seq(S)
  BY <1>2, <1>4, <1>5
<1> QED
  BY <1>1, <1>3, <1>6 DEF new, S

\* What a token that expires leaves.
LEMMA Expired ==
  ASSUME SessionTypes, NEW t \in DOMAIN sessions, Expire(t)
  PROVE  /\ DOMAIN sessions' = DOMAIN sessions
         /\ sessions' \in Seq(Session')
         /\ sessions'[t] = [sessions[t] EXCEPT !.live = FALSE]
         /\ \A s \in DOMAIN sessions : s # t => sessions'[s] = sessions[s]
<1> DEFINE old == [sessions[t] EXCEPT !.live = FALSE]
           S == Session
<1>1. sessions' = [sessions EXCEPT ![t] = old] /\ users' = users
  BY DEF Expire, accountVars
<1>2. sessions[t] \in S /\ sessions \in Seq(S)
  BY DEF SessionTypes
<1>3. old \in S
  BY <1>2 DEF Session
<1> HIDE DEF S, old
<1>4. /\ sessions' \in Seq(S) /\ DOMAIN sessions' = DOMAIN sessions /\ sessions'[t] = old
      /\ \A s \in DOMAIN sessions : s # t => sessions'[s] = sessions[s]
  BY <1>1, <1>2, <1>3
<1>5. S = Session'
  BY <1>1, <1>4 DEF S, Session
<1> QED
  BY <1>4, <1>5 DEF old

\* A step keeps the types of the rows, removes none and brings none back to life.
LEMMA SessionsKept ==
  ASSUME AccountTypes, SessionTypes, CallTypes, CallsFit, Next
  PROVE  SessionTypes' /\ SessionsGrow
<1> USE DEF SessionTypes, SessionsGrow
<1>1. CASE UNCHANGED sessions
  <2>1. DOMAIN users \subseteq DOMAIN users'
    BY AccountsKept DEF AccountsGrow
  <2>2. Session \subseteq Session'
    BY <1>1, <2>1 DEF Session
  <2> QED
    BY <1>1, <2>2
<1>2. ASSUME NEW k \in Slots, Rotate(k) PROVE SessionTypes' /\ SessionsGrow
  <2>1. sessions[calls[k].tok] \in Session
    BY <1>2, Rotated, TokenFields
  <2>2. /\ sessions'[calls[k].tok].user = sessions[calls[k].tok].user
        /\ sessions'[calls[k].tok].by = sessions[calls[k].tok].by
        /\ sessions'[calls[k].tok].root = sessions[calls[k].tok].root
        /\ ~sessions'[calls[k].tok].live
    BY <1>2, <2>1, Rotated DEF Session
  <2>3. \A t \in DOMAIN sessions : t # calls[k].tok => sessions'[t] = sessions[t]
    BY <1>2, Rotated
  <2>4. DOMAIN sessions \subseteq DOMAIN sessions' /\ sessions' \in Seq(Session')
    BY <1>2, Rotated
  <2> QED
    BY <2>2, <2>3, <2>4
<1>3. ASSUME NEW k \in Slots, IssueToken(k) PROVE SessionTypes' /\ SessionsGrow
  BY <1>3, Issued
<1>4. ASSUME NEW t \in DOMAIN sessions, Expire(t) PROVE SessionTypes' /\ SessionsGrow
  <2>1. sessions[t] \in Session
    BY TokenFields
  <2>2. /\ sessions'[t].user = sessions[t].user /\ sessions'[t].by = sessions[t].by
        /\ sessions'[t].root = sessions[t].root /\ ~sessions'[t].live
    BY <1>4, <2>1, Expired DEF Session
  <2> QED
    BY <1>4, <2>2, Expired
<1> QED
  BY <1>1, <1>2, <1>3, <1>4, Frames DEF SessionStep

\* The copy of a rotation is for the owner of the old row, and a sign-in writes the owner
\* its call read; no owner changes.
LEMMA TokensOwned ==
  ASSUME AccountTypes, SessionTypes, CallTypes, CallsFit, TokenOfOwner, Next
  PROVE  TokenOfOwner'
<1>1. \A t \in DOMAIN sessions :
        /\ sessions[t].by \in Idents /\ sessions[t].user # 0
        /\ owner[sessions[t].by] = sessions[t].user
  BY TokenFields DEF TokenOfOwner
<1>2. \A t \in DOMAIN sessions : owner'[sessions'[t].by] = sessions'[t].user
  BY <1>1, AccountsKept, SessionsKept DEF AccountsGrow, SessionsGrow
<1>3. CASE DOMAIN sessions' = DOMAIN sessions
  BY <1>2, <1>3 DEF TokenOfOwner
<1>4. ASSUME NEW k \in Slots, Rotate(k) PROVE TokenOfOwner'
  <2>1. /\ sessions'[New].by = sessions[calls[k].tok].by
        /\ sessions'[New].user = sessions[calls[k].tok].user
    BY <1>4, Rotated, SetLive, TokenFields
  <2>2. owner' = owner
    BY <1>4 DEF Rotate, accountVars
  <2> QED
    <3>1. \A t \in DOMAIN sessions' : t \in DOMAIN sessions \/ t = New
      BY <1>4, Rotated
    <3>2. calls[k].tok \in DOMAIN sessions
      BY <1>4, Rotated
    <3> QED
      BY <1>1, <1>2, <2>1, <2>2, <3>1, <3>2 DEF TokenOfOwner
<1>5. ASSUME NEW k \in Slots, IssueToken(k) PROVE TokenOfOwner'
  <2>1. owner' = owner
    BY <1>5 DEF IssueToken, accountVars
  <2> QED
    <3>1. \A t \in DOMAIN sessions' : t \in DOMAIN sessions \/ t = New
      BY <1>5, Issued
    <3>2. /\ owner[calls[k].ident] = calls[k].user
          /\ sessions'[New] = [user |-> calls[k].user, by |-> calls[k].ident, root |-> New,
                              live |-> TRUE]
      BY <1>5, Issued
    <3>3. sessions'[New].by = calls[k].ident /\ sessions'[New].user = calls[k].user
      BY <3>2
    <3> QED
      BY <1>2, <2>1, <3>1, <3>2, <3>3 DEF TokenOfOwner
<1> QED
  BY <1>3, <1>4, <1>5, Frames, Expired DEF SessionStep

-----------------------------------------------------------------------------
\* What a call has at hand

\* A call that fits still does when users and tokens were added.
LEMMA FitsGrows ==
  ASSUME NEW us, NEW us2, NEW ts, NEW ts2, NEW ow, NEW ow2, us \subseteq us2, ts \subseteq ts2,
         0 \notin us, \A i \in Idents : ow[i] # 0 => ow2[i] = ow[i],
         NEW c \in Call(us, ts), Fits(c, us, ts, ow)
  PROVE  c \in Call(us2, ts2) /\ Fits(c, us2, ts2, ow2)
<1>1. c \in Call(us2, ts2)
  BY DEF Call
<1>2. c.at \in {"update", "issue"} => c.ident \in Idents /\ c.user \in us /\ c.user # 0
  BY DEF Fits, SigningIn
<1> QED
  BY <1>1, <1>2 DEF Fits

\* A step that writes one call.
LEMMA OneCall ==
  ASSUME AccountTypes, CallTypes, CallsFit, AccountsGrow, SessionsGrow, NEW k \in Slots,
         NEW c \in Call(DOMAIN users', DOMAIN sessions'),
         Fits(c, DOMAIN users', DOMAIN sessions', owner'), calls' = [calls EXCEPT ![k] = c]
  PROVE  CallTypes' /\ CallsFit'
<1>1. 0 \notin DOMAIN users
  BY DEF AccountTypes
<1>2. \A j \in Slots : /\ calls[j] \in Call(DOMAIN users, DOMAIN sessions)
                       /\ Fits(calls[j], DOMAIN users, DOMAIN sessions, owner)
  BY DEF CallTypes, CallsFit
<1>3. \A j \in Slots : /\ calls[j] \in Call(DOMAIN users', DOMAIN sessions')
                       /\ Fits(calls[j], DOMAIN users', DOMAIN sessions', owner')
  BY <1>1, <1>2, FitsGrows DEF AccountsGrow, SessionsGrow
<1>4. \A j \in Slots : /\ calls'[j] \in Call(DOMAIN users', DOMAIN sessions')
                       /\ Fits(calls'[j], DOMAIN users', DOMAIN sessions', owner')
  BY <1>3 DEF CallTypes
<1>5. calls' = [j \in Slots |-> calls'[j]]
  BY DEF CallTypes
<1> QED
  BY <1>4, <1>5 DEF CallTypes, CallsFit

\* It writes one that fits what there was before.
LEMMA OneOldCall ==
  ASSUME AccountTypes, CallTypes, CallsFit, AccountsGrow, SessionsGrow, NEW k \in Slots,
         NEW c \in Call(DOMAIN users, DOMAIN sessions),
         Fits(c, DOMAIN users, DOMAIN sessions, owner), calls' = [calls EXCEPT ![k] = c]
  PROVE  CallTypes' /\ CallsFit'
<1>1. 0 \notin DOMAIN users
  BY DEF AccountTypes
<1>2. /\ c \in Call(DOMAIN users', DOMAIN sessions')
      /\ Fits(c, DOMAIN users', DOMAIN sessions', owner')
  BY <1>1, FitsGrows DEF AccountsGrow, SessionsGrow
<1> QED
  BY <1>2, OneCall

\* A call that ends leaves its slot free.
LEMMA EndKept ==
  ASSUME AccountTypes, CallTypes, CallsFit, AccountsGrow, SessionsGrow, NEW k \in Slots, End(k)
  PROVE  CallTypes' /\ CallsFit'
  BY FreeFits, OneCall DEF End

\* A call that goes on keeps its fields.
LEMMA AtFields ==
  ASSUME NEW us, NEW ts, NEW c \in Call(us, ts), NEW l \in Places
  PROVE  LET d == [c EXCEPT !.at = l] IN
         /\ d \in Call(us, ts) /\ d.at = l /\ d.page = c.page /\ d.tok = c.tok
         /\ d.ident = c.ident /\ d.user = c.user /\ d.mail = c.mail /\ d.client = c.client
  BY DEF Call

\* A call goes on to a place that asks for no more than it has.
May(c, l) ==
  \/ l \in InBrowser \ {"provider", "pkce", "linkprovider", "landed"}
  \/ c.at \in Refreshing /\ l \in Refreshing \ {"ask", "look", "rotate"}
  \/ c.at = "ask" /\ l = "look"
  \/ c.at = "look" /\ l = "rotate" /\ App(c.page) # "cli"
  \/ <<c.at, l>> \in {<<"read", "create">>, <<"update", "issue">>, <<"land", "landed">>,
                      <<"linkread", "linkadd">>}

\* Where a call may go it has what is asked for.
LEMMA MayFits ==
  ASSUME NEW us, NEW ts, NEW ow, NEW c \in Call(us, ts), Fits(c, us, ts, ow),
         NEW l \in Places, May(c, l)
  PROVE  [c EXCEPT !.at = l] \in Call(us, ts) /\ Fits([c EXCEPT !.at = l], us, ts, ow)
<1> DEFINE d == [c EXCEPT !.at = l]
<1>1. /\ d \in Call(us, ts) /\ d.at = l /\ d.page = c.page /\ d.tok = c.tok
      /\ d.ident = c.ident /\ d.user = c.user /\ d.mail = c.mail /\ d.client = c.client
  BY AtFields
<1> HIDE DEF d
<1>2. Fits(d, us, ts, ow)
  BY <1>1 DEF May, Fits, Refreshing, InHandler, SigningIn, InBrowser
<1> QED
  BY <1>1, <1>2 DEF d

\* A step that takes one call further.
LEMMA GotoKept ==
  ASSUME AccountTypes, CallTypes, CallsFit, AccountsGrow, SessionsGrow, NEW k \in Slots,
         NEW l \in Places, Goto(k, l), May(calls[k], l)
  PROVE  CallTypes' /\ CallsFit'
<1>1. /\ calls[k] \in Call(DOMAIN users, DOMAIN sessions)
      /\ Fits(calls[k], DOMAIN users, DOMAIN sessions, owner)
  BY DEF CallTypes, CallsFit
<1>2. [calls[k] EXCEPT !.at = l] \in Call(DOMAIN users, DOMAIN sessions)
      /\ Fits([calls[k] EXCEPT !.at = l], DOMAIN users, DOMAIN sessions, owner)
  BY <1>1, MayFits
<1>3. calls' = [calls EXCEPT ![k] = [calls[k] EXCEPT !.at = l]]
  BY DEF Goto
<1> QED
  BY <1>2, <1>3, OneOldCall

\* A step that begins a call.
LEMMA BeginKept ==
  ASSUME AccountTypes, CallTypes, CallsFit, AccountsGrow, SessionsGrow,
         NEW c \in Call(DOMAIN users, DOMAIN sessions),
         Fits(c, DOMAIN users, DOMAIN sessions, owner), Begin(c)
  PROVE  CallTypes' /\ CallsFit'
  BY OneOldCall DEF Begin

\* A call ends, or goes on to a place it may go to.
GoesOn(k) == End(k) \/ \E l \in Places : Goto(k, l) /\ May(calls[k], l)

\* A step that takes one call further, or ends it.
LEMMA GoesOnKept ==
  ASSUME AccountTypes, CallTypes, CallsFit, AccountsGrow, SessionsGrow, NEW k \in Slots, GoesOn(k)
  PROVE  CallTypes' /\ CallsFit'
  BY GotoKept, EndKept DEF GoesOn

\* Where each handler goes with the fields it has.
LEMMA HandlersGoOn ==
  ASSUME CallTypes, NEW k \in Slots,
         \/ Ask(k) \/ ClearFailures(k) \/ CountFailure(k) \/ SetExpiry(k) \/ Block(k) \/ Look(k)
         \/ Granted(k) \/ Verify(k) \/ Refused(k) \/ NoAnswer(k) \/ SaveSettings(k)
         \/ Land(k) \/ TakeTokens(k) \/ ReadLink(k) \/ AddLink(k) \/ LoseCall(k)
  PROVE  GoesOn(k)
<1> USE DEF GoesOn
<1>1. CASE Ask(k)
  BY <1>1 DEF Ask, May, Places, Refreshing, InHandler
<1>8. CASE ClearFailures(k) \/ CountFailure(k) \/ SetExpiry(k) \/ Block(k)
  <2>1. \A l \in {"granted", "ttl", "block", "refused"} :
          l \in Places /\ (calls[k].at \in {"clear", "count", "ttl", "block"} => May(calls[k], l))
    BY DEF May, Places, Refreshing, InHandler
  <2>2. \E l \in {"granted", "ttl", "block", "refused"} : Goto(k, l)
    BY <1>8 DEF ClearFailures, CountFailure, SetExpiry, Block, AfterCount
  <2>3. calls[k].at \in {"clear", "count", "ttl", "block"}
    BY <1>8 DEF ClearFailures, CountFailure, SetExpiry, Block
  <2> QED
    BY <2>1, <2>2, <2>3
<1>2. CASE Look(k)
  <2>1. Goto(k, "count") \/ End(k) \/ (Goto(k, "rotate") /\ App(calls[k].page) # "cli")
    BY <1>2 DEF Look, AppOf
  <2>2. "count" \in Places /\ May(calls[k], "count") /\ "rotate" \in Places
        /\ (App(calls[k].page) # "cli" => May(calls[k], "rotate"))
    BY <1>2 DEF Look, May, Places, Refreshing, InHandler
  <2> QED
    BY <2>1, <2>2
<1>3. CASE Granted(k)
  <2>1. "verify" \in Places /\ May(calls[k], "verify")
    BY DEF May, Places, InBrowser
  <2>2. Goto(k, "verify") \/ End(k)
    BY <1>3 DEF Granted
  <2> QED
    BY <2>1, <2>2
<1>4. CASE Verify(k) \/ Refused(k) \/ NoAnswer(k) \/ SaveSettings(k) \/ TakeTokens(k) \/ AddLink(k)
  BY <1>4 DEF Verify, Refused, NoAnswer, SaveSettings, TakeTokens, AddLink
<1>5. CASE Land(k)
  <2>1. "landed" \in Places /\ May(calls[k], "landed")
    BY <1>5 DEF Land, May, Places, InBrowser
  <2> QED
    BY <1>5, <2>1 DEF Land
<1>6. CASE ReadLink(k)
  <2>1. "linkadd" \in Places /\ May(calls[k], "linkadd")
    BY <1>6 DEF ReadLink, May, Places, SigningIn
  <2>2. Goto(k, "linkadd") \/ End(k)
    BY <1>6 DEF ReadLink
  <2> QED
    BY <2>1, <2>2
<1>7. CASE LoseCall(k)
  <2>1. "error" \in Places /\ May(calls[k], "error")
    BY DEF May, Places, InBrowser
  <2>2. Goto(k, "error")
    BY <1>7 DEF LoseCall
  <2> QED
    BY <2>1, <2>2
<1> QED
  BY <1>1, <1>2, <1>3, <1>4, <1>5, <1>6, <1>7, <1>8

\* A request that begins has what its first place asks for.
LEMMA NewCallsFit ==
  ASSUME AccountTypes, SessionTypes, StoreType
  PROVE  LET us == DOMAIN users
             ts == DOMAIN sessions IN
         /\ \A p \in Pages \ {"cli"} : store[App(p)] # 0 =>
              LET c == [Free EXCEPT !.page = p, !.at = "ask", !.tok = store[App(p)]]
              IN c \in Call(us, ts) /\ Fits(c, us, ts, owner)
         /\ LET c == [Free EXCEPT !.page = "cli", !.at = "ask"]
            IN c \in Call(us, ts) /\ Fits(c, us, ts, owner)
         /\ \A p \in Pages, i \in Idents :
              LET c == [Free EXCEPT !.page = p, !.at = "provider", !.ident = i, !.client = App(p)]
              IN c \in Call(us, ts) /\ Fits(c, us, ts, owner)
         /\ \A i \in Idents :
              LET c == [Free EXCEPT !.page = "cli", !.at = "pkce", !.ident = i, !.client = "cli"]
              IN c \in Call(us, ts) /\ Fits(c, us, ts, owner)
         /\ \A p \in Pages, i \in Idents : store["web"] # 0 =>
              LET c == [Free EXCEPT !.page = p, !.at = "linkprovider", !.ident = i,
                                    !.user = sessions[store["web"]].user]
              IN c \in Call(us, ts) /\ Fits(c, us, ts, owner)
         /\ LET c == [Free EXCEPT !.page = "panel", !.at = "save", !.tok = store["ext"]]
            IN c \in Call(us, ts) /\ Fits(c, us, ts, owner)
<1> USE DEF Free, Call, Fits, Places, Refreshing, SigningIn, InHandler, InBrowser
<1>1. /\ \A p : App(p) \in Apps /\ store[App(p)] \in {0} \cup DOMAIN sessions
      /\ "cli" \in Apps /\ "cli" \in Pages /\ "panel" \in Pages
      /\ store["web"] \in {0} \cup DOMAIN sessions /\ store["ext"] \in {0} \cup DOMAIN sessions
  BY AppIsApp DEF StoreType, Apps, Pages
<1>2. App("cli") = "cli"
  BY PagesAreNew DEF App
<1>3. ASSUME NEW p \in Pages \ {"cli"}, store[App(p)] # 0
      PROVE  LET c == [Free EXCEPT !.page = p, !.at = "ask", !.tok = store[App(p)]]
             IN  c \in Call(DOMAIN users, DOMAIN sessions)
                 /\ Fits(c, DOMAIN users, DOMAIN sessions, owner)
  BY <1>1, <1>3
<1>4. LET c == [Free EXCEPT !.page = "cli", !.at = "ask"]
      IN  c \in Call(DOMAIN users, DOMAIN sessions)
          /\ Fits(c, DOMAIN users, DOMAIN sessions, owner)
  BY <1>1, <1>2
<1>5. ASSUME NEW p \in Pages, NEW i \in Idents
      PROVE  LET c == [Free EXCEPT !.page = p, !.at = "provider", !.ident = i, !.client = App(p)]
             IN  c \in Call(DOMAIN users, DOMAIN sessions)
                 /\ Fits(c, DOMAIN users, DOMAIN sessions, owner)
  BY <1>1
<1>6. ASSUME NEW i \in Idents
      PROVE  LET c == [Free EXCEPT !.page = "cli", !.at = "pkce", !.ident = i, !.client = "cli"]
             IN  c \in Call(DOMAIN users, DOMAIN sessions)
                 /\ Fits(c, DOMAIN users, DOMAIN sessions, owner)
  BY <1>1
<1>7. ASSUME NEW p \in Pages, NEW i \in Idents, store["web"] # 0
      PROVE  LET c == [Free EXCEPT !.page = p, !.at = "linkprovider", !.ident = i,
                                   !.user = sessions[store["web"]].user]
             IN  c \in Call(DOMAIN users, DOMAIN sessions)
                 /\ Fits(c, DOMAIN users, DOMAIN sessions, owner)
  <2>1. sessions[store["web"]].user \in DOMAIN users
    BY <1>1, <1>7, TokenFields
  <2> QED
    BY <2>1
<1>8. LET c == [Free EXCEPT !.page = "panel", !.at = "save", !.tok = store["ext"]]
      IN  c \in Call(DOMAIN users, DOMAIN sessions)
          /\ Fits(c, DOMAIN users, DOMAIN sessions, owner)
  BY <1>1
<1> HIDE DEF Free, Call, Fits, Places, Refreshing, SigningIn, InHandler, InBrowser
<1> QED
  BY <1>3, <1>4, <1>5, <1>6, <1>7, <1>8

\* The provider's answer is put down in the call.
LEMMA ExchangeKept ==
  ASSUME AccountTypes, CallTypes, CallsFit, AccountsGrow, SessionsGrow, NEW k \in Slots,
         \/ /\ calls[k].at \in {"provider", "pkce"}
            /\ \E a \in Apps \cup {None} : Exchange(k, "read", a)
         \/ calls[k].at = "linkprovider" /\ Exchange(k, "linkread", "web")
  PROVE  CallTypes' /\ CallsFit'
<1>1. calls[k] \in Call(DOMAIN users, DOMAIN sessions)
      /\ Fits(calls[k], DOMAIN users, DOMAIN sessions, owner)
  BY DEF CallTypes, CallsFit
<1>2. calls[k].ident \in Idents /\ mail[calls[k].ident] \in Mails
  BY <1>1 DEF Fits, AccountTypes
<1>3. calls[k].at = "linkprovider" => calls[k].user \in DOMAIN users
  BY <1>1 DEF Fits
<1>4. PICK l \in {"read", "linkread"}, a \in Apps \cup {None} :
        Exchange(k, l, a) /\ (l = "linkread" => calls[k].at = "linkprovider")
  BY DEF Apps
<1> DEFINE c == [calls[k] EXCEPT !.at = l, !.mail = mail[calls[k].ident], !.client = a]
<1>5. /\ c \in Call(DOMAIN users, DOMAIN sessions) /\ c.at = l /\ c.ident = calls[k].ident
      /\ c.mail = mail[calls[k].ident] /\ c.user = calls[k].user
  BY <1>1, <1>2 DEF Call, Places, SigningIn
<1>6. calls' = [calls EXCEPT ![k] = c]
  BY <1>4 DEF Exchange, CallTypes
<1> HIDE DEF c
<1>7. Fits(c, DOMAIN users, DOMAIN sessions, owner)
  BY <1>2, <1>3, <1>4, <1>5 DEF Fits, Refreshing, InHandler, SigningIn
<1> QED
  BY <1>5, <1>6, <1>7, OneOldCall

\* What the handlers of one call leave.
LEMMA HandlerKept ==
  ASSUME AccountTypes, SessionTypes, CallTypes, CallsFit, AccountsGrow, SessionsGrow,
         NEW k \in Slots, Handler(k) \/ LoseCall(k)
  PROVE  CallTypes' /\ CallsFit'
<1> DEFINE us == DOMAIN users
           ts == DOMAIN sessions
<1>1. calls[k] \in Call(us, ts) /\ Fits(calls[k], us, ts, owner)
  BY DEF CallTypes, CallsFit
<1>2. CASE \/ Ask(k) \/ ClearFailures(k) \/ CountFailure(k) \/ SetExpiry(k) \/ Block(k) \/ Look(k)
           \/ Granted(k) \/ Verify(k) \/ Refused(k) \/ NoAnswer(k) \/ SaveSettings(k)
           \/ Land(k) \/ TakeTokens(k) \/ ReadLink(k) \/ AddLink(k) \/ LoseCall(k)
  BY <1>2, HandlersGoOn, GoesOnKept
<1>3. CASE Callback(k)
  <2>1. calls[k].client \in Apps \/ calls[k].client = None
    BY <1>1 DEF Call
  <2> QED
    BY <1>3, <2>1, ExchangeKept, EndKept DEF Callback, Apps
<1>4. CASE FinalizeExtension(k)
  <2>1. calls[k].client \in Apps \cup {None}
    BY <1>1 DEF Call
  <2> QED
    BY <1>4, <2>1, ExchangeKept, EndKept DEF FinalizeExtension
<1>5. CASE LinkCallback(k)
  BY <1>5, ExchangeKept, EndKept DEF LinkCallback
<1>6. CASE Rotate(k)
  <2>1. /\ calls[k].at = "rotate" /\ calls[k].client = None
        /\ calls' = [calls EXCEPT ![k].at = "clear", ![k].tok = New]
    BY <1>1, <1>6 DEF Rotate, Fits, Refreshing, InHandler, New
  <2> DEFINE c == [calls[k] EXCEPT !.at = "clear", !.tok = New]
  <2>2. calls[k] \in Call(us', ts')
    BY <1>1, FitsGrows DEF AccountsGrow, SessionsGrow, AccountTypes
  <2>3. New \in ts'
    BY <1>6, Rotated
  <2>4. c \in Call(us', ts') /\ c.at = "clear" /\ c.client = None
    BY <2>1, <2>2, <2>3 DEF Call, Places, Refreshing, InHandler
  <2>5. calls' = [calls EXCEPT ![k] = c]
    BY <2>1 DEF CallTypes
  <2> HIDE DEF c
  <2>6. Fits(c, us', ts', owner')
    BY <2>4 DEF Fits, SigningIn
  <2> QED
    BY <2>4, <2>5, <2>6, OneCall
<1>7. CASE IssueToken(k)
  <2>1. calls' = [calls EXCEPT ![k].at = "land", ![k].tok = New] /\ calls[k].at = "issue"
    BY <1>7 DEF IssueToken, New
  <2>2. calls[k].ident \in Idents /\ calls[k].user \in us /\ calls[k].mail \in Mails
    BY <1>1, <2>1 DEF Fits, SigningIn
  <2> DEFINE c == [calls[k] EXCEPT !.at = "land", !.tok = New]
  <2>3. calls[k] \in Call(us', ts')
    BY <1>1, FitsGrows DEF AccountsGrow, SessionsGrow, AccountTypes
  <2>4. New \in ts' /\ us \subseteq us'
    BY <1>7, Issued DEF AccountsGrow
  <2>5. /\ c \in Call(us', ts') /\ c.at = "land" /\ c.tok = New /\ c.ident = calls[k].ident
        /\ c.user = calls[k].user /\ c.mail = calls[k].mail
    BY <2>3, <2>4 DEF Call, Places, SigningIn
  <2>6. calls' = [calls EXCEPT ![k] = c]
    BY <2>1 DEF CallTypes
  <2> HIDE DEF c
  <2>7. Fits(c, us', ts', owner')
    BY <2>2, <2>4, <2>5 DEF Fits, Refreshing, InHandler
  <2> QED
    BY <2>5, <2>6, <2>7, OneCall
<1>8. CASE ReadIdentity(k)
  <2>1. calls[k].at = "read" /\ calls[k].ident \in Idents /\ calls[k].mail \in Mails
    BY <1>1, <1>8 DEF ReadIdentity, Fits, SigningIn
  <2>2. CASE owner[calls[k].ident] # 0
    <3> DEFINE u == owner[calls[k].ident]
               c == [calls[k] EXCEPT !.at = "update", !.user = u]
    <3>1. calls' = [calls EXCEPT ![k].at = "update", ![k].user = u]
      BY <1>8, <2>2 DEF ReadIdentity
    <3>2. u \in us
      BY <2>1, <2>2 DEF AccountTypes
    <3> HIDE DEF u
    <3>3. /\ c \in Call(us, ts) /\ c.at = "update" /\ c.user = u /\ c.ident = calls[k].ident
          /\ c.mail = calls[k].mail
      BY <1>1, <3>2 DEF Call, Places, SigningIn
    <3>4. calls' = [calls EXCEPT ![k] = c]
      BY <3>1 DEF CallTypes
    <3> HIDE DEF c
    <3>5. Fits(c, us, ts, owner)
      BY <2>1, <3>2, <3>3 DEF Fits, Refreshing, InHandler, u
    <3> QED
      BY <3>3, <3>4, <3>5, OneOldCall
  <2>3. CASE owner[calls[k].ident] = 0
    <3>1. End(k) \/ Goto(k, "create")
      BY <1>8, <2>3 DEF ReadIdentity
    <3>2. "create" \in Places /\ May(calls[k], "create")
      BY <2>1 DEF Places, SigningIn, May
    <3> QED
      BY <3>1, <3>2, EndKept, GotoKept
  <2> QED
    BY <2>2, <2>3
<1>9. CASE UpdateUser(k)
  <2>1. calls[k].at = "update" /\ (End(k) \/ Goto(k, "issue"))
    BY <1>9 DEF UpdateUser
  <2>2. "issue" \in Places /\ May(calls[k], "issue")
    BY <2>1 DEF Places, SigningIn, May
  <2> QED
    BY <2>1, <2>2, EndKept, GotoKept
<1>10. CASE CreateUser(k)
  <2> DEFINE u == Len(users) + 1
             c == [calls[k] EXCEPT !.at = "issue", !.user = u]
  <2>1. CASE End(k)
    BY <2>1, EndKept
  <2>2. CASE ~End(k)
    <3>1. /\ users' = Append(users, calls[k].mail)
          /\ owner' = [owner EXCEPT ![calls[k].ident] = u]
          /\ calls' = [calls EXCEPT ![k].at = "issue", ![k].user = u]
      BY <1>10, <2>2 DEF CreateUser
    <3>2. calls[k].ident \in Idents /\ calls[k].mail \in Mails
      BY <1>1, <1>10 DEF CreateUser, Fits, SigningIn
    <3>3. u \in us' /\ owner'[calls[k].ident] = u
      BY <3>1, <3>2 DEF AccountTypes
    <3>4. calls[k] \in Call(us', ts')
      BY <1>1, FitsGrows DEF AccountsGrow, SessionsGrow, AccountTypes
    <3> HIDE DEF u
    <3>5. /\ c \in Call(us', ts') /\ c.at = "issue" /\ c.user = u /\ c.ident = calls[k].ident
          /\ c.mail = calls[k].mail
      BY <3>3, <3>4 DEF Call, Places, SigningIn
    <3>6. calls' = [calls EXCEPT ![k] = c]
      BY <3>1 DEF CallTypes
    <3> HIDE DEF c
    <3>7. Fits(c, us', ts', owner')
      BY <3>2, <3>3, <3>5 DEF Fits, Refreshing, InHandler
    <3> QED
      BY <3>5, <3>6, <3>7, OneCall
  <2> QED
    BY <2>1, <2>2
<1> QED
  BY <1>2, <1>3, <1>4, <1>5, <1>6, <1>7, <1>8, <1>9, <1>10 DEF Handler

\* A crash ends the handlers, and what the pages hold stays.
LEMMA CrashKept ==
  ASSUME AccountTypes, CallTypes, CallsFit, AccountsGrow, SessionsGrow, Crash
  PROVE  CallTypes' /\ CallsFit'
<1>1. users' = users /\ sessions' = sessions /\ owner' = owner
  BY DEF Crash, accountVars
<1>2. ASSUME NEW k \in Slots
      PROVE  /\ calls'[k] \in Call(DOMAIN users, DOMAIN sessions)
             /\ Fits(calls'[k], DOMAIN users, DOMAIN sessions, owner)
  <2>1. calls[k] \in Call(DOMAIN users, DOMAIN sessions)
        /\ Fits(calls[k], DOMAIN users, DOMAIN sessions, owner)
    BY DEF CallTypes, CallsFit
  <2>2. "error" \in Places /\ May(calls[k], "error")
    BY DEF May, Places, InBrowser
  <2>3. calls'[k] = [calls[k] EXCEPT !.at = "error"] \/ calls'[k] = Free \/ calls'[k] = calls[k]
    BY DEF Crash
  <2> QED
    BY <2>1, <2>2, <2>3, MayFits, FreeFits
<1>3. calls' = [k \in Slots |-> calls'[k]]
  BY DEF Crash
<1> QED
  BY <1>1, <1>2, <1>3 DEF CallTypes, CallsFit

\* Requests that begin.
LEMMA BeginsKept ==
  ASSUME AccountTypes, SessionTypes, StoreType, CallTypes, CallsFit, AccountsGrow, SessionsGrow,
         \/ \E p \in Pages : Refresh(p) \/ \E i \in Idents : SignIn(p, i) \/ StartLink(p, i)
         \/ (\E i \in Idents : SignInPkce(i)) \/ UseApiKey \/ LoadSettings
  PROVE  CallTypes' /\ CallsFit'
<1> USE NewCallsFit, BeginKept
<1>1. ASSUME NEW p \in Pages, Refresh(p) PROVE CallTypes' /\ CallsFit'
  BY <1>1 DEF Refresh
<1>2. ASSUME NEW p \in Pages, NEW i \in Idents, SignIn(p, i) PROVE CallTypes' /\ CallsFit'
  BY <1>2 DEF SignIn
<1>3. ASSUME NEW p \in Pages, NEW i \in Idents, StartLink(p, i) PROVE CallTypes' /\ CallsFit'
  BY <1>3 DEF StartLink
<1>4. ASSUME NEW i \in Idents, SignInPkce(i) PROVE CallTypes' /\ CallsFit'
  BY <1>4 DEF SignInPkce
<1>5. CASE UseApiKey
  BY <1>5 DEF UseApiKey
<1>6. CASE LoadSettings
  BY <1>6 DEF LoadSettings
<1> QED
  BY <1>1, <1>2, <1>3, <1>4, <1>5, <1>6

\* The calls keep what their handlers count on.
LEMMA CallsKept ==
  ASSUME AccountTypes, SessionTypes, StoreType, CallTypes, CallsFit, Next
  PROVE  CallTypes' /\ CallsFit'
<1>1. AccountsGrow /\ SessionsGrow
  BY AccountsKept, SessionsKept
<1>2. ASSUME calls' = calls PROVE CallTypes' /\ CallsFit'
  <2>1. CASE Slots = {}
    BY <1>2, <2>1 DEF CallTypes, CallsFit
  <2>2. ASSUME NEW k \in Slots PROVE CallTypes' /\ CallsFit'
    <3>1. calls[k] \in Call(DOMAIN users, DOMAIN sessions)
          /\ Fits(calls[k], DOMAIN users, DOMAIN sessions, owner)
      BY DEF CallTypes, CallsFit
    <3>2. calls' = [calls EXCEPT ![k] = calls[k]]
      BY <1>2 DEF CallTypes
    <3> QED
      BY <1>1, <3>1, <3>2, OneOldCall
  <2> QED
    BY <2>1, <2>2
<1>3. CASE \E k \in Slots : Handler(k) \/ LoseCall(k)
  BY <1>1, <1>3, HandlerKept
<1>4. CASE \/ \E p \in Pages : Refresh(p) \/ \E i \in Idents : SignIn(p, i) \/ StartLink(p, i)
           \/ (\E i \in Idents : SignInPkce(i)) \/ UseApiKey \/ LoadSettings
  BY <1>1, <1>4, BeginsKept
<1>5. CASE Crash
  BY <1>1, <1>5, CrashKept
<1>6. CASE \E l \in Lockouts : CounterExpires(l) \/ BlockExpires(l)
  BY <1>2, <1>6 DEF CounterExpires, BlockExpires
<1>7. CASE \E a \in Apps : Logout(a)
  BY <1>2, <1>7 DEF Logout
<1>8. CASE \E t \in DOMAIN sessions : Expire(t)
  BY <1>2, <1>8 DEF Expire
<1>9. CASE \E i \in Idents, e \in Mails : ChangeMail(i, e)
  BY <1>2, <1>9 DEF ChangeMail
<1> QED
  BY <1>3, <1>4, <1>5, <1>6, <1>7, <1>8, <1>9 DEF Next

\* The storage of an application holds a token that was handed out.
LEMMA StoreKept ==
  ASSUME AccountTypes, SessionTypes, StoreType, CallTypes, CallsFit, Next
  PROVE  StoreType'
<1>1. DOMAIN sessions \subseteq DOMAIN sessions'
  BY SessionsKept DEF SessionsGrow
<1>2. ASSUME NEW a \in Apps, NEW t \in {0} \cup DOMAIN sessions, PutTokens(a, t)
      PROVE  StoreType'
  BY <1>1, <1>2 DEF PutTokens, StoreType
<1>3. CASE UNCHANGED store
  BY <1>1, <1>3 DEF StoreType
<1>4. ASSUME NEW k \in Slots
      PROVE  calls[k].tok \in {0} \cup DOMAIN sessions /\ AppOf(k) \in Apps
             /\ calls[k].client \in Apps \cup {None}
  BY AppIsApp DEF CallTypes, Call, AppOf
<1>5. "web" \in Apps /\ "ext" \in Apps
  BY DEF Apps
<1>6. ASSUME NEW k \in Slots, Granted(k) \/ SaveSettings(k) PROVE StoreType'
  BY <1>2, <1>4, <1>5, <1>6 DEF Granted, SaveSettings
<1>7. ASSUME NEW k \in Slots, Verify(k) \/ Refused(k) \/ NoAnswer(k) PROVE StoreType'
  BY <1>2, <1>3, <1>4, <1>5, <1>7 DEF Verify, Refused, NoAnswer
<1>8. ASSUME NEW k \in Slots, TakeTokens(k) PROVE StoreType'
  <2>1. PutTokens(calls[k].client, calls[k].tok)
    BY <1>8 DEF TakeTokens
  <2>2. store' \in [Apps -> {0} \cup DOMAIN sessions]
    BY <1>4, <2>1 DEF PutTokens, StoreType
  <2> QED
    BY <1>1, <2>2 DEF StoreType
<1>9. ASSUME NEW a \in Apps, Logout(a) PROVE StoreType'
  BY <1>2, <1>9 DEF Logout
<1> QED
  BY <1>3, <1>6, <1>7, <1>8, <1>9, Frames DEF StoreStep

-----------------------------------------------------------------------------
\* Which calls a step writes

\* Any step but a crash writes one call at most: by its handler, or in a free slot.
LEMMA Touched ==
  ASSUME CallTypes, Next, ~Crash
  PROVE  \/ calls' = calls
         \/ \E k \in Slots : /\ \A j \in Slots \ {k} : calls'[j] = calls[j]
                             /\ Handler(k) \/ LoseCall(k) \/ calls[k].at = "free"
<1> USE DEF CallTypes
<1>1. ASSUME NEW k \in Slots, Handler(k) \/ LoseCall(k)
      PROVE  \A j \in Slots \ {k} : calls'[j] = calls[j]
  <2>1. CASE \/ Ask(k) \/ ClearFailures(k) \/ CountFailure(k) \/ SetExpiry(k) \/ Block(k)
             \/ Look(k) \/ Granted(k) \/ Verify(k) \/ Refused(k) \/ NoAnswer(k) \/ SaveSettings(k)
             \/ Land(k) \/ TakeTokens(k) \/ ReadLink(k) \/ AddLink(k) \/ LoseCall(k)
    BY <2>1, HandlersGoOn DEF GoesOn, Goto, End
  <2>2. CASE Callback(k) \/ FinalizeExtension(k) \/ LinkCallback(k)
    BY <2>2 DEF Callback, FinalizeExtension, LinkCallback, Exchange, End
  <2>3. CASE Rotate(k) \/ IssueToken(k)
    BY <2>3 DEF Rotate, IssueToken
  <2>4. CASE ReadIdentity(k) \/ UpdateUser(k)
    BY <2>4 DEF ReadIdentity, UpdateUser, Goto, End
  <2>5. CASE CreateUser(k)
    BY <2>5 DEF CreateUser, End
  <2> QED
    BY <1>1, <2>1, <2>2, <2>3, <2>4, <2>5 DEF Handler
<1>2. ASSUME NEW c, Begin(c)
      PROVE  \E k \in Slots : /\ \A j \in Slots \ {k} : calls'[j] = calls[j]
                              /\ calls[k].at = "free"
  BY <1>2 DEF Begin, Under
<1>3. CASE \E k \in Slots : Handler(k) \/ LoseCall(k)
  BY <1>1, <1>3
<1>4. CASE \E p \in Pages : Refresh(p) \/ \E i \in Idents : SignIn(p, i) \/ StartLink(p, i)
  <2>1. \E c : Begin(c)
    BY <1>4 DEF Refresh, SignIn, StartLink
  <2> QED
    BY <2>1, <1>2
<1>5. CASE (\E i \in Idents : SignInPkce(i)) \/ UseApiKey \/ LoadSettings
  <2>1. \E c : Begin(c)
    BY <1>5 DEF SignInPkce, UseApiKey, LoadSettings
  <2> QED
    BY <2>1, <1>2
<1>6. CASE \E l \in Lockouts : CounterExpires(l) \/ BlockExpires(l)
  BY <1>6 DEF CounterExpires, BlockExpires
<1>7. CASE (\E a \in Apps : Logout(a)) \/ \E t \in DOMAIN sessions : Expire(t)
  BY <1>7 DEF Logout, Expire
<1>8. CASE \E i \in Idents, e \in Mails : ChangeMail(i, e)
  BY <1>8 DEF ChangeMail
<1> QED
  BY <1>3, <1>4, <1>5, <1>6, <1>7, <1>8 DEF Next

\* The place of a call that a handler takes further.
LEMMA HandlerAt ==
  ASSUME NEW k \in Slots, Handler(k) \/ LoseCall(k)
  PROVE  /\ calls[k].at = "ttl" => SetExpiry(k)
         /\ calls[k].at = "rotate" => Rotate(k)
         /\ calls[k].at = "look" => Look(k)
  BY DEF Handler, LoseCall, Ask, Look, Rotate, ClearFailures, CountFailure, SetExpiry, Block,
     Granted, Verify, Refused, NoAnswer, Callback, FinalizeExtension, LinkCallback, ReadIdentity,
     UpdateUser, CreateUser, IssueToken, Land, TakeTokens, ReadLink, AddLink, SaveSettings

-----------------------------------------------------------------------------
\* CounterHasExpiry

Waiting(l) == \E k \in Slots : calls[k].at = "ttl" /\ LockoutOf(k) = l

\* A call that is to set the expiry waits until it is touched.
LEMMA WaitingStays ==
  ASSUME NEW l, \A k \in Slots : (calls[k].at = "ttl" /\ LockoutOf(k) = l) => calls'[k] = calls[k],
         Waiting(l)
  PROVE  Waiting(l)'
  BY DEF Waiting, LockoutOf, AppOf

\* A counter that is not zero has its expiry or the call that sets it: the one that counts
\* from zero is that call, and only SetExpiry and a crash end it.
LEMMA CounterKept ==
  ASSUME CounterTypes, CallTypes, CounterHasExpiry, Next
  PROVE  CounterTypes' /\ CounterHasExpiry'
<1>1. \A k \in Slots : LockoutOf(k) \in Lockouts
  BY LockoutIsLockout
<1>2. \A l \in Lockouts \ orphan : fails[l] = 0 \/ ttl[l] \/ Waiting(l)
  BY DEF CounterHasExpiry, Waiting
<1>3. MaxFails \in Nat
  BY AuthBounds
<1> USE DEF CounterTypes
<1>4. ASSUME UNCHANGED <<fails, ttl, orphan>>, blocked' \in [Lockouts -> BOOLEAN],
             \A k \in Slots : calls[k].at = "ttl" => calls'[k] = calls[k]
      PROVE  CounterTypes' /\ CounterHasExpiry'
  <2>1. \A l \in Lockouts : Waiting(l) => Waiting(l)'
    BY <1>4, WaitingStays
  <2> QED
    BY <1>2, <1>4, <2>1 DEF CounterHasExpiry, Waiting
<1>5. ASSUME NEW k \in Slots, ClearFailures(k) PROVE CounterTypes' /\ CounterHasExpiry'
  <2>1. \A j \in Slots : calls[j].at = "ttl" => calls'[j] = calls[j]
    BY <1>5 DEF ClearFailures, Goto, CallTypes
  <2>2. \A l \in Lockouts : Waiting(l) => Waiting(l)'
    BY <2>1, WaitingStays
  <2>3. "refresh" \in Lockouts /\ 0 \in 0 .. MaxFails
    BY <1>3 DEF Lockouts
  <2>4. /\ fails' = fails \/ fails' = [fails EXCEPT !["refresh"] = 0]
        /\ (fails' = fails /\ ttl' = ttl) \/ (/\ fails' = [fails EXCEPT !["refresh"] = 0]
                                              /\ ttl' = [ttl EXCEPT !["refresh"] = FALSE])
        /\ UNCHANGED <<blocked, orphan>>
    BY <1>5 DEF ClearFailures
  <2> QED
    BY <1>2, <2>2, <2>3, <2>4 DEF CounterHasExpiry, Waiting
<1>6. ASSUME NEW k \in Slots, CountFailure(k) PROVE CounterTypes' /\ CounterHasExpiry'
  <2> DEFINE L == LockoutOf(k)
             n == fails[L] + 1
             m == IF n > MaxFails THEN MaxFails ELSE n
  <2>1. \A j \in Slots : calls[j].at = "ttl" => calls'[j] = calls[j]
    BY <1>6 DEF CountFailure, Goto, CallTypes
  <2>2. \A l \in Lockouts : Waiting(l) => Waiting(l)'
    BY <2>1, WaitingStays
  <2>3. L \in Lockouts /\ fails[L] \in 0 .. MaxFails
    BY <1>1
  <2>4. UNCHANGED <<ttl, blocked, orphan>>
    BY <1>6 DEF CountFailure
  <2>5. CASE fails' = fails
    BY <1>2, <2>2, <2>4, <2>5 DEF CounterHasExpiry, Waiting
  <2>6. CASE fails' # fails
    <3>1. fails' = [fails EXCEPT ![L] = m]
          /\ Goto(k, IF FirstFailure(n) THEN "ttl" ELSE AfterCount(n))
      BY <1>6, <2>6 DEF CountFailure
    <3>2. m \in 0 .. MaxFails
      BY <1>3, <2>3
    <3>3. fails' \in [Lockouts -> 0 .. MaxFails]
          /\ \A l \in Lockouts \ {L} : fails'[l] = fails[l]
      BY <2>3, <3>1, <3>2
    <3>4. CASE fails[L] = 0
      <4>1. Goto(k, "ttl")
        BY <3>1, <3>4 DEF FirstFailure
      <4>2. calls'[k].at = "ttl" /\ calls'[k].page = calls[k].page
        BY <4>1 DEF Goto, CallTypes, Call
      <4>3. calls'[k].at = "ttl" /\ LockoutOf(k)' = L
        BY <4>2 DEF LockoutOf, AppOf
      <4> QED
        BY <1>2, <2>2, <2>4, <3>3, <4>3 DEF CounterHasExpiry, Waiting
    <3>5. CASE fails[L] # 0
      BY <1>2, <2>2, <2>4, <3>3, <3>5 DEF CounterHasExpiry, Waiting
    <3> QED
      BY <3>4, <3>5
  <2> QED
    BY <2>5, <2>6
<1>7. ASSUME NEW k \in Slots, SetExpiry(k) PROVE CounterTypes' /\ CounterHasExpiry'
  <2> DEFINE L == LockoutOf(k)
  <2>1. \A l \in Lockouts \ {L} : Waiting(l) => Waiting(l)'
    <3>1. \A j \in Slots \ {k} : calls'[j] = calls[j]
      BY <1>7 DEF SetExpiry, Goto, CallTypes
    <3> QED
      BY <3>1, WaitingStays
  <2>2. L \in Lockouts
    BY <1>1
  <2>3. UNCHANGED <<fails, blocked>>
        /\ \/ ttl' = [ttl EXCEPT ![L] = fails[L] > 0] /\ orphan' = orphan
           \/ orphan' = orphan \cup {L} /\ ttl' = ttl
    BY <1>7 DEF SetExpiry
  <2>4. CASE ttl' = [ttl EXCEPT ![L] = fails[L] > 0] /\ orphan' = orphan
    <3>1. ttl' \in [Lockouts -> BOOLEAN] /\ ttl'[L] = (fails[L] > 0)
          /\ \A l \in Lockouts \ {L} : ttl'[l] = ttl[l]
      BY <2>2, <2>4
    <3>2. fails'[L] = 0 \/ ttl'[L]
      BY <1>3, <2>2, <2>3, <3>1
    <3> QED
      BY <1>2, <2>1, <2>3, <2>4, <3>1, <3>2 DEF CounterHasExpiry, Waiting
  <2>5. CASE orphan' = orphan \cup {L} /\ ttl' = ttl
    BY <1>2, <2>1, <2>2, <2>3, <2>5 DEF CounterHasExpiry, Waiting
  <2> QED
    BY <2>3, <2>4, <2>5
<1>8. ASSUME NEW k \in Slots, Block(k) PROVE CounterTypes' /\ CounterHasExpiry'
  <2>1. \A j \in Slots : calls[j].at = "ttl" => calls'[j] = calls[j]
    BY <1>8 DEF Block, Goto, CallTypes
  <2>2. blocked' \in [Lockouts -> BOOLEAN] /\ UNCHANGED <<fails, ttl, orphan>>
    BY <1>8 DEF Block
  <2> QED
    BY <1>4, <2>1, <2>2
<1>9. ASSUME NEW l \in Lockouts, CounterExpires(l) PROVE CounterTypes' /\ CounterHasExpiry'
  <2>1. \A j \in Lockouts : Waiting(j) => Waiting(j)'
    BY <1>9, WaitingStays DEF CounterExpires
  <2>2. 0 \in 0 .. MaxFails
    BY <1>3
  <2>3. /\ ttl' = [ttl EXCEPT ![l] = FALSE] /\ fails' = [fails EXCEPT ![l] = 0]
        /\ UNCHANGED <<blocked, orphan>>
    BY <1>9 DEF CounterExpires
  <2> QED
    BY <1>2, <2>1, <2>2, <2>3 DEF CounterHasExpiry, Waiting
<1>10. ASSUME NEW l \in Lockouts, BlockExpires(l) PROVE CounterTypes' /\ CounterHasExpiry'
  <2>1. blocked' \in [Lockouts -> BOOLEAN] /\ UNCHANGED <<fails, ttl, orphan, calls>>
    BY <1>10 DEF BlockExpires
  <2> QED
    BY <1>4, <2>1
<1>11. CASE Crash
  <2>1. UNCHANGED <<fails, ttl, blocked>>
        /\ orphan' = orphan \cup {LockoutOf(k) : k \in {j \in Slots : calls[j].at = "ttl"}}
    BY <1>11 DEF Crash, counterVars
  <2>2. orphan' \subseteq Lockouts /\ \A l \in Lockouts \ orphan' : ~Waiting(l)
    BY <1>1, <2>1 DEF Waiting
  <2> QED
    BY <1>2, <2>1, <2>2 DEF CounterHasExpiry
<1>12. CASE ~Crash /\ UNCHANGED <<counterVars, orphan>>
  <2>1. CASE \E k \in Slots : SetExpiry(k)
    BY <1>7, <2>1
  <2>2. CASE ~\E k \in Slots : SetExpiry(k)
    <3>1. \A k \in Slots : calls[k].at = "ttl" => calls'[k] = calls[k]
      BY <1>12, <2>2, Touched, HandlerAt
    <3> QED
      BY <1>4, <1>12, <3>1 DEF counterVars
  <2> QED
    BY <2>1, <2>2
<1> QED
  BY <1>5, <1>6, <1>7, <1>8, <1>9, <1>10, <1>11, <1>12, Frames DEF CounterStep

-----------------------------------------------------------------------------
\* OneLivePerSignIn

Rotation == OneRotates /\ RotatesTheLiveOne /\ OneLivePerSignIn

\* A call that is about to rotate is for a token of a sign-in.
LEMMA RotatingToken ==
  ASSUME AccountTypes, SessionTypes, CallsFit, NEW k \in Slots, Rotating(k)
  PROVE  calls[k].tok \in DOMAIN sessions /\ Root(k) \in DOMAIN sessions
<1>1. calls[k].tok \in DOMAIN sessions
  BY DEF Rotating, CallsFit, Fits
<1> QED
  BY <1>1, TokenFields DEF Root

\* A step after which nobody rotates who did not before, and that adds no token but the
\* first one of a sign-in.
LEMMA Quiet ==
  ASSUME AccountTypes, SessionTypes, CallsFit, SessionsGrow, Rotation, raced \subseteq raced',
         \A k \in Slots : Rotating(k)' => Rotating(k) /\ calls'[k] = calls[k],
         \A t \in DOMAIN sessions' : t \in DOMAIN sessions \/ (t = New /\ sessions'[t].root = New)
  PROVE  Rotation'
<1>1. New \notin DOMAIN sessions
  BY DEF SessionTypes, New
<1>2. ASSUME NEW k \in Slots, Rotating(k)'
      PROVE  /\ Rotating(k) /\ calls'[k].tok = calls[k].tok /\ Root(k)' = Root(k)
             /\ Root(k) \in DOMAIN sessions
  BY <1>2, RotatingToken DEF Root, SessionsGrow
<1>3. \A t \in DOMAIN sessions : sessions[t].root \in DOMAIN sessions
  BY TokenFields
<1>4. ASSUME NEW t \in DOMAIN sessions', sessions'[t].live, sessions'[t].root \in DOMAIN sessions
      PROVE  /\ t \in DOMAIN sessions /\ sessions[t].live
             /\ sessions'[t].root = sessions[t].root
  BY <1>1, <1>4 DEF SessionsGrow
<1>5. OneRotates'
  BY <1>2 DEF Rotation, OneRotates
<1>6. RotatesTheLiveOne'
  BY <1>2, <1>4 DEF Rotation, RotatesTheLiveOne
<1>7. OneLivePerSignIn'
  <2> SUFFICES ASSUME NEW s \in DOMAIN sessions', NEW t \in DOMAIN sessions',
                      sessions'[s].live, sessions'[t].live, sessions'[s].root = sessions'[t].root,
                      s # t
               PROVE  sessions'[s].root \in raced'
    BY DEF OneLivePerSignIn
  <2>1. s \in DOMAIN sessions \/ t \in DOMAIN sessions
    OBVIOUS
  <2>2. sessions'[s].root \in DOMAIN sessions
    BY <1>3, <2>1 DEF SessionsGrow
  <2> QED
    BY <1>4, <2>2 DEF Rotation, OneLivePerSignIn
<1> QED
  BY <1>5, <1>6, <1>7 DEF Rotation

\* The row is read: whoever else is about to rotate a token of the sign-in read the same
\* row, and then the sign-in is raced.
LEMMA LookKept ==
  ASSUME AccountTypes, SessionTypes, CallTypes, CallsFit, SessionsGrow, Rotation,
         NEW k \in Slots, Look(k)
  PROVE  Rotation'
<1> DEFINE t == calls[k].tok
<1>1. sessions' = sessions /\ raced \subseteq raced' /\ calls[k].at = "look"
  BY DEF Look
<1>2. CASE calls[k].at = "look" /\ (Goto(k, "count") \/ End(k))
  <2>1. \A j \in Slots : Rotating(j)' => Rotating(j) /\ calls'[j] = calls[j]
    BY <1>2 DEF Rotating, Goto, End, Free, CallTypes, Call
  <2> QED
    BY <1>1, <2>1, Quiet
<1>3. CASE ~(Goto(k, "count") \/ End(k))
  <2>1. /\ AppOf(k) # "cli" /\ sessions[t].live /\ Goto(k, "rotate")
        /\ (\E j \in Slots \ {k} : Rotating(j) /\ calls[j].tok = t) => sessions[t].root \in raced'
    BY <1>3 DEF Look, Rotating
  <2>2. t \in DOMAIN sessions
    BY <1>1, <2>1 DEF CallsFit, Fits, AppOf
  <2>3. \A j \in Slots \ {k} : calls'[j] = calls[j]
    BY <2>1 DEF Goto, CallTypes
  <2>4. calls'[k].tok = t
    BY <2>1 DEF Goto, CallTypes, Call
  <2>5. /\ Root(k)' = sessions[t].root
        /\ \A j \in Slots \ {k} : Root(j)' = Root(j) /\ (Rotating(j)' => Rotating(j))
    BY <1>1, <2>3, <2>4 DEF Root, Rotating
  <2>6. ASSUME NEW j \in Slots \ {k}, Rotating(j), Root(j) = sessions[t].root
        PROVE  Root(j) \in raced'
    BY <1>1, <2>1, <2>2, <2>6 DEF Rotation, RotatesTheLiveOne
  <2>7. OneRotates'
    BY <1>1, <2>5, <2>6 DEF Rotation, OneRotates
  <2>8. RotatesTheLiveOne'
    <3> SUFFICES ASSUME NEW j \in Slots, Rotating(j)', Root(j)' \notin raced',
                        NEW s \in DOMAIN sessions, sessions[s].live, sessions[s].root = Root(j)'
                 PROVE  s = calls'[j].tok
      BY <1>1 DEF RotatesTheLiveOne
    <3>1. CASE j = k
      BY <1>1, <2>1, <2>2, <2>4, <2>5, <3>1 DEF Rotation, OneLivePerSignIn
    <3>2. CASE j # k
      BY <1>1, <2>3, <2>5, <3>2 DEF Rotation, RotatesTheLiveOne
    <3> QED
      BY <3>1, <3>2
  <2>9. OneLivePerSignIn'
    BY <1>1 DEF Rotation, OneLivePerSignIn
  <2> QED
    BY <2>7, <2>8, <2>9 DEF Rotation
<1> QED
  BY <1>1, <1>2, <1>3

\* The row is replaced: nobody else rotates a token of the sign-in, or it is raced.
LEMMA RotateKept ==
  ASSUME AccountTypes, SessionTypes, CallTypes, CallsFit, SessionsGrow, Rotation,
         NEW k \in Slots, Rotate(k)
  PROVE  Rotation'
<1> DEFINE t == calls[k].tok
<1>1. /\ t \in DOMAIN sessions /\ New \notin DOMAIN sessions
      /\ DOMAIN sessions' = DOMAIN sessions \cup {New}
      /\ \A s \in DOMAIN sessions : s # t => sessions'[s] = sessions[s]
  BY Rotated
<1>2. ~sessions'[t].live /\ sessions'[New].root = Root(k)
  <2>1. sessions[t] \in Session
    BY <1>1, TokenFields
  <2>2. /\ sessions'[t] = [sessions[t] EXCEPT !.live = FALSE]
        /\ sessions'[New] = [sessions[t] EXCEPT !.live = TRUE]
    BY Rotated
  <2> QED
    BY <2>1, <2>2 DEF Session, Root
<1>3. /\ raced' = raced /\ Rotating(k)
      /\ calls' = [calls EXCEPT ![k].at = "clear", ![k].tok = New]
  BY DEF Rotate, New, Rotating
<1>4. calls'[k].at = "clear" /\ \A j \in Slots \ {k} : calls'[j] = calls[j]
  BY <1>3 DEF CallTypes, Call
<1>5. ASSUME NEW j \in Slots, Rotating(j)'
      PROVE  /\ j # k /\ Rotating(j) /\ calls'[j].tok = calls[j].tok /\ Root(j)' = Root(j)
             /\ Root(j) \in raced \/ Root(j) # Root(k)
  <2>1. j # k /\ Rotating(j) /\ calls'[j] = calls[j]
    BY <1>4, <1>5 DEF Rotating
  <2>2. Root(j)' = Root(j)
    BY <2>1, RotatingToken DEF Root, SessionsGrow
  <2>3. Root(j) \in raced \/ Root(j) # Root(k)
    BY <1>3, <2>1 DEF Rotation, OneRotates
  <2> QED
    BY <2>1, <2>2, <2>3
<1>6. ASSUME NEW s \in DOMAIN sessions', sessions'[s].live
      PROVE  \/ s = New /\ sessions'[s].root = Root(k)
             \/ /\ s \in DOMAIN sessions /\ s # t /\ sessions[s].live
                /\ sessions'[s].root = sessions[s].root
  BY <1>1, <1>2, <1>6
<1>7. OneRotates'
  BY <1>3, <1>5 DEF Rotation, OneRotates
<1>8. RotatesTheLiveOne'
  <2> SUFFICES ASSUME NEW j \in Slots, Rotating(j)', Root(j)' \notin raced',
                      NEW s \in DOMAIN sessions', sessions'[s].live, sessions'[s].root = Root(j)'
               PROVE  s = calls'[j].tok
    BY DEF RotatesTheLiveOne
  <2>1. /\ Rotating(j) /\ calls'[j].tok = calls[j].tok /\ Root(j)' = Root(j)
        /\ Root(j) \notin raced /\ Root(j) # Root(k)
    BY <1>3, <1>5
  <2>2. s \in DOMAIN sessions /\ sessions[s].live /\ sessions[s].root = Root(j)
    BY <1>6, <2>1
  <2> QED
    BY <2>1, <2>2 DEF Rotation, RotatesTheLiveOne
<1>9. OneLivePerSignIn'
  <2>1. ASSUME NEW s \in DOMAIN sessions, s # t, sessions[s].live, sessions[s].root = Root(k)
        PROVE  Root(k) \in raced
    BY <1>3, <2>1 DEF Rotation, RotatesTheLiveOne
  <2>2. ASSUME NEW s \in DOMAIN sessions', NEW r \in DOMAIN sessions', sessions'[s].live,
               sessions'[r].live, sessions'[s].root = sessions'[r].root, s # r
        PROVE  sessions'[s].root \in raced
    BY <1>6, <2>1, <2>2 DEF Rotation, OneLivePerSignIn
  <2> QED
    BY <1>3, <2>2 DEF OneLivePerSignIn
<1> QED
  BY <1>7, <1>8, <1>9 DEF Rotation

\* Only a call that reads the row goes on to rotate it.
LEMMA NobodyElseRotates ==
  ASSUME CallTypes, Next, \A k \in Slots : ~Look(k)
  PROVE  \A k \in Slots : calls'[k].at = "rotate" => calls'[k] = calls[k]
<1> USE DEF CallTypes
<1>1. ASSUME NEW k \in Slots, NEW l, l # "rotate", Goto(k, l)
      PROVE  \A j \in Slots : calls'[j].at = "rotate" => calls'[j] = calls[j]
  BY <1>1 DEF Goto, Call
<1>2. ASSUME NEW k \in Slots, End(k)
      PROVE  \A j \in Slots : calls'[j].at = "rotate" => calls'[j] = calls[j]
  BY <1>2 DEF End, Free
<1>3. ASSUME NEW c, c.at # "rotate", Begin(c)
      PROVE  \A j \in Slots : calls'[j].at = "rotate" => calls'[j] = calls[j]
  BY <1>3 DEF Begin
<1>4. ASSUME NEW k \in Slots, Handler(k)
      PROVE  \A j \in Slots : calls'[j].at = "rotate" => calls'[j] = calls[j]
  <2>1. CASE Ask(k)
    BY <1>1, <2>1 DEF Ask
  <2>2. CASE ClearFailures(k) \/ SetExpiry(k) \/ Block(k)
    BY <1>1, <2>2 DEF ClearFailures, SetExpiry, Block, AfterCount
  <2>3. CASE CountFailure(k)
    <3>1. \E l \in {"ttl", "block", "refused"} : Goto(k, l)
      BY <2>3 DEF CountFailure, AfterCount
    <3> QED
      BY <1>1, <3>1
  <2>4. CASE Granted(k) \/ Verify(k) \/ Refused(k) \/ NoAnswer(k) \/ SaveSettings(k)
    BY <1>1, <1>2, <2>4 DEF Granted, Verify, Refused, NoAnswer, SaveSettings
  <2>5. CASE Land(k) \/ TakeTokens(k) \/ ReadLink(k) \/ AddLink(k)
    BY <1>1, <1>2, <2>5 DEF Land, TakeTokens, ReadLink, AddLink
  <2>6. CASE Callback(k) \/ FinalizeExtension(k) \/ LinkCallback(k)
    <3>1. End(k) \/ \E l \in {"read", "linkread"} : \E a : Exchange(k, l, a)
      BY <2>6 DEF Callback, FinalizeExtension, LinkCallback
    <3>2. ASSUME NEW l \in {"read", "linkread"}, NEW a, Exchange(k, l, a)
          PROVE  calls'[k].at # "rotate" /\ \A j \in Slots \ {k} : calls'[j] = calls[j]
      BY <3>2 DEF Exchange, Call
    <3> QED
      BY <1>2, <3>1, <3>2
  <2>7. CASE Rotate(k) \/ IssueToken(k)
    BY <2>7 DEF Rotate, IssueToken, Call
  <2>8. CASE ReadIdentity(k)
    BY <1>1, <1>2, <2>8 DEF ReadIdentity, Call
  <2>9. CASE UpdateUser(k)
    BY <1>1, <1>2, <2>9 DEF UpdateUser
  <2>10. CASE CreateUser(k)
    BY <1>2, <2>10 DEF CreateUser, Call
  <2> QED
    BY <1>4, <2>1, <2>2, <2>3, <2>4, <2>5, <2>6, <2>7, <2>8, <2>9, <2>10 DEF Handler
<1>5. ASSUME NEW k \in Slots, LoseCall(k)
      PROVE  \A j \in Slots : calls'[j].at = "rotate" => calls'[j] = calls[j]
  BY <1>1, <1>5 DEF LoseCall
<1>6. ASSUME \/ \E p \in Pages : Refresh(p) \/ \E i \in Idents : SignIn(p, i) \/ StartLink(p, i)
             \/ (\E i \in Idents : SignInPkce(i)) \/ UseApiKey \/ LoadSettings
      PROVE  \A j \in Slots : calls'[j].at = "rotate" => calls'[j] = calls[j]
  <2>1. \E c : c.at # "rotate" /\ Begin(c)
    BY <1>6 DEF Refresh, SignIn, StartLink, SignInPkce, UseApiKey, LoadSettings, Free
  <2> QED
    BY <1>3, <2>1
<1>7. CASE Crash
  <2>1. \A k \in Slots : \/ calls'[k] = calls[k] /\ calls[k].at \notin Refreshing
                         \/ calls'[k].at \in {"error", "free"}
    BY <1>7 DEF Crash, Free, Call
  <2> QED
    BY <2>1
<1>8. ASSUME \/ \E l \in Lockouts : CounterExpires(l) \/ BlockExpires(l)
             \/ \E a \in Apps : Logout(a)
             \/ \E t \in DOMAIN sessions : Expire(t)
             \/ \E i \in Idents, e \in Mails : ChangeMail(i, e)
      PROVE  calls' = calls
  BY <1>8 DEF CounterExpires, BlockExpires, Logout, Expire, ChangeMail
<1> QED
  BY <1>4, <1>5, <1>6, <1>7, <1>8 DEF Next

\* Every step keeps the three parts: the read, the rotation, and all others, which are quiet.
LEMMA RotationKept ==
  ASSUME AccountTypes, SessionTypes, CallTypes, CallsFit, Rotation, Next
  PROVE  Rotation'
<1>1. SessionsGrow
  BY SessionsKept
<1>2. CASE \E k \in Slots : Look(k) \/ Rotate(k)
  BY <1>1, <1>2, LookKept, RotateKept
<1>3. CASE ~\E k \in Slots : Look(k) \/ Rotate(k)
  <2>1. raced' = raced
    <3>1. ASSUME NEW k \in Slots, Handler(k) PROVE raced' = raced
      <4>1. CASE Ask(k) \/ ClearFailures(k) \/ CountFailure(k) \/ SetExpiry(k) \/ Block(k)
                 \/ Granted(k) \/ Verify(k) \/ Refused(k) \/ NoAnswer(k) \/ SaveSettings(k)
        BY <4>1 DEF Ask, ClearFailures, CountFailure, SetExpiry, Block, Granted, Verify, Refused,
           NoAnswer, SaveSettings
      <4>2. CASE Callback(k) \/ FinalizeExtension(k) \/ LinkCallback(k) \/ ReadIdentity(k)
                 \/ UpdateUser(k) \/ CreateUser(k) \/ IssueToken(k) \/ Land(k) \/ TakeTokens(k)
                 \/ ReadLink(k) \/ AddLink(k)
        BY <4>2 DEF Callback, FinalizeExtension, LinkCallback, ReadIdentity, UpdateUser,
           CreateUser, IssueToken, Land, TakeTokens, ReadLink, AddLink
      <4> QED
        BY <1>3, <3>1, <4>1, <4>2 DEF Handler
    <3>2. ASSUME \/ \E k \in Slots : LoseCall(k)
                 \/ \E p \in Pages : Refresh(p) \/ \E i \in Idents : SignIn(p, i) \/ StartLink(p, i)
                 \/ (\E i \in Idents : SignInPkce(i)) \/ UseApiKey \/ LoadSettings \/ Crash
          PROVE  raced' = raced
      BY <3>2 DEF LoseCall, Refresh, SignIn, StartLink, SignInPkce, UseApiKey, LoadSettings, Crash
    <3>3. ASSUME \/ \E l \in Lockouts : CounterExpires(l) \/ BlockExpires(l)
                 \/ \E a \in Apps : Logout(a)
                 \/ \E t \in DOMAIN sessions : Expire(t)
                 \/ \E i \in Idents, e \in Mails : ChangeMail(i, e)
          PROVE  raced' = raced
      BY <3>3 DEF CounterExpires, BlockExpires, Logout, Expire, ChangeMail
    <3> QED
      BY <3>1, <3>2, <3>3 DEF Next
  <2>2. \A k \in Slots : Rotating(k)' => Rotating(k) /\ calls'[k] = calls[k]
    BY <1>3, NobodyElseRotates DEF Rotating
  <2>3. \A t \in DOMAIN sessions' : t \in DOMAIN sessions \/ (t = New /\ sessions'[t].root = New)
    <3>1. CASE sessions' = sessions
      BY <3>1
    <3>2. ASSUME NEW k \in Slots, IssueToken(k)
          PROVE  \A t \in DOMAIN sessions' :
                   t \in DOMAIN sessions \/ (t = New /\ sessions'[t].root = New)
      <4>1. /\ DOMAIN sessions' = DOMAIN sessions \cup {New}
            /\ sessions'[New] = [user |-> calls[k].user, by |-> calls[k].ident, root |-> New,
                                live |-> TRUE]
        BY <3>2, Issued
      <4>2. sessions'[New].root = New
        BY <4>1
      <4> QED
        BY <4>1, <4>2
    <3>3. ASSUME NEW t \in DOMAIN sessions, Expire(t) PROVE DOMAIN sessions' = DOMAIN sessions
      BY <3>3, Expired
    <3> QED
      BY <1>3, <3>1, <3>2, <3>3, Frames DEF SessionStep
  <2> QED
    BY <1>1, <2>1, <2>2, <2>3, Quiet
<1> QED
  BY <1>2, <1>3

-----------------------------------------------------------------------------
\* The rest of the types

\* A flag that is set by a condition is a flag.
LEMMA DisturbTypes ==
  ASSUME disturbed \in [Apps -> BOOLEAN], NEW a, NEW b, Disturb(a, b)
  PROVE  disturbed' \in [Apps -> BOOLEAN]
<1>1. (disturbed[a] \/ b) \in BOOLEAN
  OBVIOUS
<1> QED
  BY <1>1 DEF Disturb

\* The history of an application has the type of its flags.
LEMMA HistoryKept ==
  ASSUME AccountTypes, SessionTypes, CallTypes, CallsFit, HistoryTypes, Next
  PROVE  HistoryTypes'
<1>1. DOMAIN sessions \subseteq DOMAIN sessions'
  BY SessionsKept DEF SessionsGrow
<1> USE DEF HistoryTypes
<1>2. ASSUME NEW k \in Slots, Look(k) PROVE HistoryTypes'
  <2>1. UNCHANGED <<signed, disturbed, sessions>>
    BY <1>2 DEF Look, pageVars
  <2>2. raced' = raced \/ (/\ AppOf(k) # "cli" /\ raced' = raced \cup {sessions[calls[k].tok].root})
    BY <1>2 DEF Look
  <2>3. AppOf(k) # "cli" => calls[k].tok \in DOMAIN sessions
    BY <1>2 DEF Look, CallsFit, Fits, AppOf
  <2>4. raced' \subseteq DOMAIN sessions
    BY <2>2, <2>3, TokenFields
  <2> QED
    BY <2>1, <2>4
<1>3. ASSUME raced' = raced, UNCHANGED signed, (\E a, b : Disturb(a, b)) \/ disturbed' = disturbed
      PROVE  HistoryTypes'
  <2>1. disturbed' \in [Apps -> BOOLEAN]
    BY <1>3, DisturbTypes
  <2> QED
    BY <1>1, <1>3, <2>1
<1>4. ASSUME NEW k \in Slots, Handler(k) PROVE HistoryTypes'
  <2>1. CASE Ask(k) \/ Verify(k)
    BY <1>3, <2>1 DEF Ask, Verify
  <2>2. CASE \/ ClearFailures(k) \/ CountFailure(k) \/ SetExpiry(k) \/ Block(k)
             \/ Granted(k) \/ Refused(k) \/ NoAnswer(k) \/ SaveSettings(k)
    BY <1>3, <2>2 DEF ClearFailures, CountFailure, SetExpiry, Block, Granted, Refused, NoAnswer,
       SaveSettings, pageVars
  <2>3. CASE \/ Callback(k) \/ FinalizeExtension(k) \/ LinkCallback(k) \/ ReadIdentity(k)
             \/ UpdateUser(k) \/ CreateUser(k) \/ Rotate(k) \/ IssueToken(k) \/ Land(k)
             \/ ReadLink(k) \/ AddLink(k)
    BY <1>3, <2>3 DEF Callback, FinalizeExtension, LinkCallback, ReadIdentity, UpdateUser,
       CreateUser, Rotate, IssueToken, Land, ReadLink, AddLink, pageVars
  <2>4. CASE TakeTokens(k)
    <3> DEFINE a == calls[k].client
               crossed == ~sessions[calls[k].tok].live
                          \/ \E j \in Slots \ {k} : Under(j) /\ AppOf(j) = a
    <3>1. /\ raced' = raced /\ signed' = [signed EXCEPT ![a] = TRUE]
          /\ disturbed' = [disturbed EXCEPT ![a] = crossed]
      BY <2>4 DEF TakeTokens
    <3>2. crossed \in BOOLEAN
      OBVIOUS
    <3> HIDE DEF crossed, a
    <3>3. signed' \in [Apps -> BOOLEAN] /\ disturbed' \in [Apps -> BOOLEAN]
      BY <3>1, <3>2
    <3> QED
      BY <1>1, <3>1, <3>3
  <2> QED
    BY <1>2, <1>4, <2>1, <2>2, <2>3, <2>4 DEF Handler
<1>5. ASSUME \/ \E k \in Slots : LoseCall(k)
             \/ \E p \in Pages : Refresh(p) \/ \E i \in Idents : SignIn(p, i) \/ StartLink(p, i)
             \/ (\E i \in Idents : SignInPkce(i)) \/ LoadSettings
      PROVE  HistoryTypes'
  BY <1>3, <1>5 DEF LoseCall, Refresh, SignIn, StartLink, SignInPkce, LoadSettings
<1>6. ASSUME \/ UseApiKey
             \/ \E l \in Lockouts : CounterExpires(l) \/ BlockExpires(l)
             \/ \E i \in Idents, e \in Mails : ChangeMail(i, e)
      PROVE  HistoryTypes'
  BY <1>3, <1>6 DEF UseApiKey, CounterExpires, BlockExpires, ChangeMail, pageVars
<1>7. ASSUME NEW a \in Apps, Logout(a) PROVE HistoryTypes'
  <2>1. disturbed' \in [Apps -> BOOLEAN]
    BY <1>7, DisturbTypes DEF Logout
  <2>2. raced' = raced /\ signed' = [signed EXCEPT ![a] = FALSE]
    BY <1>7 DEF Logout
  <2>3. signed' \in [Apps -> BOOLEAN]
    BY <2>2
  <2> QED
    BY <1>1, <2>1, <2>2, <2>3
<1>8. ASSUME NEW t \in DOMAIN sessions, Expire(t) PROVE HistoryTypes'
  <2>1. \A b, c, d : (b \/ c \/ d) \in BOOLEAN
    OBVIOUS
  <2>2. disturbed' \in [Apps -> BOOLEAN]
    BY <1>8, <2>1 DEF Expire
  <2> QED
    BY <1>1, <1>8, <2>2 DEF Expire
<1>9. CASE Crash
  <2>1. \A b, c : (b \/ c) \in BOOLEAN
    OBVIOUS
  <2>2. disturbed' \in [Apps -> BOOLEAN]
    BY <1>9, <2>1 DEF Crash
  <2> QED
    BY <1>1, <1>9, <2>2 DEF Crash
<1> QED
  BY <1>4, <1>5, <1>6, <1>7, <1>8, <1>9 DEF Next

\* An event is taken from the budget, or nothing is.
Spent == budget' = budget \/ (budget > 0 /\ budget' = budget - 1)

\* Every step takes one event from the budget or none.
LEMMA BudgetKept == ASSUME BudgetType, Next PROVE BudgetType'
<1> USE DEF Spent
<1>1. ASSUME NEW k \in Slots, Handler(k) PROVE Spent
  <2>1. CASE Ask(k) \/ Look(k) \/ Rotate(k) \/ ClearFailures(k) \/ CountFailure(k)
             \/ SetExpiry(k) \/ Block(k)
    BY <2>1 DEF Ask, Look, Rotate, ClearFailures, CountFailure, SetExpiry, Block, Spend
  <2>2. CASE Granted(k) \/ Verify(k) \/ Refused(k) \/ NoAnswer(k) \/ SaveSettings(k)
    BY <2>2 DEF Granted, Verify, Refused, NoAnswer, SaveSettings, Spend
  <2>3. CASE Callback(k) \/ FinalizeExtension(k) \/ LinkCallback(k) \/ Land(k)
    BY <2>3 DEF Callback, FinalizeExtension, LinkCallback, Land, Spend
  <2>4. CASE ReadIdentity(k) \/ UpdateUser(k) \/ CreateUser(k) \/ IssueToken(k) \/ TakeTokens(k)
             \/ ReadLink(k) \/ AddLink(k)
    BY <2>4 DEF ReadIdentity, UpdateUser, CreateUser, IssueToken, TakeTokens, ReadLink, AddLink
  <2> QED
    BY <1>1, <2>1, <2>2, <2>3, <2>4 DEF Handler
<1>2. ASSUME \/ \E k \in Slots : LoseCall(k)
             \/ \E p \in Pages : Refresh(p) \/ \E i \in Idents : SignIn(p, i) \/ StartLink(p, i)
             \/ (\E i \in Idents : SignInPkce(i)) \/ UseApiKey \/ LoadSettings \/ Crash
      PROVE  Spent
  BY <1>2 DEF LoseCall, Refresh, SignIn, StartLink, SignInPkce, UseApiKey,
     LoadSettings, Crash, Spend
<1>3. ASSUME \/ \E l \in Lockouts : CounterExpires(l) \/ BlockExpires(l)
             \/ \E a \in Apps : Logout(a)
             \/ \E t \in DOMAIN sessions : Expire(t)
             \/ \E i \in Idents, e \in Mails : ChangeMail(i, e)
      PROVE  Spent
  BY <1>3 DEF CounterExpires, BlockExpires, Logout, Expire, ChangeMail, Spend
<1>4. Spent
  BY <1>1, <1>2, <1>3 DEF Next
<1> QED
  BY <1>4, AuthBounds DEF BudgetType

-----------------------------------------------------------------------------
\* The theorems

\* Every step keeps the invariant.
LEMMA StepKept == IInv /\ [Next]_vars => IInv'
<1> SUFFICES ASSUME IInv, [Next]_vars PROVE IInv'
  OBVIOUS
<1>1. /\ AccountTypes /\ SessionTypes /\ CounterTypes /\ StoreType /\ HistoryTypes /\ CallTypes
      /\ BudgetType /\ CallsFit /\ TokenOfOwner /\ CounterHasExpiry
      /\ Rotation
  BY DEF IInv, Rotation
<1>2. CASE UNCHANGED vars
  <2> USE <1>2 DEF vars, accountVars, counterVars, pageVars
  <2>1. AccountTypes' /\ CounterTypes' /\ StoreType' /\ HistoryTypes' /\ BudgetType'
    BY <1>1 DEF AccountTypes, CounterTypes, StoreType, HistoryTypes, BudgetType
  <2>2. SessionTypes' /\ CallTypes'
    BY <1>1 DEF SessionTypes, Session, CallTypes
  <2>3. CallsFit' /\ TokenOfOwner' /\ CounterHasExpiry'
    BY <1>1 DEF CallsFit, TokenOfOwner, CounterHasExpiry, LockoutOf, AppOf
  <2>4. OneRotates' /\ RotatesTheLiveOne' /\ OneLivePerSignIn'
    BY <1>1 DEF Rotation, OneRotates, RotatesTheLiveOne, OneLivePerSignIn, Rotating, Root
  <2> QED
    BY <2>1, <2>2, <2>3, <2>4 DEF IInv
<1>3. CASE Next
  <2>1. AccountTypes' /\ SessionTypes' /\ StoreType' /\ TokenOfOwner'
    BY <1>1, <1>3, AccountsKept, SessionsKept, StoreKept, TokensOwned
  <2>2. CallTypes' /\ CallsFit' /\ HistoryTypes'
    BY <1>1, <1>3, CallsKept, HistoryKept
  <2>3. CounterTypes' /\ CounterHasExpiry' /\ Rotation'
    BY <1>1, <1>3, CounterKept, RotationKept
  <2>4. BudgetType'
    BY <1>1, <1>3, BudgetKept
  <2> QED
    BY <2>1, <2>2, <2>3, <2>4 DEF IInv, Rotation
<1> QED
  BY <1>2, <1>3

\* Whatever the number of tabs, identities, addresses and requests under way, the invariant
\* holds in every state of the system.
THEOREM Invariance == Spec => []IInv
<1>1. Init => IInv
  BY Initially
<1>2. IInv /\ [Next]_vars => IInv'
  BY StepKept
<1> QED
  BY <1>1, <1>2, PTL DEF Spec

\* The state of accounts, sessions, counters, pages and requests keeps its type.
THEOREM TypeCorrect == Spec => []TypeOK
<1>1. IInv => TypeOK
  BY TypesAreTypeOK DEF IInv
<1> QED
  BY <1>1, Invariance, PTL

\* A refresh token dies with its rotation: one at most of a sign-in is live, unless one was
\* used twice at the same time (refresh_access_token reads the row without a lock).
THEOREM OneLive == Spec => []OneLivePerSignIn
<1>1. IInv => OneLivePerSignIn
  BY DEF IInv
<1> QED
  BY <1>1, Invariance, PTL

\* However sign-ins and links of an identity cross, a token is for the owner of the identity.
THEOREM TokensSafe == Spec => []TokenOfOwner
<1>1. IInv => TokenOfOwner
  BY DEF IInv
<1> QED
  BY <1>1, Invariance, PTL

\* A counter of failed attempts is forgotten after a while: INCR and EXPIRE are two calls,
\* and whatever comes between them the expiry is set, unless its call fails.
THEOREM CountersSafe == Spec => []CounterHasExpiry
<1>1. IInv => CounterHasExpiry
  BY DEF IInv
<1> QED
  BY <1>1, Invariance, PTL

-----------------------------------------------------------------------------
\* Who stays signed in. The invariant says who holds a refresh token, and what the calls of
\* an application may be at while nothing has disturbed it.

\* The application a call brings its token to: while a user signs in, the client of the
\* sign-in, which need not be the page that began it.
Carrier(k) == IF calls[k].at \in {"land", "landed"} THEN calls[k].client ELSE AppOf(k)

\* A refresh token is held by one application only, in its storage or by its calls.
Holds(a, t) == (a \in Apps /\ store[a] = t) \/ \E k \in Slots : calls[k].tok = t /\ Carrier(k) = a
OneHolder ==
  \A t \in DOMAIN sessions : \A a, b \in Apps \cup {None} : (Holds(a, t) /\ Holds(b, t)) => a = b

\* Settings are saved by the panel, and an API key is not rotated.
OwnPlace(k) ==
  /\ calls[k].at = "save" => AppOf(k) = "ext"
  /\ calls[k].at \in {"rotate", "clear", "granted", "verify"} => AppOf(k) # "cli"
OwnPlaces == \A k \in Slots : OwnPlace(k)

\* The storage of an application agrees with what its user did; or the token that it will
\* hold is on its way.
Settled(a) == IF signed[a] THEN store[a] # 0 /\ sessions[store[a]].live ELSE store[a] = 0
Renewing(k) == calls[k].at \in {"clear", "granted"}
Renews(a) == \E k \in Slots : Renewing(k) /\ AppOf(k) = a

\* The call of an application that is not disturbed: it is alone, it uses the token that
\* is stored, and it will not be refused.
Alone(a) ==
  \A j, k \in Slots : (Under(j) /\ Under(k) /\ AppOf(j) = a /\ AppOf(k) = a) => j = k
Fine(k) ==
  /\ calls[k].at \notin {"count", "ttl", "block", "refused", "error"}
  /\ calls[k].at \in {"ask", "look", "rotate", "verify"}
       => calls[k].tok = store[AppOf(k)] /\ store[AppOf(k)] # 0
  /\ calls[k].at = "save" => calls[k].tok = store[AppOf(k)]
  /\ Renewing(k) => /\ signed[AppOf(k)] /\ calls[k].tok \in DOMAIN sessions
                    /\ sessions[calls[k].tok].live

Keeps(a) ==
  /\ Settled(a) \/ Renews(a)
  /\ a # "cli" => Alone(a) /\ \A k \in Slots : (AppOf(k) = a /\ Under(k)) => Fine(k)
Undisturbed == \A a \in Apps : ~disturbed[a] => Keeps(a)

Base == AccountTypes /\ SessionTypes /\ StoreType /\ HistoryTypes /\ CallTypes /\ CallsFit
HInv == Base /\ OwnPlaces /\ OneHolder /\ Undisturbed

-----------------------------------------------------------------------------
\* What a step does to the calls

Others(k) == \A j \in Slots \ {k} : calls'[j] = calls[j]
Ends(k) == Others(k) /\ calls'[k] = Free
Moves(k, l) ==
  /\ Others(k) /\ calls'[k].at = l /\ calls'[k].page = calls[k].page
  /\ calls'[k].tok = calls[k].tok /\ calls'[k].client = calls[k].client

\* A call that is over leaves its slot free.
LEMMA EndEnds == ASSUME CallTypes, NEW k \in Slots, End(k) PROVE Ends(k)
  BY DEF End, Ends, Others, CallTypes

\* A call that goes on keeps its page, its token and its client.
LEMMA GotoMoves ==
  ASSUME CallTypes, NEW k \in Slots, NEW l, Goto(k, l) PROVE Moves(k, l)
<1>1. calls[k] \in Call(DOMAIN users, DOMAIN sessions)
  BY DEF CallTypes
<1>2. calls' = [calls EXCEPT ![k] = [calls[k] EXCEPT !.at = l]]
  BY DEF Goto
<1>3. Others(k) /\ calls'[k] = [calls[k] EXCEPT !.at = l]
  BY <1>2 DEF Others, CallTypes
<1> QED
  BY <1>1, <1>3 DEF Moves, Call

\* The answer of the provider leaves a call its page and its token.
LEMMA ExchangeMoves ==
  ASSUME CallTypes, NEW k \in Slots, NEW l, NEW c, Exchange(k, l, c)
  PROVE  /\ Others(k) /\ calls'[k].at = l /\ calls'[k].page = calls[k].page
         /\ calls'[k].tok = calls[k].tok
<1>1. calls[k] \in Call(DOMAIN users, DOMAIN sessions)
  BY DEF CallTypes
<1>2. calls' = [calls EXCEPT ![k] = [calls[k] EXCEPT !.at = l, !.mail = mail[calls[k].ident],
                                                     !.client = c]]
  BY DEF Exchange
<1>3. /\ Others(k)
      /\ calls'[k] = [calls[k] EXCEPT !.at = l, !.mail = mail[calls[k].ident], !.client = c]
  BY <1>2 DEF Others, CallTypes
<1> QED
  BY <1>1, <1>3 DEF Call

\* A new token is given to the call that asked for it.
LEMMA TokenMoves ==
  ASSUME CallTypes, NEW k \in Slots, NEW l, NEW t,
         calls' = [calls EXCEPT ![k].at = l, ![k].tok = t]
  PROVE  /\ Others(k) /\ calls'[k].at = l /\ calls'[k].page = calls[k].page
         /\ calls'[k].tok = t
<1>1. calls[k] \in Call(DOMAIN users, DOMAIN sessions)
  BY DEF CallTypes
<1>2. calls' = [calls EXCEPT ![k] = [calls[k] EXCEPT !.at = l, !.tok = t]]
  OBVIOUS
<1>3. Others(k) /\ calls'[k] = [calls[k] EXCEPT !.at = l, !.tok = t]
  BY <1>2 DEF Others, CallTypes
<1> QED
  BY <1>1, <1>3 DEF Call

\* The user of a call is found.
LEMMA UserMoves ==
  ASSUME CallTypes, NEW k \in Slots, NEW l, NEW u,
         calls' = [calls EXCEPT ![k].at = l, ![k].user = u]
  PROVE  Moves(k, l)
<1>1. calls[k] \in Call(DOMAIN users, DOMAIN sessions)
  BY DEF CallTypes
<1>2. calls' = [calls EXCEPT ![k] = [calls[k] EXCEPT !.at = l, !.user = u]]
  OBVIOUS
<1>3. Others(k) /\ calls'[k] = [calls[k] EXCEPT !.at = l, !.user = u]
  BY <1>2 DEF Others, CallTypes
<1> QED
  BY <1>1, <1>3 DEF Moves, Call

\* The places of a sign-in or a link.
SignsIn == SigningIn \cup {"provider", "pkce", "linkprovider", "landed"}
SignInStep(k) ==
  \/ Callback(k) \/ FinalizeExtension(k) \/ LinkCallback(k) \/ ReadIdentity(k) \/ UpdateUser(k)
  \/ CreateUser(k) \/ IssueToken(k) \/ Land(k) \/ ReadLink(k) \/ AddLink(k)

\* A call that signs in goes on doing so, and writes no storage.
LEMMA SignInMoves ==
  ASSUME CallTypes, NEW k \in Slots, SignInStep(k)
  PROVE  /\ Others(k) /\ calls[k].at \in SignsIn
         /\ calls'[k] = Free \/ (calls'[k].page = calls[k].page /\ calls'[k].at \in SignsIn)
         /\ UNCHANGED <<store, signed, disturbed>>
<1> USE DEF SignsIn, SigningIn, pageVars
<1>1. CASE Callback(k)
  <2>1. End(k) \/ \E c : Exchange(k, "read", c)
    BY <1>1 DEF Callback
  <2> QED
    BY <1>1, <2>1, EndEnds, ExchangeMoves DEF Callback, Ends
<1>2. CASE FinalizeExtension(k)
  <2>1. End(k) \/ \E c : Exchange(k, "read", c)
    BY <1>2 DEF FinalizeExtension
  <2> QED
    BY <1>2, <2>1, EndEnds, ExchangeMoves DEF FinalizeExtension, Ends
<1>3. CASE LinkCallback(k)
  <2>1. End(k) \/ \E c : Exchange(k, "linkread", c)
    BY <1>3 DEF LinkCallback
  <2> QED
    BY <1>3, <2>1, EndEnds, ExchangeMoves DEF LinkCallback, Ends
<1>4. CASE ReadIdentity(k)
  <2>1. \/ End(k) \/ Goto(k, "create")
        \/ \E u : calls' = [calls EXCEPT ![k].at = "update", ![k].user = u]
    BY <1>4 DEF ReadIdentity
  <2>2. Ends(k) \/ Moves(k, "create") \/ Moves(k, "update")
    BY <2>1, EndEnds, GotoMoves, UserMoves
  <2> QED
    BY <1>4, <2>2 DEF ReadIdentity, Ends, Moves
<1>5. CASE UpdateUser(k)
  <2>1. End(k) \/ Goto(k, "issue")
    BY <1>5 DEF UpdateUser
  <2>2. Ends(k) \/ Moves(k, "issue")
    BY <2>1, EndEnds, GotoMoves
  <2> QED
    BY <1>5, <2>2 DEF UpdateUser, Ends, Moves
<1>6. CASE CreateUser(k)
  <2>1. End(k) \/ \E u : calls' = [calls EXCEPT ![k].at = "issue", ![k].user = u]
    BY <1>6 DEF CreateUser
  <2>2. Ends(k) \/ Moves(k, "issue")
    BY <2>1, EndEnds, UserMoves
  <2> QED
    BY <1>6, <2>2 DEF CreateUser, Ends, Moves
<1>7. CASE IssueToken(k)
  <2>1. \E t : calls' = [calls EXCEPT ![k].at = "land", ![k].tok = t]
    BY <1>7 DEF IssueToken
  <2>2. Others(k) /\ calls'[k].at = "land" /\ calls'[k].page = calls[k].page
    BY <2>1, TokenMoves
  <2> QED
    BY <1>7, <2>2 DEF IssueToken
<1>8. CASE Land(k)
  <2>1. End(k) \/ Goto(k, "landed")
    BY <1>8 DEF Land
  <2>2. Ends(k) \/ Moves(k, "landed")
    BY <2>1, EndEnds, GotoMoves
  <2> QED
    BY <1>8, <2>2 DEF Land, Ends, Moves
<1>9. CASE ReadLink(k)
  <2>1. End(k) \/ Goto(k, "linkadd")
    BY <1>9 DEF ReadLink
  <2>2. Ends(k) \/ Moves(k, "linkadd")
    BY <2>1, EndEnds, GotoMoves
  <2> QED
    BY <1>9, <2>2 DEF ReadLink, Ends, Moves
<1>10. CASE AddLink(k)
  BY <1>10, EndEnds DEF AddLink, Ends
<1> QED
  BY <1>1, <1>2, <1>3, <1>4, <1>5, <1>6, <1>7, <1>8, <1>9, <1>10 DEF SignInStep

\* A request begins in a slot that is free.
Starts(k, p, l, t) ==
  Others(k) /\ ~Under(k) /\ calls'[k].page = p /\ calls'[k].at = l /\ calls'[k].tok = t

LEMMA BeginStarts ==
  ASSUME CallTypes, NEW c, Begin(c)
  PROVE  \E k \in Slots : Starts(k, c.page, c.at, c.tok)
  BY DEF Begin, Starts, Others, CallTypes

\* What each request begins with.
LEMMA Starters ==
  ASSUME CallTypes
  PROVE  /\ \A p \in Pages : Refresh(p) => \E k \in Slots : Starts(k, p, "ask", store[App(p)])
         /\ UseApiKey => \E k \in Slots : Starts(k, "cli", "ask", 0)
         /\ \A p \in Pages, i \in Idents :
              SignIn(p, i) => \E k \in Slots : Starts(k, p, "provider", 0)
         /\ \A i \in Idents : SignInPkce(i) => \E k \in Slots : Starts(k, "cli", "pkce", 0)
         /\ \A p \in Pages, i \in Idents :
              StartLink(p, i) => \E k \in Slots : Starts(k, p, "linkprovider", 0)
         /\ LoadSettings => \E k \in Slots : Starts(k, "panel", "save", store["ext"])
<1>1. ASSUME NEW p \in Pages, Refresh(p)
      PROVE  \E k \in Slots : Starts(k, p, "ask", store[App(p)])
  <2> DEFINE c == [Free EXCEPT !.page = p, !.at = "ask", !.tok = store[App(p)]]
  <2>1. Begin(c)
    BY <1>1 DEF Refresh
  <2>2. c.page = p /\ c.at = "ask" /\ c.tok = store[App(p)]
    BY DEF Free
  <2> HIDE DEF c
  <2>3. \E k \in Slots : Starts(k, c.page, c.at, c.tok)
    BY <2>1, BeginStarts
  <2> QED
    BY <2>2, <2>3
<1>2. ASSUME UseApiKey PROVE \E k \in Slots : Starts(k, "cli", "ask", 0)
  <2> DEFINE c == [Free EXCEPT !.page = "cli", !.at = "ask"]
  <2>1. Begin(c)
    BY <1>2 DEF UseApiKey
  <2>2. c.page = "cli" /\ c.at = "ask" /\ c.tok = 0
    BY DEF Free
  <2> HIDE DEF c
  <2>3. \E k \in Slots : Starts(k, c.page, c.at, c.tok)
    BY <2>1, BeginStarts
  <2> QED
    BY <2>2, <2>3
<1>3. ASSUME NEW p \in Pages, NEW i \in Idents, SignIn(p, i)
      PROVE  \E k \in Slots : Starts(k, p, "provider", 0)
  <2> DEFINE c == [Free EXCEPT !.page = p, !.at = "provider", !.ident = i, !.client = App(p)]
  <2>1. Begin(c)
    BY <1>3 DEF SignIn
  <2>2. c.page = p /\ c.at = "provider" /\ c.tok = 0
    BY DEF Free
  <2> HIDE DEF c
  <2>3. \E k \in Slots : Starts(k, c.page, c.at, c.tok)
    BY <2>1, BeginStarts
  <2> QED
    BY <2>2, <2>3
<1>4. ASSUME NEW i \in Idents, SignInPkce(i) PROVE \E k \in Slots : Starts(k, "cli", "pkce", 0)
  <2> DEFINE c == [Free EXCEPT !.page = "cli", !.at = "pkce", !.ident = i, !.client = "cli"]
  <2>1. Begin(c)
    BY <1>4 DEF SignInPkce
  <2>2. c.page = "cli" /\ c.at = "pkce" /\ c.tok = 0
    BY DEF Free
  <2> HIDE DEF c
  <2>3. \E k \in Slots : Starts(k, c.page, c.at, c.tok)
    BY <2>1, BeginStarts
  <2> QED
    BY <2>2, <2>3
<1>5. ASSUME NEW p \in Pages, NEW i \in Idents, StartLink(p, i)
      PROVE  \E k \in Slots : Starts(k, p, "linkprovider", 0)
  <2> DEFINE u == sessions[store["web"]].user
             c == [Free EXCEPT !.page = p, !.at = "linkprovider", !.ident = i, !.user = u]
  <2>1. Begin(c)
    BY <1>5 DEF StartLink
  <2>2. c.page = p /\ c.at = "linkprovider" /\ c.tok = 0
    BY DEF Free
  <2> HIDE DEF c
  <2>3. \E k \in Slots : Starts(k, c.page, c.at, c.tok)
    BY <2>1, BeginStarts
  <2> QED
    BY <2>2, <2>3
<1>6. ASSUME LoadSettings PROVE \E k \in Slots : Starts(k, "panel", "save", store["ext"])
  <2> DEFINE c == [Free EXCEPT !.page = "panel", !.at = "save", !.tok = store["ext"]]
  <2>1. Begin(c)
    BY <1>6 DEF LoadSettings
  <2>2. c.page = "panel" /\ c.at = "save" /\ c.tok = store["ext"]
    BY DEF Free
  <2> HIDE DEF c
  <2>3. \E k \in Slots : Starts(k, c.page, c.at, c.tok)
    BY <2>1, BeginStarts
  <2> QED
    BY <2>2, <2>3
<1> QED
  BY <1>1, <1>2, <1>3, <1>4, <1>5, <1>6

-----------------------------------------------------------------------------
\* OwnPlaces

\* The pages of each application.
LEMMA AppsOfPages ==
  /\ App("panel") = "ext" /\ App("cli") = "cli"
  /\ \A p \in Tabs : App(p) = "web"
  /\ \A p \in Pages : App(p) = "cli" <=> p = "cli"
  BY PagesAreNew DEF App, Pages

\* A call that is touched alone is at its own place.
LEMMA PlaceOfOne ==
  ASSUME OwnPlaces, NEW k \in Slots, Others(k), OwnPlace(k)'
  PROVE  OwnPlaces'
  BY DEF OwnPlaces, OwnPlace, AppOf, Others

\* Each place is entered by the calls it is for.
LEMMA PlacesKept ==
  ASSUME CallTypes, OwnPlaces, Next
  PROVE  OwnPlaces'
<1> USE DEF OwnPlace, AppOf
<1>1. ASSUME NEW k \in Slots, Ends(k) PROVE OwnPlaces'
  BY <1>1, PlaceOfOne DEF Ends, Free
<1>2. ASSUME NEW k \in Slots, NEW l, Moves(k, l),
             l \notin {"save", "rotate", "clear", "granted", "verify"}
      PROVE  OwnPlaces'
  BY <1>2, PlaceOfOne DEF Moves
<1>3. ASSUME NEW k \in Slots, NEW l, Moves(k, l),
             l \in {"rotate", "clear", "granted", "verify"}, AppOf(k) # "cli"
      PROVE  OwnPlaces'
  BY <1>3, PlaceOfOne DEF Moves
<1>4. ASSUME NEW k \in Slots, SignInStep(k) PROVE OwnPlaces'
  BY <1>4, SignInMoves, PlaceOfOne DEF SignsIn, SigningIn, Free
<1>5. ASSUME NEW k \in Slots, NEW p, NEW l, NEW t, Starts(k, p, l, t),
             l \in {"ask", "provider", "pkce", "linkprovider"} \/ (l = "save" /\ p = "panel")
      PROVE  OwnPlaces'
  BY <1>5, PlaceOfOne, AppsOfPages DEF Starts
<1>6. ASSUME NEW k \in Slots, Handler(k) \/ LoseCall(k) PROVE OwnPlaces'
  <2>1. CASE Ask(k)
    BY <2>1, <1>2, GotoMoves DEF Ask
  <2>2. CASE Look(k)
    <3>1. End(k) \/ Goto(k, "count") \/ (AppOf(k) # "cli" /\ Goto(k, "rotate"))
      BY <2>2 DEF Look
    <3> QED
      BY <3>1, <1>1, <1>2, <1>3, EndEnds, GotoMoves
  <2>3. CASE Rotate(k)
    <3>1. /\ Others(k) /\ calls'[k].at = "clear" /\ calls'[k].page = calls[k].page
          /\ calls[k].at = "rotate"
      BY <2>3, TokenMoves DEF Rotate
    <3> QED
      BY <3>1, PlaceOfOne DEF OwnPlaces
  <2>4. CASE ClearFailures(k)
    <3>1. calls[k].at = "clear" /\ Goto(k, "granted")
      BY <2>4 DEF ClearFailures
    <3>2. AppOf(k) # "cli"
      BY <3>1 DEF OwnPlaces
    <3> QED
      BY <3>1, <3>2, <1>3, GotoMoves
  <2>5. CASE CountFailure(k)
    <3>1. \E l \in {"ttl", "block", "refused"} : Goto(k, l)
      BY <2>5 DEF CountFailure, AfterCount
    <3> QED
      BY <3>1, <1>2, GotoMoves
  <2>6. CASE SetExpiry(k)
    <3>1. \E l \in {"block", "refused"} : Goto(k, l)
      BY <2>6 DEF SetExpiry, AfterCount
    <3> QED
      BY <3>1, <1>2, GotoMoves
  <2>7. CASE Block(k)
    BY <2>7, <1>2, GotoMoves DEF Block
  <2>8. CASE Granted(k)
    <3>1. End(k) \/ (AppOf(k) = "ext" /\ Goto(k, "verify"))
      BY <2>8 DEF Granted
    <3> QED
      BY <3>1, <1>1, <1>3, EndEnds, GotoMoves
  <2>9. CASE Verify(k) \/ Refused(k) \/ NoAnswer(k) \/ TakeTokens(k) \/ SaveSettings(k)
    BY <2>9, <1>1, EndEnds DEF Verify, Refused, NoAnswer, TakeTokens, SaveSettings
  <2>10. CASE LoseCall(k)
    BY <2>10, <1>2, GotoMoves DEF LoseCall
  <2> QED
    BY <1>4, <1>6, <2>1, <2>2, <2>3, <2>4, <2>5, <2>6, <2>7, <2>8, <2>9, <2>10
       DEF Handler, SignInStep
<1>7. ASSUME \/ \E p \in Pages : Refresh(p) \/ \E i \in Idents : SignIn(p, i) \/ StartLink(p, i)
             \/ (\E i \in Idents : SignInPkce(i)) \/ UseApiKey \/ LoadSettings
      PROVE  OwnPlaces'
  <2>1. \E k \in Slots : \E p, t :
          \/ Starts(k, p, "ask", t) \/ Starts(k, p, "provider", t) \/ Starts(k, p, "pkce", t)
          \/ Starts(k, p, "linkprovider", t) \/ Starts(k, "panel", "save", t)
    BY <1>7, Starters
  <2> QED
    BY <2>1, <1>5
<1>8. CASE Crash
  <2>1. \A j \in Slots : \/ calls'[j] = calls[j] \/ calls'[j].at = "error" \/ calls'[j] = Free
    <3> TAKE j \in Slots
    <3>1. calls[j] \in Call(DOMAIN users, DOMAIN sessions)
      BY DEF CallTypes
    <3>2. [calls[j] EXCEPT !.at = "error"].at = "error"
      BY <3>1 DEF Call
    <3> QED
      BY <1>8, <3>2 DEF Crash
  <2> QED
    BY <2>1 DEF OwnPlaces, Free
<1>9. ASSUME \/ \E l \in Lockouts : CounterExpires(l) \/ BlockExpires(l)
             \/ \E a \in Apps : Logout(a)
             \/ \E t \in DOMAIN sessions : Expire(t)
             \/ \E i \in Idents, e \in Mails : ChangeMail(i, e)
      PROVE  OwnPlaces'
  <2>1. calls' = calls
    BY <1>9 DEF CounterExpires, BlockExpires, Logout, Expire, ChangeMail
  <2> QED
    BY <2>1 DEF OwnPlaces
<1> QED
  BY <1>6, <1>7, <1>8, <1>9 DEF Next

-----------------------------------------------------------------------------
\* OneHolder

\* A call has a token it had, the one that is stored, or one that is made for it.
Made(k) == Rotate(k) \/ IssueToken(k)
TokenFrom(j) ==
  \/ calls'[j].tok = 0
  \/ calls'[j].tok = calls[j].tok /\ Carrier(j)' = Carrier(j)
  \/ Made(j) /\ calls'[j].tok = New
  \/ Carrier(j)' \in Apps /\ calls'[j].tok = store[Carrier(j)']

\* An application stores a token that one of its calls brings.
StoreFrom(a) ==
  \/ store'[a] = store[a] \/ store'[a] = 0
  \/ \E k \in Slots : calls[k].tok = store'[a] /\ Carrier(k) = a

\* A call that no step touches has the token it had.
LEMMA FromOne ==
  ASSUME NEW k \in Slots, Others(k), TokenFrom(k)
  PROVE  \A j \in Slots : TokenFrom(j)
  BY DEF Others, TokenFrom, Carrier, AppOf

\* Where the token of each call comes from.
LEMMA TokensFrom ==
  ASSUME CallTypes, Next
  PROVE  \A j \in Slots : TokenFrom(j)
<1> DEFINE Goal == \A j \in Slots : TokenFrom(j)
<1>1. ASSUME NEW k \in Slots, Ends(k) PROVE Goal
  BY <1>1, FromOne DEF Ends, Free, TokenFrom
<1>2. ASSUME NEW k \in Slots, NEW l, Moves(k, l),
             l \in {"land", "landed"} <=> calls[k].at \in {"land", "landed"}
      PROVE  Goal
  BY <1>2, FromOne DEF Moves, TokenFrom, Carrier, AppOf
<1>3. ASSUME NEW k \in Slots, NEW l, NEW c, Exchange(k, l, c),
             calls[k].at \in {"provider", "pkce", "linkprovider"}, l \in {"read", "linkread"}
      PROVE  Goal
  <2>1. /\ Others(k) /\ calls'[k].at = l /\ calls'[k].page = calls[k].page
        /\ calls'[k].tok = calls[k].tok
    BY <1>3, ExchangeMoves
  <2> QED
    BY <1>3, <2>1, FromOne DEF TokenFrom, Carrier, AppOf
<1>4. ASSUME NEW k \in Slots, Made(k) PROVE Goal
  <2>1. PICK l : calls' = [calls EXCEPT ![k].at = l, ![k].tok = New]
    BY <1>4 DEF Made, Rotate, IssueToken, New
  <2>2. Others(k) /\ calls'[k].tok = New
    BY <2>1, TokenMoves
  <2> QED
    BY <1>4, <2>2, FromOne DEF TokenFrom
<1>5. ASSUME NEW k \in Slots, NEW p, NEW l, NEW t, Starts(k, p, l, t),
             l \in {"ask", "provider", "pkce", "linkprovider", "save"}, t = 0 \/ t = store[App(p)]
      PROVE  Goal
  BY <1>5, FromOne, AppIsApp DEF Starts, TokenFrom, Carrier, AppOf
<1>6. ASSUME NEW k \in Slots, Handler(k) \/ LoseCall(k) PROVE Goal
  <2> DEFINE at == calls[k].at
  <2>1. CASE Ask(k) \/ Look(k) \/ ClearFailures(k)
    <3>1. at \in {"ask", "look", "clear"}
          /\ (End(k) \/ \E l \in {"refused", "look", "count", "rotate", "granted"} : Goto(k, l))
      BY <2>1 DEF Ask, Look, ClearFailures
    <3> QED
      BY <3>1, <1>1, <1>2, EndEnds, GotoMoves
  <2>2. CASE CountFailure(k) \/ SetExpiry(k) \/ Block(k)
    <3>1. at \in {"count", "ttl", "block"} /\ \E l \in {"ttl", "block", "refused"} : Goto(k, l)
      BY <2>2 DEF CountFailure, SetExpiry, Block, AfterCount
    <3> QED
      BY <3>1, <1>2, GotoMoves
  <2>3. CASE Granted(k) \/ LoseCall(k)
    <3>1. at \in {"ask", "granted", "refused"}
          /\ (End(k) \/ Goto(k, "verify") \/ Goto(k, "error"))
      BY <2>3 DEF Granted, LoseCall
    <3> QED
      BY <3>1, <1>1, <1>2, EndEnds, GotoMoves
  <2>4. CASE \/ Verify(k) \/ Refused(k) \/ NoAnswer(k) \/ TakeTokens(k) \/ SaveSettings(k)
             \/ AddLink(k)
    BY <2>4, <1>1, EndEnds DEF Verify, Refused, NoAnswer, TakeTokens, SaveSettings, AddLink
  <2>5. CASE Callback(k) \/ FinalizeExtension(k) \/ LinkCallback(k)
    <3>1. \/ End(k)
          \/ at \in {"provider", "pkce", "linkprovider"}
             /\ \E l \in {"read", "linkread"} : \E c : Exchange(k, l, c)
      BY <2>5 DEF Callback, FinalizeExtension, LinkCallback
    <3> QED
      BY <3>1, <1>1, <1>3, EndEnds
  <2>6. CASE Rotate(k) \/ IssueToken(k)
    BY <2>6, <1>4 DEF Made
  <2>7. CASE ReadIdentity(k)
    <3>1. /\ at = "read"
          /\ \/ End(k) \/ Goto(k, "create")
             \/ \E u : calls' = [calls EXCEPT ![k].at = "update", ![k].user = u]
      BY <2>7 DEF ReadIdentity
    <3>2. Ends(k) \/ Moves(k, "create") \/ Moves(k, "update")
      BY <3>1, EndEnds, GotoMoves, UserMoves
    <3> QED
      BY <3>1, <3>2, <1>1, <1>2
  <2>8. CASE UpdateUser(k)
    <3>1. at = "update" /\ (End(k) \/ Goto(k, "issue"))
      BY <2>8 DEF UpdateUser
    <3> QED
      BY <3>1, <1>1, <1>2, EndEnds, GotoMoves
  <2>9. CASE CreateUser(k)
    <3>1. /\ at = "create"
          /\ End(k) \/ \E u : calls' = [calls EXCEPT ![k].at = "issue", ![k].user = u]
      BY <2>9 DEF CreateUser
    <3>2. Ends(k) \/ Moves(k, "issue")
      BY <3>1, EndEnds, UserMoves
    <3> QED
      BY <3>1, <3>2, <1>1, <1>2
  <2>10. CASE Land(k) \/ ReadLink(k)
    <3>1. \/ End(k) \/ (at = "land" /\ Goto(k, "landed"))
          \/ (at = "linkread" /\ Goto(k, "linkadd"))
      BY <2>10 DEF Land, ReadLink
    <3> QED
      BY <3>1, <1>1, <1>2, EndEnds, GotoMoves
  <2> QED
    BY <1>6, <2>1, <2>2, <2>3, <2>4, <2>5, <2>6, <2>7, <2>8, <2>9, <2>10 DEF Handler
<1>7. ASSUME \/ \E p \in Pages : Refresh(p) \/ \E i \in Idents : SignIn(p, i) \/ StartLink(p, i)
             \/ (\E i \in Idents : SignInPkce(i)) \/ UseApiKey \/ LoadSettings
      PROVE  Goal
  <2>1. \E k \in Slots : \E p :
          \/ Starts(k, p, "ask", store[App(p)]) \/ Starts(k, p, "ask", 0)
          \/ Starts(k, p, "provider", 0) \/ Starts(k, p, "pkce", 0)
          \/ Starts(k, p, "linkprovider", 0) \/ Starts(k, "panel", "save", store["ext"])
    BY <1>7, Starters
  <2> QED
    BY <2>1, <1>5, AppsOfPages
<1>8. CASE Crash
  <2> SUFFICES ASSUME NEW j \in Slots PROVE TokenFrom(j)
    OBVIOUS
  <2>1. calls[j] \in Call(DOMAIN users, DOMAIN sessions)
    BY DEF CallTypes
  <2> DEFINE c == [calls[j] EXCEPT !.at = "error"]
  <2>2. c.at = "error" /\ c.tok = calls[j].tok /\ c.page = calls[j].page
    BY <2>1 DEF Call
  <2>3. \/ calls'[j] = calls[j] \/ calls'[j] = Free
        \/ calls[j].at \in Refreshing /\ calls'[j] = c
    BY <1>8 DEF Crash
  <2> HIDE DEF c
  <2> QED
    BY <2>2, <2>3 DEF TokenFrom, Carrier, AppOf, Refreshing, InHandler, Free
<1>9. ASSUME \/ \E l \in Lockouts : CounterExpires(l) \/ BlockExpires(l)
             \/ \E a \in Apps : Logout(a)
             \/ \E t \in DOMAIN sessions : Expire(t)
             \/ \E i \in Idents, e \in Mails : ChangeMail(i, e)
      PROVE  Goal
  <2>1. calls' = calls
    BY <1>9 DEF CounterExpires, BlockExpires, Logout, Expire, ChangeMail
  <2> QED
    BY <2>1 DEF TokenFrom, Carrier, AppOf
<1> QED
  BY <1>6, <1>7, <1>8, <1>9 DEF Next

\* Where the token of each storage comes from.
LEMMA StoresFrom ==
  ASSUME CallTypes, StoreType, OwnPlaces, Next
  PROVE  \A a \in Apps : StoreFrom(a)
<1> USE DEF StoreFrom
<1> SUFFICES ASSUME NEW a \in Apps PROVE StoreFrom(a)
  OBVIOUS
<1>1. CASE UNCHANGED store
  BY <1>1
<1>2. ASSUME NEW b, PutTokens(b, 0) PROVE StoreFrom(a)
  BY <1>2 DEF PutTokens, StoreType
<1>3. ASSUME NEW k \in Slots, PutTokens(Carrier(k), calls[k].tok) PROVE StoreFrom(a)
  BY <1>3 DEF PutTokens, StoreType
<1>4. ASSUME NEW k \in Slots, Verify(k) \/ Refused(k) \/ NoAnswer(k) PROVE StoreFrom(a)
  BY <1>4, <1>1, <1>2 DEF Verify, Refused, NoAnswer
<1>5. ASSUME NEW k \in Slots, Granted(k) \/ TakeTokens(k) PROVE StoreFrom(a)
  BY <1>5, <1>3 DEF Granted, TakeTokens, Carrier
<1>6. ASSUME NEW k \in Slots, SaveSettings(k) PROVE StoreFrom(a)
  <2>1. Carrier(k) = "ext"
    BY <1>6 DEF SaveSettings, OwnPlaces, OwnPlace, Carrier
  <2> QED
    BY <1>6, <1>3, <2>1 DEF SaveSettings
<1>7. ASSUME NEW b \in Apps, Logout(b) PROVE StoreFrom(a)
  BY <1>7, <1>2 DEF Logout
<1> QED
  BY <1>1, <1>4, <1>5, <1>6, <1>7, Frames DEF StoreStep

\* Who holds a token that was there before has held it.
LEMMA HoldersStay ==
  ASSUME SessionTypes, StoreType, CallTypes, OwnPlaces, Next,
         NEW t \in DOMAIN sessions, NEW a \in Apps \cup {None}, Holds(a, t)'
  PROVE  Holds(a, t)
<1>1. t # 0 /\ t # New
  BY DEF SessionTypes, New
<1>2. CASE a \in Apps /\ store'[a] = t
  <2>1. StoreFrom(a)
    BY <1>2, StoresFrom
  <2> QED
    BY <1>1, <1>2, <2>1 DEF StoreFrom, Holds
<1>3. ASSUME NEW j \in Slots, calls'[j].tok = t, Carrier(j)' = a PROVE Holds(a, t)
  <2>1. TokenFrom(j)
    BY TokensFrom
  <2> QED
    BY <1>1, <1>3, <2>1 DEF TokenFrom, Holds
<1> QED
  BY <1>2, <1>3 DEF Holds

\* A token that is made is held by the call it is made for.
LEMMA HolderOfNew ==
  ASSUME SessionTypes, StoreType, CallTypes, NEW k \in Slots, Made(k),
         NEW t, t = New, NEW a, Holds(a, t)'
  PROVE  a = Carrier(k)'
<1>1. t \notin {0} \cup DOMAIN sessions
  BY DEF SessionTypes, New
<1>2. PICK l : calls' = [calls EXCEPT ![k].at = l, ![k].tok = t]
  BY DEF Made, Rotate, IssueToken, New
<1>3. Others(k) /\ store' = store
  BY <1>2, TokenMoves DEF Made, Rotate, IssueToken, pageVars
<1>4. a \in Apps => store'[a] # t
  BY <1>1, <1>3 DEF StoreType
<1>5. \A j \in Slots \ {k} : calls'[j].tok # t
  <2>1. \A j \in Slots : calls[j].tok \in {0} \cup DOMAIN sessions
    BY DEF CallTypes, Call
  <2> QED
    BY <1>1, <1>3, <2>1 DEF Others
<1> QED
  BY <1>4, <1>5 DEF Holds

\* Tokens are made by rotation and sign-in only.
LEMMA NewTokens ==
  ASSUME SessionTypes, CallTypes, CallsFit, Next
  PROVE  \/ DOMAIN sessions' = DOMAIN sessions
         \/ \E k \in Slots : Made(k) /\ DOMAIN sessions' = DOMAIN sessions \cup {New}
<1>1. CASE UNCHANGED sessions
  BY <1>1
<1>2. ASSUME NEW k \in Slots, Made(k) PROVE DOMAIN sessions' = DOMAIN sessions \cup {New}
  BY <1>2, Rotated, Issued DEF Made
<1>3. ASSUME NEW t \in DOMAIN sessions, Expire(t) PROVE DOMAIN sessions' = DOMAIN sessions
  BY <1>3, Expired
<1> QED
  BY <1>1, <1>2, <1>3, Frames DEF SessionStep, Made

\* No step gives a token to a second application.
LEMMA HolderKept ==
  ASSUME SessionTypes, StoreType, CallTypes, CallsFit, OwnPlaces, OneHolder,
         Next
  PROVE  OneHolder'
<1> SUFFICES ASSUME NEW t \in DOMAIN sessions', NEW a \in Apps \cup {None},
                    NEW b \in Apps \cup {None}, Holds(a, t)', Holds(b, t)'
             PROVE  a = b
  BY DEF OneHolder
<1>1. CASE t \in DOMAIN sessions
  <2>1. Holds(a, t) /\ Holds(b, t)
    BY <1>1, HoldersStay
  <2> QED
    BY <1>1, <2>1 DEF OneHolder
<1>2. CASE t \notin DOMAIN sessions
  <2>1. PICK k \in Slots : Made(k) /\ t = New
    BY <1>2, NewTokens
  <2> QED
    BY <2>1, HolderOfNew
<1> QED
  BY <1>1, <1>2

-----------------------------------------------------------------------------
\* Undisturbed

\* Only a sign-in makes up for what disturbed an application.
LEMMA DisturbedStays ==
  ASSUME HistoryTypes, Next, NEW a \in Apps, disturbed[a]
  PROVE  disturbed'[a] \/ \E k \in Slots : TakeTokens(k) /\ calls[k].client = a
<1>1. ASSUME NEW b, NEW c, Disturb(b, c) PROVE disturbed'[a]
  BY <1>1 DEF Disturb, HistoryTypes
<1>2. ASSUME NEW k \in Slots, Handler(k) \/ LoseCall(k), ~TakeTokens(k) PROVE disturbed'[a]
  <2>1. CASE Ask(k) \/ Verify(k) \/ LoseCall(k)
    <3>1. (\E b, c : Disturb(b, c)) \/ disturbed' = disturbed
      BY <2>1 DEF Ask, Verify, LoseCall
    <3> QED
      BY <3>1, <1>1
  <2>2. CASE SignInStep(k)
    <3>1. disturbed' = disturbed
      BY <2>2 DEF SignInStep, Callback, FinalizeExtension, LinkCallback, ReadIdentity, UpdateUser,
         CreateUser, IssueToken, Land, ReadLink, AddLink, pageVars
    <3> QED
      BY <3>1
  <2>3. CASE \/ Look(k) \/ Rotate(k) \/ ClearFailures(k) \/ CountFailure(k) \/ SetExpiry(k)
             \/ Block(k) \/ Granted(k) \/ Refused(k) \/ NoAnswer(k) \/ SaveSettings(k)
    <3>1. disturbed' = disturbed
      BY <2>3 DEF Look, Rotate, ClearFailures, CountFailure, SetExpiry, Block, Granted, Refused,
         NoAnswer, SaveSettings, pageVars
    <3> QED
      BY <3>1
  <2> QED
    BY <1>2, <2>1, <2>2, <2>3 DEF Handler, SignInStep
<1>3. ASSUME NEW k \in Slots, TakeTokens(k), calls[k].client # a PROVE disturbed'[a]
  BY <1>3 DEF TakeTokens, HistoryTypes
<1>4. ASSUME \/ \E p \in Pages : Refresh(p) \/ \E i \in Idents : SignIn(p, i) \/ StartLink(p, i)
             \/ (\E i \in Idents : SignInPkce(i)) \/ LoadSettings \/ \E b \in Apps : Logout(b)
      PROVE  disturbed'[a]
  <2>1. \E b, c : Disturb(b, c)
    BY <1>4 DEF Refresh, SignIn, StartLink, SignInPkce, LoadSettings, Logout
  <2> QED
    BY <2>1, <1>1
<1>5. ASSUME \/ \E l \in Lockouts : CounterExpires(l) \/ BlockExpires(l)
             \/ \E i \in Idents, e \in Mails : ChangeMail(i, e)
             \/ UseApiKey
      PROVE  disturbed'[a]
  BY <1>5 DEF CounterExpires, BlockExpires, ChangeMail, UseApiKey, pageVars
<1>6. CASE Crash \/ \E t \in DOMAIN sessions : Expire(t)
  BY <1>6 DEF Crash, Expire
<1> QED
  BY <1>2, <1>3, <1>4, <1>5, <1>6 DEF Next

\* A token that is stored, or on its way to the storage, dies with a rotation by another
\* application only, which does not hold it, or with an expiry, which disturbs.
Awaits(a, t) == store[a] = t \/ \E k \in Slots : Renewing(k) /\ AppOf(k) = a /\ calls[k].tok = t
LEMMA StaysLive ==
  ASSUME SessionTypes, CallTypes, CallsFit, OneHolder, Next,
         NEW a \in Apps, ~disturbed'[a], \A k \in Slots : Rotate(k) => AppOf(k) # a,
         NEW t \in DOMAIN sessions, Awaits(a, t), sessions[t].live
  PROVE  sessions'[t].live
<1>1. CASE UNCHANGED sessions
  BY <1>1
<1>2. ASSUME NEW k \in Slots, Rotate(k) PROVE sessions'[t].live
  <2>1. Holds(a, t)
    BY DEF Awaits, Holds, Carrier, Renewing
  <2>2. Holds(AppOf(k), calls[k].tok) /\ AppOf(k) \in Apps
    BY <1>2, AppIsApp DEF Rotate, Holds, Carrier, AppOf
  <2>3. t # calls[k].tok
    BY <1>2, <2>1, <2>2 DEF OneHolder
  <2> QED
    BY <1>2, <2>3, Rotated
<1>3. ASSUME NEW k \in Slots, IssueToken(k) PROVE sessions'[t].live
  BY <1>3, Issued
<1>4. ASSUME NEW s \in DOMAIN sessions, Expire(s) PROVE sessions'[t].live
  <2>1. s # t
    <3>1. disturbed' = [b \in Apps |-> disturbed[b] \/ store[b] = s
                          \/ \E k \in Slots : Under(k) /\ AppOf(k) = b /\ calls[k].tok = s]
      BY <1>4 DEF Expire
    <3>2. store[a] # s /\ \A k \in Slots : ~(Under(k) /\ AppOf(k) = a /\ calls[k].tok = s)
      BY <3>1
    <3> QED
      BY <3>2 DEF Awaits, Renewing, Under
  <2> QED
    BY <1>4, <2>1, Expired
<1> QED
  BY <1>1, <1>2, <1>3, <1>4, Frames DEF SessionStep

\* A step that leaves alone what an application holds and its refreshes.
Foreign(a) ==
  /\ store'[a] = store[a] /\ signed'[a] = signed[a]
  /\ \A j \in Slots : (Renewing(j) /\ AppOf(j) = a) => calls'[j] = calls[j]
  /\ a # "cli" => \A j \in Slots : (Under(j)' /\ AppOf(j)' = a) =>
       \/ calls'[j] = calls[j]
       \/ Under(j) /\ AppOf(j) = a /\ calls'[j].at \in SignsIn
LEMMA ForeignKeeps ==
  ASSUME SessionTypes, StoreType, NEW a \in Apps, Foreign(a), Keeps(a),
         DOMAIN sessions \subseteq DOMAIN sessions',
         \A t \in DOMAIN sessions : (Awaits(a, t) /\ sessions[t].live) => sessions'[t].live
  PROVE  Keeps(a)'
<1>1. Settled(a) => Settled(a)'
  BY DEF Settled, Foreign, Awaits, StoreType
<1>2. Renews(a) => Renews(a)'
  BY DEF Renews, Renewing, AppOf, Foreign
<1>3. a # "cli" => Alone(a)'
  <2>1. a # "cli" => \A j \in Slots : (Under(j)' /\ AppOf(j)' = a) => Under(j) /\ AppOf(j) = a
    BY DEF Foreign, Under, AppOf
  <2> QED
    BY <2>1 DEF Keeps, Alone
<1>4. ASSUME a # "cli", NEW j \in Slots, AppOf(j)' = a, Under(j)' PROVE Fine(j)'
  <2>1. CASE calls'[j].at \in SignsIn
    BY <2>1 DEF Fine, SignsIn, SigningIn, Renewing
  <2>2. CASE calls'[j] = calls[j]
    <3>1. Under(j) /\ AppOf(j) = a
      BY <1>4, <2>2 DEF Under, AppOf
    <3>2. Fine(j)
      BY <1>4, <3>1 DEF Keeps
    <3>3. Renewing(j)' => sessions'[calls[j].tok].live /\ calls[j].tok \in DOMAIN sessions'
      BY <2>2, <3>1, <3>2 DEF Fine, Renewing, Awaits
    <3>4. store'[a] = store[a] /\ signed'[a] = signed[a] /\ AppOf(j)' = a
      BY <1>4 DEF Foreign
    <3> QED
      BY <2>2, <3>1, <3>2, <3>3, <3>4 DEF Fine, Renewing
  <2> QED
    BY <1>4, <2>1, <2>2 DEF Foreign
<1> QED
  BY <1>1, <1>2, <1>3, <1>4 DEF Keeps

\* The call of an application takes a step, alone.
LEMMA AloneKeeps ==
  ASSUME NEW a \in Apps, Alone(a), NEW k \in Slots, Under(k), AppOf(k) = a, Others(k),
         calls'[k] = Free \/ (calls'[k].page = calls[k].page /\ Fine(k)'),
         Settled(a)' \/ (calls'[k].page = calls[k].page /\ Renewing(k)')
  PROVE  Keeps(a)'
<1>1. \A j \in Slots : (Under(j)' /\ AppOf(j)' = a) => j = k
  BY DEF Alone, Others, Under, AppOf
<1>2. Alone(a)'
  BY <1>1 DEF Alone
<1>3. \A j \in Slots : (AppOf(j)' = a /\ Under(j)') => Fine(j)'
  BY <1>1 DEF Under, Free
<1>4. Settled(a)' \/ Renews(a)'
  BY DEF Renews, AppOf
<1> QED
  BY <1>2, <1>3, <1>4 DEF Keeps

\* While its only call is not about to bring a new token, the storage is settled.
LEMMA SettledMeanwhile ==
  ASSUME NEW a \in Apps, a # "cli", Keeps(a), NEW k \in Slots, Under(k), AppOf(k) = a
  PROVE  Alone(a) /\ Fine(k) /\ (Renewing(k) \/ Settled(a))
  BY DEF Keeps, Alone, Renews, Renewing, Under

\* The refresh of an application, and the saving of its settings, keep its session.
OwnStep(k) ==
  \/ Ask(k) \/ Look(k) \/ Rotate(k) \/ ClearFailures(k) \/ CountFailure(k) \/ SetExpiry(k)
  \/ Block(k) \/ Granted(k) \/ Verify(k) \/ Refused(k) \/ NoAnswer(k) \/ SaveSettings(k)
  \/ LoseCall(k)
LEMMA OwnKeeps ==
  ASSUME HInv, NEW k \in Slots, OwnStep(k), NEW a \in Apps, a = AppOf(k), a # "cli",
         ~disturbed'[a], Keeps(a)
  PROVE  Keeps(a)'
<1> USE DEF HInv, Base
<1>1. Under(k)
  BY DEF OwnStep, Ask, Look, Rotate, ClearFailures, CountFailure, SetExpiry, Block, Granted, Verify,
     Refused, NoAnswer, SaveSettings, LoseCall, Under
<1>2. Alone(a) /\ Fine(k) /\ (Renewing(k) \/ Settled(a))
  BY <1>1, SettledMeanwhile
<1>3. ASSUME UNCHANGED <<store, signed, sessions>>, Settled(a) PROVE Settled(a)'
  BY <1>3 DEF Settled
<1>4. ASSUME NEW l, Moves(k, l), l \in {"look", "rotate"}, UNCHANGED <<store, signed, sessions>>,
             calls[k].at \in {"ask", "look"}
      PROVE  Keeps(a)'
  <2>1. Settled(a)'
    BY <1>2, <1>3, <1>4 DEF Renewing
  <2>2. Fine(k)' /\ calls'[k].page = calls[k].page /\ Others(k)
    BY <1>2, <1>4 DEF Fine, Moves, Renewing, AppOf
  <2> QED
    BY <1>1, <1>2, <2>1, <2>2, AloneKeeps
<1>5. CASE Ask(k)
  <2>1. calls[k].at = "ask" /\ UNCHANGED <<store, signed, sessions>>
        /\ Disturb(a, calls'[k].at = "refused")
    BY <1>5 DEF Ask
  <2>2. calls'[k].at # "refused"
    BY <2>1 DEF Disturb, HistoryTypes
  <2>3. Goto(k, "look") \/ Goto(k, "refused")
    BY <1>5 DEF Ask
  <2>4. Moves(k, "look")
    BY <2>2, <2>3, GotoMoves DEF Moves
  <2> QED
    BY <1>4, <2>1, <2>4
<1>6. CASE Look(k)
  <2>1. calls[k].at = "look" /\ UNCHANGED <<store, signed, sessions>>
    BY <1>6 DEF Look, pageVars
  <2>2. calls[k].tok = store[a] /\ store[a] # 0
    BY <1>2, <2>1 DEF Fine
  <2>3. sessions[calls[k].tok].live
    BY <1>2, <2>1, <2>2 DEF Settled, Renewing
  <2>4. Goto(k, "rotate")
    BY <1>6, <2>3 DEF Look
  <2>5. Moves(k, "rotate")
    BY <2>4, GotoMoves
  <2> QED
    BY <1>4, <2>1, <2>5
<1>7. CASE Rotate(k)
  <2>1. calls[k].at = "rotate" /\ signed' = signed
        /\ calls' = [calls EXCEPT ![k].at = "clear", ![k].tok = New]
    BY <1>7 DEF Rotate, New, pageVars
  <2>2. signed[a]
    BY <1>2, <2>1 DEF Fine, Settled, Renewing
  <2>3. /\ Others(k) /\ calls'[k].at = "clear" /\ calls'[k].page = calls[k].page
        /\ calls'[k].tok = New
    BY <2>1, TokenMoves
  <2>4. New \in DOMAIN sessions' /\ sessions'[New].live
    <3>1. /\ calls[k].tok \in DOMAIN sessions /\ New \in DOMAIN sessions'
          /\ sessions'[New] = [sessions[calls[k].tok] EXCEPT !.live = TRUE]
      BY <1>7, Rotated
    <3>2. sessions[calls[k].tok] \in Session
      BY <3>1, TokenFields
    <3> QED
      BY <3>1, <3>2, SetLive
  <2>5. Fine(k)' /\ Renewing(k)'
    BY <1>2, <2>1, <2>2, <2>3, <2>4 DEF Fine, Renewing, AppOf
  <2> QED
    BY <1>1, <1>2, <2>3, <2>5, AloneKeeps
<1>8. CASE ClearFailures(k)
  <2>1. calls[k].at = "clear" /\ UNCHANGED <<store, signed, sessions>> /\ Moves(k, "granted")
    BY <1>8, GotoMoves DEF ClearFailures, pageVars
  <2>2. Fine(k)' /\ Renewing(k)' /\ calls'[k].page = calls[k].page /\ Others(k)
    BY <1>2, <2>1 DEF Fine, Moves, Renewing, AppOf
  <2> QED
    BY <1>1, <1>2, <2>2, AloneKeeps
<1>9. CASE CountFailure(k) \/ SetExpiry(k) \/ Block(k) \/ Refused(k) \/ NoAnswer(k)
  BY <1>2, <1>9 DEF Fine, CountFailure, SetExpiry, Block, Refused, NoAnswer
<1>10. CASE Granted(k)
  <2>1. /\ calls[k].at = "granted" /\ store' = [store EXCEPT ![a] = calls[k].tok]
        /\ UNCHANGED <<signed, sessions>> /\ (End(k) \/ Goto(k, "verify"))
    BY <1>10 DEF Granted, PutTokens
  <2>2. signed[a] /\ calls[k].tok \in DOMAIN sessions /\ sessions[calls[k].tok].live
    BY <1>2, <2>1 DEF Fine, Renewing
  <2>3. store'[a] = calls[k].tok /\ calls[k].tok # 0
    BY <2>1, <2>2 DEF StoreType, SessionTypes
  <2>4. Settled(a)'
    BY <2>1, <2>2, <2>3 DEF Settled
  <2>5. Ends(k) \/ Moves(k, "verify")
    BY <2>1, EndEnds, GotoMoves
  <2>6. Others(k) /\ (calls'[k] = Free \/ (calls'[k].page = calls[k].page /\ Fine(k)'))
    BY <2>3, <2>5 DEF Ends, Moves, Fine, Renewing, AppOf
  <2> QED
    BY <1>1, <1>2, <2>4, <2>6, AloneKeeps
<1>11. CASE Verify(k) \/ SaveSettings(k)
  <2>1. ~Renewing(k) /\ UNCHANGED <<signed, sessions>> /\ Ends(k)
    BY <1>11, EndEnds DEF Verify, SaveSettings, Renewing
  <2>2. store'[a] = store[a]
    <3>1. CASE Verify(k)
      <4>1. store' = store \/ (PutTokens("ext", 0) /\ Disturb("ext", TRUE))
        BY <3>1 DEF Verify
      <4>2. CASE PutTokens("ext", 0) /\ Disturb("ext", TRUE)
        BY <4>2 DEF PutTokens, Disturb, HistoryTypes, StoreType
      <4> QED
        BY <4>1, <4>2
    <3>2. CASE SaveSettings(k)
      <4>1. calls[k].at = "save" /\ store' = [store EXCEPT !["ext"] = calls[k].tok]
        BY <3>2 DEF SaveSettings, PutTokens
      <4>2. a = "ext" /\ calls[k].tok = store[a]
        BY <1>2, <4>1 DEF OwnPlaces, OwnPlace, Fine
      <4> QED
        BY <4>1, <4>2 DEF StoreType
    <3> QED
      BY <1>11, <3>1, <3>2
  <2>3. Settled(a)'
    BY <1>2, <2>1, <2>2 DEF Settled
  <2> QED
    BY <1>1, <1>2, <2>1, <2>3, AloneKeeps DEF Ends
<1>12. CASE LoseCall(k)
  BY <1>12 DEF LoseCall, Disturb, HistoryTypes
<1> QED
  BY <1>5, <1>6, <1>7, <1>8, <1>9, <1>10, <1>11, <1>12 DEF OwnStep

\* What does not concern an application leaves its session as it was.
LEMMA ForeignSafe ==
  ASSUME HInv, Next, NEW a \in Apps, Foreign(a),
         ~disturbed'[a], Keeps(a)
  PROVE  Keeps(a)'
<1> USE DEF HInv, Base
<1>1. \A k \in Slots : Rotate(k) => AppOf(k) # a
  <2> SUFFICES ASSUME NEW k \in Slots, Rotate(k), AppOf(k) = a PROVE FALSE
    OBVIOUS
  <2>1. calls[k].at = "rotate" /\ calls'[k].at = "clear" /\ calls'[k].page = calls[k].page
    BY TokenMoves DEF Rotate
  <2>2. a # "cli"
    BY <2>1 DEF OwnPlaces, OwnPlace
  <2> QED
    BY <2>1, <2>2 DEF Foreign, Under, AppOf, SignsIn, SigningIn
<1>2. \A t \in DOMAIN sessions : (Awaits(a, t) /\ sessions[t].live) => sessions'[t].live
  BY <1>1, StaysLive
<1>3. DOMAIN sessions \subseteq DOMAIN sessions'
  BY NewTokens
<1> QED
  BY <1>2, <1>3, ForeignKeeps

\* A refresh concerns one application; a request with an API key concerns no session.
LEMMA OthersOwn ==
  ASSUME HInv, NEW k \in Slots, OwnStep(k), NEW a \in Apps, AppOf(k) # a \/ a = "cli",
         ~disturbed'[a]
  PROVE  Foreign(a)
<1> USE DEF HInv, Base
<1>1. signed' = signed
  BY DEF OwnStep, Ask, Look, Rotate, ClearFailures, CountFailure, SetExpiry, Block, Granted, Verify,
     Refused, NoAnswer, SaveSettings, LoseCall, pageVars
<1>2. Others(k) /\ (calls'[k] = Free \/ calls'[k].page = calls[k].page)
  <2>1. (\E l : Moves(k, l)) \/ Ends(k) =>
          Others(k) /\ (calls'[k] = Free \/ calls'[k].page = calls[k].page)
    BY DEF Moves, Ends
  <2>2. CASE Ask(k) \/ Look(k) \/ ClearFailures(k)
    <3>1. End(k) \/ \E l : Goto(k, l)
      BY <2>2 DEF Ask, Look, ClearFailures
    <3> QED
      BY <2>1, <3>1, EndEnds, GotoMoves
  <2>3. CASE CountFailure(k) \/ SetExpiry(k) \/ Block(k) \/ Granted(k) \/ LoseCall(k)
    <3>1. End(k) \/ \E l : Goto(k, l)
      BY <2>3 DEF CountFailure, SetExpiry, Block, Granted, LoseCall
    <3> QED
      BY <2>1, <3>1, EndEnds, GotoMoves
  <2>4. CASE Rotate(k)
    BY <2>4, TokenMoves DEF Rotate
  <2>5. CASE Verify(k) \/ Refused(k) \/ NoAnswer(k) \/ SaveSettings(k)
    BY <2>1, <2>5, EndEnds DEF Verify, Refused, NoAnswer, SaveSettings
  <2> QED
    BY <2>2, <2>3, <2>4, <2>5 DEF OwnStep
<1>3. store'[a] = store[a]
  <2>1. CASE \/ Ask(k) \/ Look(k) \/ Rotate(k) \/ ClearFailures(k) \/ CountFailure(k)
             \/ SetExpiry(k) \/ Block(k) \/ LoseCall(k)
    BY <2>1 DEF Ask, Look, Rotate, ClearFailures, CountFailure, SetExpiry, Block, LoseCall, pageVars
  <2>2. CASE Granted(k)
    <3>1. calls[k].at = "granted" /\ store' = [store EXCEPT ![AppOf(k)] = calls[k].tok]
      BY <2>2 DEF Granted, PutTokens
    <3>2. AppOf(k) # "cli"
      BY <3>1 DEF OwnPlaces, OwnPlace
    <3> QED
      BY <3>1, <3>2 DEF StoreType
  <2>3. CASE Verify(k)
    <3>1. store' = store \/ (PutTokens("ext", 0) /\ Disturb("ext", TRUE))
      BY <2>3 DEF Verify
    <3>2. CASE PutTokens("ext", 0) /\ Disturb("ext", TRUE)
      BY <3>2 DEF PutTokens, Disturb, HistoryTypes, StoreType
    <3> QED
      BY <3>1, <3>2
  <2>4. CASE Refused(k) \/ NoAnswer(k)
    <3>1. store' = store \/ (AppOf(k) \in {"web", "ext"} /\ store' = [store EXCEPT ![AppOf(k)] = 0])
      BY <2>4 DEF Refused, NoAnswer, PutTokens
    <3> QED
      BY <3>1 DEF StoreType
  <2>5. CASE SaveSettings(k)
    <3>1. calls[k].at = "save" /\ store' = [store EXCEPT !["ext"] = calls[k].tok]
      BY <2>5 DEF SaveSettings, PutTokens
    <3>2. AppOf(k) = "ext"
      BY <3>1 DEF OwnPlaces, OwnPlace
    <3> QED
      BY <3>1, <3>2 DEF StoreType
  <2> QED
    BY <2>1, <2>2, <2>3, <2>4, <2>5 DEF OwnStep
<1>4. \A j \in Slots : (Renewing(j) /\ AppOf(j) = a) => calls'[j] = calls[j]
  <2>1. Renewing(k) => AppOf(k) # "cli"
    BY DEF OwnPlaces, OwnPlace, Renewing
  <2> QED
    BY <1>2, <2>1 DEF Others
<1>5. a # "cli" => \A j \in Slots : (Under(j)' /\ AppOf(j)' = a) => calls'[j] = calls[j]
  BY <1>2 DEF Others, Under, AppOf, Free
<1> QED
  BY <1>1, <1>3, <1>4, <1>5 DEF Foreign

\* A sign-in concerns the session of an application only when it gets the tokens.
LEMMA SignInsForeign ==
  ASSUME CallTypes, CallsFit, StoreType, HistoryTypes, NEW k \in Slots, NEW a \in Apps,
         \/ SignInStep(k)
         \/ TakeTokens(k) /\ calls[k].client # a
  PROVE  Foreign(a)
<1>1. CASE SignInStep(k)
  BY <1>1, SignInMoves DEF Foreign, Others, Under, AppOf, Free, Renewing, SignsIn, SigningIn
<1>2. ASSUME Ends(k), ~Renewing(k), store'[a] = store[a], signed'[a] = signed[a]
      PROVE  Foreign(a)
  BY <1>2 DEF Foreign, Ends, Others, Under, AppOf, Free
<1>3. CASE TakeTokens(k) /\ calls[k].client # a
  <2>1. store'[a] = store[a] /\ signed'[a] = signed[a] /\ ~Renewing(k)
    BY <1>3 DEF TakeTokens, PutTokens, StoreType, HistoryTypes, Renewing
  <2> QED
    BY <1>2, <1>3, <2>1, EndEnds DEF TakeTokens
<1> QED
  BY <1>1, <1>3

\* Who gets the tokens of a sign-in, with no call under way, is settled.
LEMMA TakeKeeps ==
  ASSUME HInv, NEW k \in Slots, TakeTokens(k), NEW a \in Apps, calls[k].client = a, ~disturbed'[a]
  PROVE  Keeps(a)'
<1> USE DEF HInv, Base
<1>1. /\ calls[k].at = "landed" /\ Ends(k) /\ sessions' = sessions
      /\ store' = [store EXCEPT ![a] = calls[k].tok] /\ signed' = [signed EXCEPT ![a] = TRUE]
  BY EndEnds DEF TakeTokens, PutTokens
<1>2. sessions[calls[k].tok].live /\ \A j \in Slots \ {k} : ~(Under(j) /\ AppOf(j) = a)
  BY DEF TakeTokens, HistoryTypes
<1>3. calls[k].tok \in DOMAIN sessions /\ calls[k].tok # 0
  BY <1>1 DEF CallsFit, Fits, SessionTypes
<1>4. store'[a] = calls[k].tok /\ signed'[a]
  BY <1>1 DEF StoreType, HistoryTypes
<1>5. Settled(a)'
  BY <1>1, <1>2, <1>3, <1>4 DEF Settled
<1>6. \A j \in Slots : ~(Under(j)' /\ AppOf(j)' = a)
  BY <1>1, <1>2 DEF Ends, Others, Under, AppOf, Free
<1> QED
  BY <1>5, <1>6 DEF Keeps, Alone

\* A request begins for an application that waits for none.
LEMMA StartKeeps ==
  ASSUME CallTypes, NEW k \in Slots, NEW p, NEW l, NEW t, Starts(k, p, l, t), NEW a \in Apps,
         App(p) = a, UNCHANGED <<store, signed, sessions>>, ~Busy(a), Keeps(a),
         \/ l \in SignsIn
         \/ l = "ask" /\ t = store[a] /\ store[a] # 0
         \/ l = "save" /\ t = store[a]
  PROVE  Keeps(a)'
<1>1. Settled(a)
  BY DEF Keeps, Renews, Renewing, Busy, Under
<1>2. Settled(a)'
  BY <1>1 DEF Settled
<1>3. \A j \in Slots : (Under(j)' /\ AppOf(j)' = a) => j = k
  BY DEF Starts, Others, Busy, Under, AppOf
<1>4. Fine(k)'
  BY DEF Starts, Fine, AppOf, Renewing, SignsIn, SigningIn
<1> QED
  BY <1>2, <1>3, <1>4 DEF Keeps, Alone

\* A request begins for another application, or with an API key.
LEMMA StartForeign ==
  ASSUME CallTypes, NEW k \in Slots, NEW p, NEW l, NEW t, Starts(k, p, l, t), NEW a \in Apps,
         App(p) # a \/ a = "cli", UNCHANGED <<store, signed>>
  PROVE  Foreign(a)
  BY DEF Starts, Others, Foreign, Under, AppOf, Renewing

\* A request that begins keeps the session of every application it does not disturb.
LEMMA BeginsKeep ==
  ASSUME HInv, Next, NEW a \in Apps, Keeps(a), ~disturbed'[a],
         \/ \E p \in Pages : Refresh(p) \/ \E i \in Idents : SignIn(p, i) \/ StartLink(p, i)
         \/ (\E i \in Idents : SignInPkce(i)) \/ UseApiKey \/ LoadSettings
  PROVE  Keeps(a)'
<1> USE DEF HInv, Base
<1>1. ASSUME NEW b \in Apps, NEW c, Disturb(b, c), b = a PROVE ~c
  BY <1>1 DEF Disturb, HistoryTypes
<1>2. ASSUME NEW k \in Slots, NEW p, NEW l, NEW t, Starts(k, p, l, t),
             UNCHANGED <<store, signed, sessions>>,
             (App(p) = a /\ a # "cli") =>
               /\ ~Busy(a)
               /\ \/ l \in SignsIn
                  \/ l = "ask" /\ t = store[a] /\ store[a] # 0
                  \/ l = "save" /\ t = store[a]
      PROVE  Keeps(a)'
  <2>1. CASE App(p) = a /\ a # "cli"
    BY <1>2, <2>1, StartKeeps
  <2>2. CASE App(p) # a \/ a = "cli"
    BY <1>2, <2>2, StartForeign, ForeignSafe
  <2> QED
    BY <2>1, <2>2
<1>3. ASSUME NEW p \in Pages, Refresh(p) PROVE Keeps(a)'
  <2> DEFINE c == \E k \in Slots : AppOf(k) = App(p) /\ Under(k)
                                   /\ (p \in Tabs => calls[k].page # p)
  <2>1. /\ p # "cli" /\ store[App(p)] # 0 /\ (p \in Tabs => ~InFlight(p)) /\ Disturb(App(p), c)
        /\ UNCHANGED <<store, signed, sessions>>
    BY <1>3 DEF Refresh
  <2>2. PICK k \in Slots : Starts(k, p, "ask", store[App(p)])
    BY <1>3, Starters
  <2>3. App(p) = a => ~Busy(a)
    <3> SUFFICES ASSUME App(p) = a PROVE ~Busy(a)
      OBVIOUS
    <3>1. ~c
      BY <1>1, <2>1, AppIsApp
    <3> QED
      BY <2>1, <3>1 DEF Busy, InFlight
  <2> QED
    BY <1>2, <2>1, <2>2, <2>3
<1>4. ASSUME NEW p \in Pages, NEW i \in Idents, SignIn(p, i) \/ StartLink(p, i) PROVE Keeps(a)'
  <2>1. UNCHANGED <<store, signed, sessions>> /\ Disturb(App(p), Busy(App(p)))
    BY <1>4, AppsOfPages DEF SignIn, StartLink
  <2>2. App(p) = a => ~Busy(a)
    BY <1>1, <2>1, AppIsApp
  <2>3. \E k \in Slots, l \in SignsIn : Starts(k, p, l, 0)
    BY <1>4, Starters DEF SignsIn
  <2> QED
    BY <1>2, <2>1, <2>2, <2>3
<1>5. ASSUME NEW i \in Idents, SignInPkce(i) PROVE Keeps(a)'
  BY <1>2, <1>5, Starters, AppsOfPages DEF SignInPkce
<1>6. CASE UseApiKey
  BY <1>2, <1>6, Starters, AppsOfPages DEF UseApiKey, pageVars
<1>7. CASE LoadSettings
  <2>1. UNCHANGED <<store, signed, sessions>> /\ Disturb("ext", Busy("ext"))
    BY <1>7 DEF LoadSettings
  <2>2. "ext" = a => ~Busy(a)
    BY <1>1, <2>1
  <2> QED
    BY <1>2, <1>7, <2>1, <2>2, Starters, AppsOfPages
<1> QED
  BY <1>3, <1>4, <1>5, <1>6, <1>7

\* A session is kept through every step that does not disturb its application.
LEMMA SessionOfOneKept ==
  ASSUME HInv, Next, NEW a \in Apps, ~disturbed'[a]
  PROVE  Keeps(a)'
<1> USE DEF HInv, Base
<1>1. ASSUME NEW k \in Slots, TakeTokens(k), calls[k].client = a PROVE Keeps(a)'
  BY <1>1, TakeKeeps
<1>2. ASSUME ~\E k \in Slots : TakeTokens(k) /\ calls[k].client = a PROVE Keeps(a)'
  <2>1. Keeps(a)
    BY <1>2, DisturbedStays DEF Undisturbed
  <2>2. ASSUME NEW k \in Slots, Handler(k) \/ LoseCall(k) PROVE Keeps(a)'
    <3>1. CASE OwnStep(k)
      <4>1. CASE AppOf(k) = a /\ a # "cli"
        BY <2>1, <3>1, <4>1, OwnKeeps
      <4>2. CASE AppOf(k) # a \/ a = "cli"
        BY <2>1, <2>2, <3>1, <4>2, OthersOwn, ForeignSafe DEF Next
      <4> QED
        BY <4>1, <4>2
    <3>2. CASE SignInStep(k) \/ TakeTokens(k)
      BY <1>2, <2>1, <2>2, <3>2, SignInsForeign, ForeignSafe DEF Next
    <3> QED
      BY <2>2, <3>1, <3>2 DEF Handler, OwnStep, SignInStep
  <2>3. CASE Next /\ Crash
    <3>1. /\ UNCHANGED <<store, signed, sessions>>
          /\ disturbed' = [b \in Apps |-> disturbed[b] \/ Busy(b)]
      BY <2>3 DEF Crash
    <3>2. ~Busy(a)
      BY <3>1
    <3>3. \A j \in Slots : Under(j)' => Under(j) /\ AppOf(j)' = AppOf(j)
      <4> TAKE j \in Slots
      <4>1. calls[j] \in Call(DOMAIN users, DOMAIN sessions)
        BY DEF CallTypes
      <4> DEFINE c == [calls[j] EXCEPT !.at = "error"]
      <4>2. c.page = calls[j].page
        BY <4>1 DEF Call
      <4>3. \/ calls'[j] = calls[j] \/ calls'[j] = Free
            \/ calls[j].at \in Refreshing /\ calls'[j] = c
        BY <2>3 DEF Crash
      <4> HIDE DEF c
      <4> QED
        BY <4>2, <4>3 DEF Under, AppOf, Refreshing, InHandler, Free
    <3>4. Foreign(a)
      BY <3>1, <3>2, <3>3 DEF Foreign, Busy, Renewing, Under
    <3> QED
      BY <2>1, <3>4, ForeignSafe
  <2>4. ASSUME Next, \/ \E l \in Lockouts : CounterExpires(l) \/ BlockExpires(l)
                     \/ \E t \in DOMAIN sessions : Expire(t)
                     \/ \E i \in Idents, e \in Mails : ChangeMail(i, e)
        PROVE  Keeps(a)'
    <3>1. UNCHANGED <<calls, store, signed>>
      BY <2>4 DEF CounterExpires, BlockExpires, Expire, ChangeMail, pageVars
    <3>2. Foreign(a)
      BY <3>1 DEF Foreign
    <3> QED
      BY <2>1, <2>4, <3>2, ForeignSafe
  <2>5. ASSUME NEW b \in Apps, Logout(b), Next PROVE Keeps(a)'
    <3>1. /\ store' = [store EXCEPT ![b] = 0] /\ signed' = [signed EXCEPT ![b] = FALSE]
          /\ Disturb(b, Busy(b)) /\ calls' = calls
      BY <2>5 DEF Logout, PutTokens
    <3>2. CASE a = b
      <4>1. ~Busy(a)
        BY <3>1, <3>2 DEF Disturb, HistoryTypes
      <4>2. Settled(a)'
        BY <3>1, <3>2 DEF Settled, StoreType, HistoryTypes
      <4> QED
        BY <3>1, <4>1, <4>2 DEF Keeps, Alone, Busy, Under, AppOf
    <3>3. CASE a # b
      <4>1. Foreign(a)
        BY <3>1, <3>3 DEF Foreign, StoreType, HistoryTypes
      <4> QED
        BY <2>1, <2>5, <4>1, ForeignSafe
    <3> QED
      BY <3>2, <3>3
  <2> QED
    BY <2>1, <2>2, <2>3, <2>4, <2>5, BeginsKeep DEF Next
<1> QED
  BY <1>1, <1>2

-----------------------------------------------------------------------------
\* The theorem

\* Before anything happened nobody is signed in, and no storage holds a token.
LEMMA NobodyYet == Init => OwnPlaces /\ OneHolder /\ Undisturbed
<1> SUFFICES ASSUME Init PROVE OwnPlaces /\ OneHolder /\ Undisturbed
  OBVIOUS
<1>1. \A k \in Slots : calls[k].at = "free"
  BY DEF Init, Free
<1>2. DOMAIN sessions = {} /\ \A a \in Apps : store[a] = 0 /\ ~signed[a]
  BY DEF Init
<1> QED
  BY <1>1, <1>2 DEF OwnPlaces, OwnPlace, OneHolder, Undisturbed, Keeps, Settled, Alone, Under

\* Every step keeps who holds a token, and the sessions that nothing disturbs.
LEMMA HoldersKept ==
  IInv /\ OwnPlaces /\ OneHolder /\ Undisturbed /\ [Next]_vars
    => OwnPlaces' /\ OneHolder' /\ Undisturbed'
<1> SUFFICES ASSUME IInv, OwnPlaces, OneHolder, Undisturbed, [Next]_vars
             PROVE  OwnPlaces' /\ OneHolder' /\ Undisturbed'
  OBVIOUS
<1>1. HInv
  BY DEF IInv, HInv, Base
<1>2. CASE UNCHANGED vars
  <2>1. UNCHANGED <<calls, store, signed, disturbed, sessions>>
    BY <1>2 DEF vars, pageVars
  <2>2. OwnPlaces' /\ OneHolder'
    BY <2>1 DEF OwnPlaces, OwnPlace, OneHolder, Holds, Carrier, AppOf
  <2>3. Undisturbed'
    BY <2>1 DEF Undisturbed, Keeps, Settled, Renews, Renewing, Alone, Fine, Under, AppOf
  <2> QED
    BY <2>2, <2>3
<1>3. CASE Next
  <2>1. Undisturbed'
    BY <1>1, <1>3, SessionOfOneKept DEF Undisturbed
  <2>2. OwnPlaces' /\ OneHolder'
    BY <1>1, <1>3, PlacesKept, HolderKept DEF HInv, Base
  <2> QED
    BY <2>1, <2>2
<1> QED
  BY <1>2, <1>3

\* Who has signed in stays so until the logout, whatever the other applications, the other
\* users and the crashes do: while no page waits, the storage of an application that nothing
\* has disturbed holds a token the server takes, and after the logout it holds none.
THEOREM SessionsStay == Spec => []SessionKept
<1>1. Init => OwnPlaces /\ OneHolder /\ Undisturbed
  BY NobodyYet
<1>2. IInv /\ OwnPlaces /\ OneHolder /\ Undisturbed /\ [Next]_vars
        => OwnPlaces' /\ OneHolder' /\ Undisturbed'
  BY HoldersKept
<1>3. Undisturbed => SessionKept
  BY DEF Undisturbed, SessionKept, Keeps, Settled, Renews, Renewing, Busy, Under
<1> QED
  BY <1>1, <1>2, <1>3, Invariance, PTL DEF Spec
=============================================================================
