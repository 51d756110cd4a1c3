------------------------------ MODULE Accounts ------------------------------
(***************************************************************************)
(* 07-authentication over security/jwt: users and refresh sessions in      *)
(* SQLite, tokens that carry their user, role and the SECOND they were     *)
(* made.  Two tokens of one user made in one second are the same token,    *)
(* and the sessions table holds a token once.  Every database call is a    *)
(* step of its own, others run in between, and it may fail.  Hashing and   *)
(* signing are external.  Bounds: seconds 0..LastSecond, and ACalls calls. *)
(***************************************************************************)
EXTENDS Naturals, FiniteSets

CONSTANTS
  AClients, AccountIDs, Emails,
  AccessTTL, RefreshTTL,   \* in seconds
  LastSecond, ACalls       \* bounds

ASSUME AccountsAssumption == {AccessTTL, RefreshTTL} \subseteq Nat \ {0} /\ {LastSecond, ACalls} \subseteq Nat

Roles == {"admin", "user"}

VARIABLES
  now,
  users,      \* rows: [id, email, role]
  sessions,   \* rows: [token, user, expires]
  acall,      \* per client, its call
  handed,     \* refresh tokens that a call answered with
  access,     \* access tokens that a call answered with
  acalls,     \* calls made
  spent,      \* history: tokens that a refresh answered for, and no session was stored for since
  doubtful,   \* history: tokens two refreshes held at once, or whose session was not deleted
  removed,    \* history: IDs whose row was deleted
  raced       \* history: IDs with a login or refresh under way while they were deleted

accLog == <<spent, doubtful, removed, raced>>
accVars == <<now, users, sessions, acall, handed, access, acalls, accLog>>

ANone == [op |-> "none", at |-> "idle", user |-> "none", email |-> "none", role |-> "none",
          token |-> [kind |-> "none"], new |-> [kind |-> "none"]]

AInit ==
  /\ now = 0 /\ users = {} /\ sessions = {} /\ handed = {} /\ access = {} /\ acalls = 0
  /\ spent = {} /\ doubtful = {} /\ removed = {} /\ raced = {}
  /\ acall = [c \in AClients |-> ANone]

ATypeOK ==
  /\ now \in 0..LastSecond /\ acalls \in 0..ACalls
  /\ \A u \in users : u.id \in AccountIDs /\ u.email \in Emails /\ u.role \in Roles
  /\ \A s \in sessions : s.token.kind = "refresh"

Tick == now < LastSecond /\ now' = now + 1
        /\ UNCHANGED <<users, sessions, acall, handed, access, acalls, accLog>>

-----------------------------------------------------------------------------
(* security/jwt                                                            *)

generateToken(kind, u, role) == [kind |-> kind, user |-> u, role |-> role, iat |-> now]

TTL(t) == IF t.kind = "access" THEN AccessTTL ELSE RefreshTTL

\* Decoded: signed by us and before its expiry.
DecodeToken(t) == now < t.iat + TTL(t)

IsRefreshToken(t) == t.kind = "refresh"
IsAccessToken(t) == t.kind = "access"

\* AuthMiddleware and RequireRole: the token decides alone.
Authorized(t, roles) == DecodeToken(t) /\ IsAccessToken(t) /\ t.role \in roles

-----------------------------------------------------------------------------
(* The repositories                                                        *)

ByEmail(e) == {u \in users : u.email = e}
ByID(id) == {u \in users : u.id = id}
ByToken(t) == {s \in sessions : s.token = t}

\* INSERT INTO users: email is UNIQUE.
CreateUser(u) ==
  users' = IF ByEmail(u.email) # {} \/ ByID(u.id) # {} THEN users ELSE users \cup {u}

SessionFor(t) == [token |-> t, user |-> t.user, expires |-> now + RefreshTTL]

-----------------------------------------------------------------------------
(* The service                                                             *)

BeginCall(c, r) ==
  /\ acall[c].at = "idle" /\ acalls < ACalls /\ acalls' = acalls + 1
  /\ acall' = [acall EXCEPT ![c] = r]

Onward(c, r) == acall' = [acall EXCEPT ![c] = r] /\ UNCHANGED acalls
ReturnCall(c) == Onward(c, ANone)

\* The calls that may yet store a session of this user.
Entering(id) == {d \in AClients : acall[d].op \in {"Login", "Refresh"} /\ acall[d].user = id}
Deleting(id) == {d \in AClients : acall[d].at = "row" /\ acall[d].user = id}
Refreshing(t) == {d \in AClients : acall[d].op = "Refresh" /\ acall[d].token = t}

\* Register: is the email taken?  The ID is a new UUID.
Register(c, id, e, role) ==
  /\ \A d \in AClients : acall[d].user # id
  /\ ByID(id) = {} /\ id \notin removed
  /\ BeginCall(c, IF ByEmail(e) # {} THEN ANone
                  ELSE [ANone EXCEPT !.op = "Register", !.at = "insert", !.user = id, !.email = e, !.role = role])
  /\ UNCHANGED <<now, users, sessions, handed, access, accLog>>

RegisterInsert(c) ==
  /\ acall[c].at = "insert"
  /\ CreateUser([id |-> acall[c].user, email |-> acall[c].email, role |-> acall[c].role])
  /\ ReturnCall(c) /\ UNCHANGED <<now, sessions, handed, access, accLog>>

\* Login: the user, the password, the tokens.
Login(c, e) ==
  /\ UNCHANGED <<now, users, sessions, handed, access, spent, doubtful, removed>>
  /\ \/ ByEmail(e) = {} /\ BeginCall(c, ANone) /\ UNCHANGED raced
     \/ \E u \in ByEmail(e) :
          /\ BeginCall(c, [ANone EXCEPT !.op = "Login", !.at = "session", !.user = u.id, !.role = u.role,
                                        !.new = generateToken("refresh", u.id, u.role)])
          /\ raced' = IF Deleting(u.id) # {} THEN raced \cup {u.id} ELSE raced

\* INSERT INTO sessions: a token already in the table is an error.
StoreSession(c, next) ==
  LET t == acall[c].new IN
  /\ ByToken(t) = {}
  /\ sessions' = sessions \cup {SessionFor(t)} /\ spent' = spent \ {t}
  /\ Onward(c, next) /\ UNCHANGED <<now, users, doubtful, removed, raced>>

\* The pair of tokens is the caller's.
AnswerTokens(t) == handed' = handed \cup {t} /\ access' = access \cup {[t EXCEPT !.kind = "access"]}

LoginSession(c) ==
  /\ acall[c].op = "Login" /\ acall[c].at = "session"
  /\ StoreSession(c, ANone) /\ AnswerTokens(acall[c].new)

\* RefreshToken: the token, its session, the user, the new session, the old one gone.
RefreshToken(c, t) ==
  /\ UNCHANGED <<now, users, handed, access, spent, removed, raced>>
  /\ IF ~DecodeToken(t) \/ ~IsRefreshToken(t) \/ ByToken(t) = {}
     THEN BeginCall(c, ANone) /\ UNCHANGED <<sessions, doubtful>>
     ELSE \E s \in ByToken(t) :
            IF now > s.expires
            THEN BeginCall(c, ANone) /\ sessions' = sessions \ {s} /\ UNCHANGED doubtful
            ELSE /\ BeginCall(c, [ANone EXCEPT !.op = "Refresh", !.at = "user", !.token = t, !.user = s.user])
                 /\ doubtful' = IF Refreshing(t) # {} THEN doubtful \cup {t} ELSE doubtful
                 /\ UNCHANGED sessions

RefreshUser(c) ==
  /\ acall[c].at = "user" /\ UNCHANGED <<now, users, sessions, handed, access, accLog>>
  /\ \/ ByID(acall[c].user) = {} /\ ReturnCall(c)
     \/ \E u \in ByID(acall[c].user) :
          Onward(c, [acall[c] EXCEPT !.at = "session", !.new = generateToken("refresh", u.id, u.role)])

RefreshSession(c) ==
  /\ acall[c].op = "Refresh" /\ acall[c].at = "session"
  /\ StoreSession(c, [acall[c] EXCEPT !.at = "drop"]) /\ UNCHANGED <<handed, access>>

\* Mutant of RefreshDrop: the old session is left to run out.
RefreshDropKeeps(c) ==
  /\ acall[c].at = "drop" /\ AnswerTokens(acall[c].new) /\ ReturnCall(c)
  /\ spent' = spent \cup {acall[c].token}
  /\ UNCHANGED <<now, users, sessions, doubtful, removed, raced>>

\* An error of this DELETE is ignored, the caller gets the new tokens all the same.
RefreshDrop(c) ==
  /\ acall[c].at = "drop" /\ AnswerTokens(acall[c].new) /\ ReturnCall(c)
  /\ spent' = spent \cup {acall[c].token}
  /\ \/ sessions' = sessions \ ByToken(acall[c].token) /\ UNCHANGED doubtful
     \/ doubtful' = doubtful \cup {acall[c].token} /\ UNCHANGED sessions
  /\ UNCHANGED <<now, users, removed, raced>>

Logout(c, t) ==
  /\ BeginCall(c, ANone) /\ UNCHANGED <<now, users, handed, access, accLog>>
  /\ sessions' = sessions \ ByToken(t)

\* An admin's request: first the user's sessions, then the user.
DeleteUser(c, t, id) ==
  /\ UNCHANGED <<now, users, handed, access, spent, doubtful, removed>>
  /\ IF ~Authorized(t, {"admin"}) THEN BeginCall(c, ANone) /\ UNCHANGED <<sessions, raced>>
     ELSE /\ BeginCall(c, [ANone EXCEPT !.op = "Delete", !.at = "row", !.user = id])
          /\ sessions' = {s \in sessions : s.user # id}
          /\ raced' = IF Entering(id) # {} THEN raced \cup {id} ELSE raced

DeleteUserRow(c) ==
  /\ acall[c].at = "row" /\ ReturnCall(c)
  /\ users' = users \ ByID(acall[c].user)
  /\ removed' = IF ByID(acall[c].user) # {} THEN removed \cup {acall[c].user} ELSE removed
  /\ UNCHANGED <<now, sessions, handed, access, spent, doubtful, raced>>

\* A database call of a request fails, its first one or a later one, and the request
\* answers with the error; what it has done so far stays.
DatabaseFails(c) ==
  /\ acall[c].at # "drop"
  /\ BeginCall(c, ANone) \/ (acall[c].at # "idle" /\ ReturnCall(c))
  /\ UNCHANGED <<now, users, sessions, handed, access, accLog>>

ANext ==
  \/ Tick
  \/ \E c \in AClients :
       \/ \E id \in AccountIDs, e \in Emails, role \in Roles : Register(c, id, e, role)
       \/ \E e \in Emails : Login(c, e)
       \/ \E t \in handed : RefreshToken(c, t) \/ Logout(c, t)
       \/ \E t \in access, id \in AccountIDs : DeleteUser(c, t, id)
       \/ RegisterInsert(c) \/ LoginSession(c) \/ RefreshUser(c) \/ RefreshSession(c)
       \/ RefreshDrop(c) \/ DeleteUserRow(c) \/ DatabaseFails(c)

ASpec == AInit /\ [][ANext]_accVars

-----------------------------------------------------------------------------
(* Properties                                                              *)

\* A refresh token works once: no call is let through with a token that an earlier
\* refresh already answered for, unless two refreshes held it at once or the ignored
\* DELETE of its session failed.  And a deleted user is out: no session of theirs is
\* left, unless a login or a refresh of theirs ran while they were deleted.
SessionsFollowTokens ==
  /\ \A t \in spent \ doubtful : Refreshing(t) = {}
  /\ \A id \in removed \ raced : \A s \in sessions : s.user # id
=============================================================================
