----------------------------- MODULE AuthTokens -----------------------------
(***************************************************************************)
(* AuthService, TokenService and the credential operations of              *)
(* UsersService: accounts, refresh tokens and one-time tokens under        *)
(* concurrent requests.                                                    *)
(*                                                                         *)
(* A request runs its statements one by one; none of them shares a         *)
(* transaction, so every statement is a step of its own and another        *)
(* request may run between any two.  The first step of a request takes its *)
(* input and makes its first statement.                                    *)
(*                                                                         *)
(* A token is named by the request that creates it (a request creates at   *)
(* most one), an account by its e-mail address, a password by the value    *)
(* whose bcrypt hash is stored (compare succeeds iff the values agree).    *)
(***************************************************************************)
EXTENDS Naturals

CONSTANTS Users, Passwords, Requests, None

Kinds == {"refresh", "reset", "verification"}
Ops == {"signin", "refresh", "logout", "forgot", "reset", "signup", "resend",
        "verify", "change", "remove", "profile"}

Row == [state : {"absent", "active", "removed"}, password : Passwords, verified : BOOLEAN]
Token == [kind : Kinds, user : Users, spent : BOOLEAN, expired : BOOLEAN]
Call == [op : Ops, user : Users, token : Requests \cup {None},
         password : Passwords \cup {None}]

\* None is NULL and the input a handler does not take.
ASSUME AuthAssumption ==
  None \notin Requests \cup Passwords \cup Row \cup Token \cup Call

VARIABLES
  users,      \* the users table; "removed" is deleted_at set
  tokens,     \* the three token tables; spent is revoked_at or used_at set
  delivered,  \* tokens whose raw value reached a cookie or a mail
  pc,         \* the next statement of each request
  call,       \* what the request was asked to do
  loaded,     \* the row of the user as the request read it
  todo,       \* statements of a Promise.all, or columns of a save, still to run
  \* History, read by the properties only.
  session,    \* the sign-in whose chain of refresh tokens a request continues
  before,     \* the tokens there were when the request started
  uses        \* how often a token was consumed

tables == <<users, tokens, delivered>>
history == <<session, before, uses>>
avars == <<tables, pc, call, loaded, todo, history>>

-----------------------------------------------------------------------------
(* Accounts with a password exist; everything else is made by requests. *)

Fresh == [state : {"absent", "active"}, password : Passwords, verified : {FALSE}]

AuthInit ==
  /\ users \in [Users -> Fresh]
  /\ tokens = [t \in Requests |-> None]
  /\ delivered = {}
  /\ pc = [r \in Requests |-> "new"]
  /\ call = [r \in Requests |-> None]
  /\ loaded = [r \in Requests |-> None]
  /\ todo = [r \in Requests |-> {}]
  /\ session = [r \in Requests |-> r]
  /\ before = [r \in Requests |-> {}]
  /\ uses = [t \in Requests |-> 0]

Active(u) == users[u].state = "active"
Issued == {t \in Requests : tokens[t] # None}

\* isActive, isUsable: what the validate functions read.
IsUsable(t) == ~tokens[t].spent /\ ~tokens[t].expired

Goto(r, label) == pc' = [pc EXCEPT ![r] = label]

\* The first step of a request: note the input, go to the next statement.
Begin(r, op, u, t, p, label) ==
  /\ pc[r] = "new"
  /\ Goto(r, label)
  /\ call' = [call EXCEPT ![r] = [op |-> op, user |-> u, token |-> t, password |-> p]]
  /\ loaded' = [loaded EXCEPT ![r] = users[u]]
  /\ before' = [before EXCEPT ![r] = Issued]
  /\ session' = [session EXCEPT ![r] = IF op = "refresh" THEN session[t] ELSE r]
  /\ UNCHANGED <<users, delivered, uses>>

-----------------------------------------------------------------------------
(* Handlers up to their first statement *)

\* signin: the row is read, the password compared.  (A form whose two passwords
\* differ is refused before the first statement and is not a request here.)
Signin(r, u, p) ==
  /\ Begin(r, "signin", u, None, p,
           IF Active(u) /\ users[u].password = p THEN "revoke" ELSE "failed")
  /\ UNCHANGED <<tokens, todo>>

Holds(kind, t) == t \in delivered /\ tokens[t].kind = kind

\* A variant of Present: refresh does not revoke the old token.
Present_NoRotation(r, op, kind, t, p) ==
  /\ Holds(kind, t)
  /\ Begin(r, op, tokens[t].user, t, p,
           IF ~IsUsable(t) THEN "failed" ELSE IF op = "refresh" THEN "create" ELSE "consume")
  /\ UNCHANGED <<tokens, todo>>

\* refresh, resetPassword and verifyEmail: the validate functions.
Present(r, op, kind, t, p) ==
  /\ Holds(kind, t)
  /\ Begin(r, op, tokens[t].user, t, p, IF IsUsable(t) THEN "consume" ELSE "failed")
  /\ UNCHANGED <<tokens, todo>>

Refresh(r, t) == Present(r, "refresh", "refresh", t, None)
ResetPassword(r, t, p) == Present(r, "reset", "reset", t, p)
VerifyEmail(r, t) == Present(r, "verify", "verification", t, None)

\* logout: one update by id, whatever state the token is in.
Logout(r, t) ==
  /\ Holds("refresh", t)
  /\ Begin(r, "logout", tokens[t].user, t, None, "answered")
  /\ tokens' = [tokens EXCEPT ![t].spent = TRUE]
  /\ UNCHANGED todo

\* forgotPassword answers the same for an unknown address.
ForgotPassword(r, u) ==
  /\ Begin(r, "forgot", u, None, None, IF Active(u) THEN "insert" ELSE "answered")
  /\ UNCHANGED <<tokens, todo>>

ResendVerification(r, u) ==
  /\ Begin(r, "resend", u, None, None,
           IF Active(u) /\ ~users[u].verified THEN "insert" ELSE "failed")
  /\ UNCHANGED <<tokens, todo>>

\* signup looks for a row that is not soft-deleted.
Signup(r, u, p) ==
  /\ Begin(r, "signup", u, None, p, IF Active(u) THEN "failed" ELSE "register")
  /\ UNCHANGED <<tokens, todo>>

\* A variant of Pair: the sessions are kept.
Pair_NoRevoke == {"write"}

\* Promise.all of a write to the user and of revokeAllUserTokens.
Pair == {"write", "revoke"}

\* changePassword compares the current password cur with the row.
ChangePassword(r, u, cur, p) ==
  LET ok == Active(u) /\ users[u].password = cur IN
  /\ Begin(r, "change", u, None, p, IF ok THEN "apply" ELSE "failed")
  /\ todo' = [todo EXCEPT ![r] = IF ok THEN Pair ELSE {}]
  /\ UNCHANGED tokens

\* UsersService.remove
Remove(r, u) ==
  /\ Begin(r, "remove", u, None, None, IF Active(u) THEN "apply" ELSE "failed")
  /\ todo' = [todo EXCEPT ![r] = IF Active(u) THEN Pair ELSE {}]
  /\ UNCHANGED tokens

\* updateProfile and setAvatar read the entity they will save.
ReadProfile(r, u) ==
  /\ Begin(r, "profile", u, None, None, IF Active(u) THEN "save" ELSE "failed")
  /\ UNCHANGED <<tokens, todo>>

-----------------------------------------------------------------------------
(* Later statements *)

\* revokeAllUserTokens
RevokeAll(u) ==
  tokens' = [t \in Requests |->
               IF t \in Issued /\ tokens[t].kind = "refresh" /\ tokens[t].user = u
               THEN [tokens[t] EXCEPT !.spent = TRUE] ELSE tokens[t]]

\* issueRefreshToken, its first statement
RevokeAtSignin(r) ==
  /\ pc[r] = "revoke"
  /\ RevokeAll(call[r].user)
  /\ Goto(r, "create")
  /\ UNCHANGED <<users, delivered, call, loaded, todo, history>>

NewToken(r, kind) ==
  [kind |-> kind, user |-> call[r].user, spent |-> FALSE, expired |-> FALSE]

\* createRefreshToken.  A refresh whose user was soft-deleted when the token
\* was read has no user to sign an access token for: the row is inserted, the
\* request fails.
CreateRefreshToken(r) ==
  LET ok == loaded[r].state = "active" IN
  /\ pc[r] = "create"
  /\ tokens' = [tokens EXCEPT ![r] = NewToken(r, "refresh")]
  /\ Goto(r, IF ok THEN "answered" ELSE "failed")
  /\ delivered' = IF ok THEN delivered \cup {r} ELSE delivered
  /\ UNCHANGED <<users, call, loaded, todo, history>>

\* issuePasswordResetToken, issueVerificationToken
InsertToken(r) ==
  /\ pc[r] = "insert"
  /\ tokens' = [tokens EXCEPT ![r] =
                  NewToken(r, IF call[r].op = "forgot" THEN "reset" ELSE "verification")]
  /\ Goto(r, "mail")
  /\ UNCHANGED <<users, delivered, call, loaded, todo, history>>

Mail(r) ==
  /\ pc[r] = "mail"
  /\ delivered' = delivered \cup {r}
  /\ Goto(r, "answered")
  /\ UNCHANGED <<users, tokens, call, loaded, todo, history>>

\* Only resendVerification reports the failed delivery.
MailFails(r) ==
  /\ pc[r] = "mail"
  /\ Goto(r, IF call[r].op = "resend" THEN "failed" ELSE "answered")
  /\ UNCHANGED <<tables, call, loaded, todo, history>>

\* A variant of Register: new addresses count as verified.
Register_Verified(r) ==
  LET u == call[r].user
      free == users[u].state = "absent" IN
  /\ pc[r] = "register"
  /\ users' = IF free THEN [users EXCEPT ![u] = [state |-> "active",
                              password |-> call[r].password, verified |-> TRUE]]
              ELSE users
  /\ Goto(r, IF free THEN "insert" ELSE "failed")
  /\ UNCHANGED <<tokens, delivered, call, loaded, todo, history>>

\* signup: INSERT INTO users; the unique index also sees soft-deleted rows.
Register(r) ==
  LET u == call[r].user
      free == users[u].state = "absent" IN
  /\ pc[r] = "register"
  /\ users' = IF free THEN [users EXCEPT ![u] = [state |-> "active",
                              password |-> call[r].password, verified |-> FALSE]]
              ELSE users
  /\ Goto(r, IF free THEN "insert" ELSE "failed")
  /\ UNCHANGED <<tokens, delivered, call, loaded, todo, history>>

\* A variant of Affected: the update does not test used_at or revoked_at.
Affected_AnyRow(r) == call[r].op = "verify" => ~tokens[call[r].token].expired

\* The conditional UPDATE of rotateRefreshToken, consumePasswordResetToken and
\* consumeVerificationToken; only the last one looks at expires_at again.
Affected(r) ==
  LET t == call[r].token IN
  ~tokens[t].spent /\ (call[r].op = "verify" => ~tokens[t].expired)

AfterConsume(op) == IF op = "refresh" THEN "create" ELSE IF op = "reset" THEN "apply" ELSE "mark"

Consume(r) ==
  /\ pc[r] = "consume"
  /\ Affected(r)
  /\ tokens' = [tokens EXCEPT ![call[r].token].spent = TRUE]
  /\ uses' = [uses EXCEPT ![call[r].token] = @ + 1]
  /\ Goto(r, AfterConsume(call[r].op))
  /\ todo' = [todo EXCEPT ![r] = IF call[r].op = "reset" THEN Pair ELSE {}]
  /\ UNCHANGED <<users, delivered, call, loaded, session, before>>

ConsumeMisses(r) ==
  /\ pc[r] = "consume"
  /\ ~Affected(r)
  /\ Goto(r, "failed")
  /\ UNCHANGED <<tables, call, loaded, todo, history>>

\* verifyEmail, its update of the user
MarkVerified(r) ==
  /\ pc[r] = "mark"
  /\ users' = [users EXCEPT ![call[r].user].verified = TRUE]
  /\ Goto(r, "answered")
  /\ UNCHANGED <<tokens, delivered, call, loaded, todo, history>>

\* One statement of a Promise.all is done.  The request is answered when both
\* are; after a failure the other one still runs.
Done(r, s) ==
  /\ s \in todo[r]
  /\ todo' = [todo EXCEPT ![r] = @ \ {s}]
  /\ Goto(r, IF pc[r] = "apply" /\ todo[r] = {s} THEN "answered" ELSE pc[r])
  /\ UNCHANGED <<delivered, call, loaded, history>>

\* The new password, or deleted_at.
WriteUser(r) ==
  /\ Done(r, "write")
  /\ users' = IF call[r].op = "remove"
              THEN [users EXCEPT ![call[r].user].state = "removed"]
              ELSE [users EXCEPT ![call[r].user].password = call[r].password]
  /\ UNCHANGED tokens

RevokeInPair(r) ==
  /\ Done(r, "revoke")
  /\ RevokeAll(call[r].user)
  /\ UNCHANGED users

\* userRepository.save, first half: read the row again (deleted or not) and
\* find the columns in which the entity differs.  The password is not selected,
\* so it is never among them.
Columns == {"state", "verified"}

SaveRead(r) ==
  /\ pc[r] = "save"
  /\ todo' = [todo EXCEPT ![r] = {c \in Columns : loaded[r][c] # users[call[r].user][c]}]
  /\ Goto(r, "saving")
  /\ UNCHANGED <<tables, call, loaded, history>>

\* Second half: UPDATE of these columns.
SaveWrite(r) ==
  LET u == call[r].user IN
  /\ pc[r] = "saving"
  /\ users' = [users EXCEPT
       ![u].state = IF "state" \in todo[r] THEN loaded[r].state ELSE @,
       ![u].verified = IF "verified" \in todo[r] THEN loaded[r].verified ELSE @]
  /\ todo' = [todo EXCEPT ![r] = {}]
  /\ Goto(r, "answered")
  /\ UNCHANGED <<tokens, delivered, call, loaded, history>>

-----------------------------------------------------------------------------
(* The environment *)

Ended == {"new", "answered", "failed"}

\* A statement fails or the process dies: nothing that was done is undone.
Stop(r) ==
  /\ pc[r] \notin Ended \/ todo[r] # {}
  /\ Goto(r, "failed")
  /\ todo' = [todo EXCEPT ![r] = {}]
  /\ UNCHANGED <<tables, call, loaded, history>>

\* One statement of a Promise.all fails, the other is under way.
HalfFails(r) ==
  /\ pc[r] = "apply"
  /\ todo[r] = Pair
  /\ \E s \in Pair : todo' = [todo EXCEPT ![r] = {s}]
  /\ Goto(r, "failed")
  /\ UNCHANGED <<tables, call, loaded, history>>

\* Time passes expires_at.
Expire(t) ==
  /\ t \in Issued
  /\ tokens' = [tokens EXCEPT ![t].expired = TRUE]
  /\ UNCHANGED <<users, delivered, pc, call, loaded, todo, history>>

-----------------------------------------------------------------------------
Receive(r) ==
  \/ \E u \in Users :
       \/ ForgotPassword(r, u) \/ ResendVerification(r, u) \/ Remove(r, u)
       \/ ReadProfile(r, u)
       \/ \E p \in Passwords :
            \/ Signin(r, u, p) \/ Signup(r, u, p)
            \/ \E cur \in Passwords : ChangePassword(r, u, cur, p)
  \/ \E t \in Requests :
       \/ Refresh(r, t) \/ Logout(r, t) \/ VerifyEmail(r, t)
       \/ \E p \in Passwords : ResetPassword(r, t, p)

Statement(r) ==
  \/ RevokeAtSignin(r) \/ CreateRefreshToken(r) \/ InsertToken(r) \/ Mail(r)
  \/ MailFails(r) \/ Register(r) \/ Consume(r) \/ ConsumeMisses(r) \/ MarkVerified(r)
  \/ WriteUser(r) \/ RevokeInPair(r) \/ SaveRead(r) \/ SaveWrite(r)

AuthNext ==
  \/ \E r \in Requests : Receive(r) \/ Statement(r) \/ Stop(r) \/ HalfFails(r)
  \/ \E t \in Requests : Expire(t)

AuthSpec == AuthInit /\ [][AuthNext]_avars

-----------------------------------------------------------------------------
(* Properties *)

Labels == Ended \cup {"revoke", "create", "insert", "mail", "register", "consume",
                      "mark", "apply", "save", "saving"}

\* Types of the tables and of the requests' state.
AuthTypeOK ==
  /\ users \in [Users -> Row]
  /\ tokens \in [Requests -> Token \cup {None}]
  /\ delivered \subseteq Requests
  /\ pc \in [Requests -> Labels]
  /\ call \in [Requests -> Call \cup {None}]
  /\ loaded \in [Requests -> Row \cup {None}]
  /\ todo \in [Requests -> SUBSET (Pair \cup Columns)]
  /\ session \in [Requests -> Requests]
  /\ before \in [Requests -> SUBSET Requests]
  /\ uses \in [Requests -> Nat]

Unspent(t) == t \in Issued /\ ~tokens[t].spent
UnspentRefresh(t) == Unspent(t) /\ tokens[t].kind = "refresh"

\* A reset, verification or refresh token takes effect at most once, although
\* any number of requests may have validated it (the conditional updates of
\* consumePasswordResetToken, consumeVerificationToken, rotateRefreshToken).
ConsumedOnce == \A t \in Requests : uses[t] <= 1

\* The refresh tokens that descend from one sign-in are a chain with at most
\* one live link, under concurrent refreshes, logouts and failures
\* (rotateRefreshToken).
OneTokenPerSession ==
  \A s, t \in Requests :
    UnspentRefresh(s) /\ UnspentRefresh(t) /\ session[s] = session[t] => s = t

\* A password reset, a password change and a removal that are answered have
\* revoked every refresh token the user had when they began (the Promise.all
\* of resetPassword, changePassword and remove).
RevokedOnSuccess ==
  \A r \in Requests :
    pc[r] = "answered" /\ call[r].op \in {"reset", "change", "remove"} =>
      \A t \in before[r] : UnspentRefresh(t) => tokens[t].user # call[r].user

\* A verified address was verified with a token issued for it: saves of stale
\* profiles never verify one (verifyEmail, updateProfile).
VerifiedByToken ==
  \A u \in Users : users[u].verified =>
    \E t \in Issued :
      tokens[t].kind = "verification" /\ tokens[t].user = u /\ tokens[t].spent

-----------------------------------------------------------------------------
(* The inductive invariant behind these properties *)

\* Which handlers reach which statement.
OpAtLabel ==
  \A r \in Requests :
    /\ pc[r] = "revoke" => call[r].op = "signin"
    /\ pc[r] = "create" => call[r].op \in {"signin", "refresh"}
    /\ pc[r] \in {"insert", "mail"} => call[r].op \in {"forgot", "resend", "signup"}
    /\ pc[r] = "register" => call[r].op = "signup"
    /\ pc[r] = "consume" => call[r].op \in {"refresh", "reset", "verify"}
    /\ pc[r] = "mark" => call[r].op = "verify"
    /\ pc[r] \in {"save", "saving"} => call[r].op = "profile"
    /\ pc[r] = "apply" => call[r].op \in {"reset", "change", "remove"}

Pending(op) == IF op = "profile" THEN Columns
               ELSE IF op \in {"reset", "change", "remove"} THEN Pair ELSE {}

\* A started request has its input; a statement is pending only in a
\* Promise.all or in a save.
CallsRecorded ==
  \A r \in Requests :
    /\ pc[r] = "new" => todo[r] = {}
    /\ pc[r] \in {"new", "revoke"} => session[r] = r
    /\ pc[r] # "new" => call[r] \in Call /\ loaded[r] \in Row
    /\ call[r] # None /\ call[r].op \in {"signup", "reset", "change"}
         => call[r].password \in Passwords
    /\ todo[r] # {} => /\ pc[r] \in {"apply", "failed", "saving"}
                       /\ todo[r] \subseteq Pending(call[r].op)

KindTaken(op) == IF op = "refresh" THEN "refresh" ELSE IF op = "reset" THEN "reset"
                 ELSE "verification"

\* The token a request is about to consume was issued to its user, for its
\* handler, in its session.
TokensPresented ==
  \A r \in Requests : pc[r] = "consume" =>
    /\ call[r].token \in Issued
    /\ tokens[call[r].token].kind = KindTaken(call[r].op)
    /\ tokens[call[r].token].user = call[r].user
    /\ call[r].op = "refresh" => session[r] = session[call[r].token]

\* A token is created by the last statement but the mail, and delivered and
\* recorded by others only after that.
TokensIssuedLate ==
  /\ \A r \in Issued : pc[r] \in {"mail", "answered", "failed"}
  /\ \A r \in Requests : pc[r] = "mail" => r \in Issued
  /\ delivered \subseteq Issued
  /\ \A r \in Requests : before[r] \subseteq Issued
  /\ \A r \in Requests : session[r] # r => session[r] \in Issued

UsedIsSpent ==
  \A t \in Requests : uses[t] # 0 => uses[t] = 1 /\ t \in Issued /\ tokens[t].spent

\* A rotation between its two statements counts as the live link of its chain.
Live(t) == UnspentRefresh(t) \/ pc[t] = "create"

OneLivePerSession ==
  \A s, t \in Requests : Live(s) /\ Live(t) /\ session[s] = session[t] => s = t

\* Once the revocation of the pair is done, the tokens from before are spent.
RevokedWhenDone ==
  \A r \in Requests :
    /\ \/ pc[r] = "apply" /\ "revoke" \notin todo[r]
       \/ pc[r] = "answered"
    /\ call[r].op \in {"reset", "change", "remove"}
    => \A t \in before[r] : UnspentRefresh(t) => tokens[t].user # call[r].user

ProvedAddress(u) ==
  \E t \in Issued :
    tokens[t].kind = "verification" /\ tokens[t].user = u /\ tokens[t].spent

\* Also the rows that requests hold, and a verification before its update.
VerifiedTraced ==
  /\ \A u \in Users : users[u].verified => ProvedAddress(u)
  /\ \A r \in Requests :
       /\ pc[r] # "new" /\ loaded[r].verified => ProvedAddress(call[r].user)
       /\ pc[r] = "mark" => ProvedAddress(call[r].user)

AuthInv ==
  /\ AuthTypeOK
  /\ OpAtLabel /\ CallsRecorded /\ TokensPresented /\ TokensIssuedLate
  /\ UsedIsSpent /\ OneLivePerSession /\ RevokedWhenDone /\ VerifiedTraced
=============================================================================
