-------------------------- MODULE AuthTokensProofs --------------------------
(***************************************************************************)
(* Proofs about AuthTokens: AuthInv is inductive, and the safety           *)
(* properties follow from it.                                              *)
(***************************************************************************)
EXTENDS AuthTokens, TLAPS

\* The first step of a request, for a handler that goes to label with the
\* statements S pending and leaves the tokens alone.
LEMMA BeginPreserves ==
  ASSUME AuthInv, NEW r \in Requests, NEW op \in Ops, NEW u \in Users,
         NEW t \in Requests \cup {None}, NEW p \in Passwords \cup {None},
         NEW label \in {"revoke", "insert", "register", "consume", "save", "apply",
                        "answered", "failed"},
         NEW S \in {{}, Pair},
         Begin(r, op, u, t, p, label),
         todo' = [todo EXCEPT ![r] = S],
         tokens' = tokens,
         label = "revoke" => op = "signin",
         label = "insert" => op \in {"forgot", "resend"},
         label = "register" => op = "signup",
         label = "consume" => /\ op \in {"refresh", "reset", "verify"}
                              /\ tokens[t].kind = KindTaken(op)
                              /\ tokens[t].user = u,
         label = "save" => op = "profile",
         label = "apply" <=> S = Pair,
         label = "apply" => op \in {"change", "remove"},
         label = "answered" => op = "forgot",
         op \in {"signup", "reset", "change"} => p \in Passwords,
         op \in {"refresh", "reset", "verify"} => t \in Issued
  PROVE  AuthInv'
<1> USE AuthAssumption DEF AuthInv
<1> DEFINE c == [op |-> op, user |-> u, token |-> t, password |-> p]
<1>1. /\ pc[r] = "new" /\ tokens[r] = None /\ r \notin delivered
      /\ todo[r] = {} /\ users[u] \in Row /\ c \in Call
  BY DEF Begin, AuthTypeOK, CallsRecorded, TokensIssuedLate, Issued, Call
<1>2. /\ pc'[r] = label /\ call'[r] = c /\ loaded'[r] = users[u]
      /\ before'[r] = Issued /\ todo'[r] = S
      /\ session'[r] = IF op = "refresh" THEN session[t] ELSE r
  BY DEF Begin, Goto, AuthTypeOK
<1>3. \A x \in Requests \ {r} :
         /\ pc'[x] = pc[x] /\ call'[x] = call[x] /\ loaded'[x] = loaded[x]
         /\ before'[x] = before[x] /\ todo'[x] = todo[x] /\ session'[x] = session[x]
  BY DEF Begin, Goto, AuthTypeOK
<1>4. users' = users /\ delivered' = delivered /\ uses' = uses /\ Issued' = Issued
  BY DEF Begin, Issued
<1>5. c.op = op /\ c.user = u /\ c.token = t /\ c.password = p
  OBVIOUS
<1> HIDE DEF c
<1>6. AuthTypeOK'
  <2>1. session' \in [Requests -> Requests] /\ before' \in [Requests -> SUBSET Requests]
    BY DEF Begin, AuthTypeOK, Issued
  <2>2. pc' \in [Requests -> Labels]
    BY DEF Begin, Goto, AuthTypeOK, Labels, Ended
  <2>3. call' \in [Requests -> Call \cup {None}]
    BY <1>1 DEF Begin, AuthTypeOK, c
  <2>4. loaded' \in [Requests -> Row \cup {None}] /\ todo' \in [Requests -> SUBSET (Pair \cup Columns)]
    BY <1>1 DEF Begin, AuthTypeOK
  <2>5. QED
    BY <1>4, <2>1, <2>2, <2>3, <2>4 DEF AuthTypeOK
<1>7. OpAtLabel'
  BY <1>2, <1>3, <1>5 DEF OpAtLabel
<1>8. CallsRecorded'
  BY <1>1, <1>2, <1>3, <1>5 DEF CallsRecorded, Pair, Pending
<1>9. TokensPresented'
  BY <1>1, <1>2, <1>3, <1>4, <1>5 DEF TokensPresented, TokensIssuedLate, Issued
<1>10. TokensIssuedLate'
  BY <1>1, <1>2, <1>3, <1>4 DEF TokensIssuedLate, Issued
<1>11. UsedIsSpent'
  BY <1>4 DEF UsedIsSpent
<1>12. OneLivePerSession'
  BY <1>1, <1>2, <1>3, <1>4 DEF OneLivePerSession, Live, UnspentRefresh, Unspent, Issued
<1>13. RevokedWhenDone'
  BY <1>2, <1>3, <1>4, <1>5 DEF RevokedWhenDone, UnspentRefresh, Unspent, Pair
<1>14. VerifiedTraced'
  BY <1>2, <1>3, <1>4, <1>5 DEF VerifiedTraced, ProvedAddress
<1>15. QED
  BY <1>6, <1>7, <1>8, <1>9, <1>10, <1>11, <1>12, <1>13, <1>14

\* Handlers whose first statement only reads a user.
LEMMA UserReadsPreserve ==
  ASSUME AuthInv, NEW r \in Requests, NEW u \in Users,
         \/ ForgotPassword(r, u) \/ ResendVerification(r, u) \/ Remove(r, u)
         \/ ReadProfile(r, u)
  PROVE  AuthInv'
<1> USE DEF AuthInv
<1>1. pc[r] = "new" => todo = [todo EXCEPT ![r] = {}]
  BY DEF AuthTypeOK, CallsRecorded
<1>2. CASE ForgotPassword(r, u)
  <2> DEFINE label == IF Active(u) THEN "insert" ELSE "answered"
  <2>1. Begin(r, "forgot", u, None, None, label) /\ todo' = [todo EXCEPT ![r] = {}] /\ tokens' = tokens
    BY <1>1, <1>2 DEF ForgotPassword, Begin
  <2>2. label \in {"insert", "answered"}
    OBVIOUS
  <2> HIDE DEF label
  <2>3. QED
    BY <2>1, <2>2, BeginPreserves DEF Ops, Pair
<1>3. CASE ResendVerification(r, u)
  <2> DEFINE label == IF Active(u) /\ ~users[u].verified THEN "insert" ELSE "failed"
  <2>1. Begin(r, "resend", u, None, None, label) /\ todo' = [todo EXCEPT ![r] = {}] /\ tokens' = tokens
    BY <1>1, <1>3 DEF ResendVerification, Begin
  <2>2. label \in {"insert", "failed"}
    OBVIOUS
  <2> HIDE DEF label
  <2>3. QED
    BY <2>1, <2>2, BeginPreserves DEF Ops, Pair
<1>4. CASE ReadProfile(r, u)
  <2> DEFINE label == IF Active(u) THEN "save" ELSE "failed"
  <2>1. Begin(r, "profile", u, None, None, label) /\ todo' = [todo EXCEPT ![r] = {}] /\ tokens' = tokens
    BY <1>1, <1>4 DEF ReadProfile, Begin
  <2>2. label \in {"save", "failed"}
    OBVIOUS
  <2> HIDE DEF label
  <2>3. QED
    BY <2>1, <2>2, BeginPreserves DEF Ops, Pair
<1>5. CASE Remove(r, u)
  <2>1. CASE Active(u)
    <3>1. Begin(r, "remove", u, None, None, "apply") /\ todo' = [todo EXCEPT ![r] = Pair] /\ tokens' = tokens
      BY <1>5, <2>1 DEF Remove
    <3>2. QED
      BY <3>1, BeginPreserves DEF Ops
  <2>2. CASE ~Active(u)
    <3>1. Begin(r, "remove", u, None, None, "failed") /\ todo' = [todo EXCEPT ![r] = {}] /\ tokens' = tokens
      BY <1>5, <2>2 DEF Remove
    <3>2. QED
      BY <3>1, BeginPreserves DEF Ops, Pair
  <2>3. QED
    BY <2>1, <2>2
<1>6. QED
  BY <1>2, <1>3, <1>4, <1>5

\* The same with a password to set or to compare.
LEMMA CredentialsPreserve ==
  ASSUME AuthInv, NEW r \in Requests, NEW u \in Users, NEW p \in Passwords,
         NEW q \in Passwords,
         Signin(r, u, p) \/ Signup(r, u, p) \/ ChangePassword(r, u, q, p)
  PROVE  AuthInv'
<1> USE DEF AuthInv
<1>1. pc[r] = "new" => todo = [todo EXCEPT ![r] = {}]
  BY DEF AuthTypeOK, CallsRecorded
<1>2. CASE Signin(r, u, p)
  <2> DEFINE label == IF Active(u) /\ users[u].password = p THEN "revoke" ELSE "failed"
  <2>1. Begin(r, "signin", u, None, p, label) /\ todo' = [todo EXCEPT ![r] = {}] /\ tokens' = tokens
    BY <1>1, <1>2 DEF Signin, Begin
  <2>2. label \in {"revoke", "failed"}
    OBVIOUS
  <2> HIDE DEF label
  <2>3. QED
    BY <2>1, <2>2, BeginPreserves DEF Ops, Pair
<1>3. CASE Signup(r, u, p)
  <2> DEFINE label == IF Active(u) THEN "failed" ELSE "register"
  <2>1. Begin(r, "signup", u, None, p, label) /\ todo' = [todo EXCEPT ![r] = {}] /\ tokens' = tokens
    BY <1>1, <1>3 DEF Signup, Begin
  <2>2. label \in {"failed", "register"}
    OBVIOUS
  <2> HIDE DEF label
  <2>3. QED
    BY <2>1, <2>2, BeginPreserves DEF Ops, Pair
<1>4. CASE ChangePassword(r, u, q, p)
  <2>1. CASE Active(u) /\ users[u].password = q
    <3>1. Begin(r, "change", u, None, p, "apply") /\ todo' = [todo EXCEPT ![r] = Pair] /\ tokens' = tokens
      BY <1>4, <2>1 DEF ChangePassword
    <3>2. QED
      BY <3>1, BeginPreserves DEF Ops
  <2>2. CASE ~(Active(u) /\ users[u].password = q)
    <3>1. Begin(r, "change", u, None, p, "failed") /\ todo' = [todo EXCEPT ![r] = {}] /\ tokens' = tokens
      BY <1>4, <2>2 DEF ChangePassword
    <3>2. QED
      BY <3>1, BeginPreserves DEF Ops, Pair
  <2>3. QED
    BY <2>1, <2>2
<1>5. QED
  BY <1>2, <1>3, <1>4

\* Handlers that validate a token they are given.
LEMMA PresentPreserves ==
  ASSUME AuthInv, NEW r \in Requests, NEW t \in Requests,
         \/ Refresh(r, t) \/ VerifyEmail(r, t)
         \/ \E p \in Passwords : ResetPassword(r, t, p)
  PROVE  AuthInv'
<1> USE DEF AuthInv
<1> DEFINE label == IF IsUsable(t) THEN "consume" ELSE "failed"
           u == tokens[t].user
<1>1. PICK op \in {"refresh", "reset", "verify"}, q \in Passwords \cup {None} :
         /\ Present(r, op, KindTaken(op), t, q)
         /\ op = "reset" => q \in Passwords
  BY DEF Refresh, ResetPassword, VerifyEmail, KindTaken
<1>2. /\ Begin(r, op, u, t, q, label) /\ tokens' = tokens /\ todo' = todo
      /\ t \in Issued /\ tokens[t].kind = KindTaken(op)
  BY <1>1 DEF Present, Holds, TokensIssuedLate
<1>3. todo' = [todo EXCEPT ![r] = {}]
  BY <1>2 DEF AuthTypeOK, CallsRecorded, Begin
<1>4. u \in Users /\ label \in {"consume", "failed"} /\ op \in Ops
  BY <1>2 DEF AuthTypeOK, Issued, Token, Ops
<1>5. tokens[t].user = u
  OBVIOUS
<1> HIDE DEF u, label
<1>6. CASE label = "consume"
  <2>1. Begin(r, op, u, t, q, "consume")
    BY <1>2, <1>6
  <2>2. QED
    BY <1>1, <1>2, <1>3, <1>4, <1>5, <2>1, BeginPreserves DEF Pair
<1>7. CASE label = "failed"
  <2>1. Begin(r, op, u, t, q, "failed")
    BY <1>2, <1>7
  <2>2. QED
    BY <1>1, <1>2, <1>3, <1>4, <1>5, <2>1, BeginPreserves DEF Pair
<1>8. QED
  BY <1>4, <1>6, <1>7

\* Steps that leave the tokens alone: they move a request, change its pending
\* statements, write a user or deliver the request's token.
LEMMA MovePreserves ==
  ASSUME AuthInv, NEW r \in Requests,
         NEW label \in {"answered", "failed", "saving", "insert", "apply"},
         NEW S \in SUBSET (Pair \cup Columns),
         pc[r] # "new",
         pc' = [pc EXCEPT ![r] = label],
         todo' = [todo EXCEPT ![r] = S],
         UNCHANGED <<tokens, call, loaded, history>>,
         users' \in [Users -> Row],
         \A u \in Users : users'[u].verified => ProvedAddress(u),
         delivered' \in {delivered, delivered \cup {r}},
         r \in delivered' => r \in Issued,
         label = "answered" /\ call[r].op \in {"reset", "change", "remove"}
           => pc[r] = "apply" /\ S = todo[r] \ {"write"},
         label = "saving" => pc[r] = "save",
         label = "insert" => pc[r] = "register",
         label = "apply" => pc[r] = "apply" /\ S = todo[r] \ {"write"},
         S # {} => label \in {"failed", "saving", "apply"} /\ S \subseteq Pending(call[r].op)
  PROVE  AuthInv'
<1> USE DEF AuthInv
<1>1. /\ pc'[r] = label /\ todo'[r] = S
      /\ \A x \in Requests \ {r} : pc'[x] = pc[x] /\ todo'[x] = todo[x]
  BY DEF AuthTypeOK
<1>2. /\ tokens' = tokens /\ call' = call /\ loaded' = loaded
      /\ session' = session /\ before' = before /\ uses' = uses /\ Issued' = Issued
  BY DEF history, Issued
<1>3. AuthTypeOK'
  <2>1. pc' \in [Requests -> Labels] /\ todo' \in [Requests -> SUBSET (Pair \cup Columns)]
    BY DEF AuthTypeOK, Labels, Ended
  <2>2. QED
    BY <1>2, <2>1 DEF AuthTypeOK
<1>4. OpAtLabel'
  BY <1>1, <1>2 DEF OpAtLabel
<1>5. CallsRecorded'
  BY <1>1, <1>2 DEF CallsRecorded
<1>6. TokensPresented'
  BY <1>1, <1>2 DEF TokensPresented
<1>7. TokensIssuedLate'
  BY <1>1, <1>2 DEF TokensIssuedLate, Issued
<1>8. UsedIsSpent'
  BY <1>2 DEF UsedIsSpent
<1>9. OneLivePerSession'
  BY <1>1, <1>2 DEF OneLivePerSession, Live, UnspentRefresh, Unspent
<1>10. RevokedWhenDone'
  BY <1>1, <1>2 DEF RevokedWhenDone, UnspentRefresh, Unspent
<1>11. VerifiedTraced'
  BY <1>1, <1>2 DEF VerifiedTraced, ProvedAddress
<1>12. QED
  BY <1>3, <1>4, <1>5, <1>6, <1>7, <1>8, <1>9, <1>10, <1>11

\* Statements that write no user and no token: a mail, a missed update, the
\* read of a save, and failures.
LEMMA MovesPreserve ==
  ASSUME AuthInv, NEW r \in Requests,
         \/ Mail(r) \/ MailFails(r) \/ ConsumeMisses(r) \/ SaveRead(r) \/ Stop(r)
         \/ HalfFails(r)
  PROVE  AuthInv'
<1> USE DEF AuthInv
<1>1. todo[r] = {} => todo = [todo EXCEPT ![r] = {}]
  BY DEF AuthTypeOK
<1>0. users' = users => /\ users' \in [Users -> Row]
                        /\ \A u \in Users : users'[u].verified => ProvedAddress(u)
  BY DEF AuthTypeOK, VerifiedTraced
<1>2. CASE Mail(r)
  <2>1. todo' = [todo EXCEPT ![r] = {}] /\ r \in Issued
    BY <1>1, <1>2 DEF Mail, CallsRecorded, TokensIssuedLate
  <2>2. call[r].op \notin {"reset", "change", "remove"}
    BY <1>2 DEF Mail, OpAtLabel
  <2>3. QED
    BY <1>2, <2>1, <2>2, <1>0, MovePreserves DEF Mail, Goto
<1>3. CASE MailFails(r)
  <2>1. todo' = [todo EXCEPT ![r] = {}] /\ delivered' = delivered /\ delivered \subseteq Issued
    BY <1>1, <1>3 DEF MailFails, CallsRecorded, TokensIssuedLate, tables
  <2>2. call[r].op \notin {"reset", "change", "remove"}
    BY <1>3 DEF MailFails, OpAtLabel
  <2>3. PICK label \in {"answered", "failed"} : pc' = [pc EXCEPT ![r] = label]
    BY <1>3 DEF MailFails, Goto
  <2>4. pc[r] # "new" /\ UNCHANGED <<users, tokens, call, loaded, history>>
    BY <1>3 DEF MailFails, tables
  <2>5. CASE label = "answered"
    BY <2>1, <2>2, <2>3, <2>4, <2>5, <1>0, MovePreserves
  <2>6. CASE label = "failed"
    BY <2>1, <2>2, <2>3, <2>4, <2>6, <1>0, MovePreserves
  <2>7. QED
    BY <2>3, <2>5, <2>6
<1>4. CASE ConsumeMisses(r)
  <2>1. todo' = [todo EXCEPT ![r] = {}] /\ delivered' = delivered
    BY <1>1, <1>4 DEF ConsumeMisses, CallsRecorded, tables
  <2>2. QED
    BY <1>4, <2>1, <1>0, MovePreserves DEF ConsumeMisses, Goto, TokensIssuedLate, tables
<1>5. CASE SaveRead(r)
  <2>1. PICK S \in SUBSET Columns : todo' = [todo EXCEPT ![r] = S]
    BY <1>5 DEF SaveRead
  <2>2. S \subseteq Pending(call[r].op)
    BY <1>5, <2>1 DEF SaveRead, OpAtLabel, Pending
  <2>3. QED
    BY <1>5, <2>1, <2>2, <1>0, MovePreserves DEF SaveRead, Goto, TokensIssuedLate, tables
<1>6. CASE Stop(r)
  <2>1. pc[r] # "new"
    BY <1>6 DEF Stop, Ended, CallsRecorded
  <2>2. QED
    BY <1>6, <2>1, <1>0, MovePreserves DEF Stop, Goto, TokensIssuedLate, tables
<1>7. CASE HalfFails(r)
  <2>1. PICK s \in Pair : todo' = [todo EXCEPT ![r] = {s}]
    BY <1>7 DEF HalfFails
  <2>2. /\ pc[r] # "new" /\ pc' = [pc EXCEPT ![r] = "failed"] /\ delivered' = delivered
        /\ UNCHANGED <<users, tokens, call, loaded, history>>
    BY <1>7 DEF HalfFails, Goto, tables
  <2>3. call[r].op \in {"reset", "change", "remove"} /\ delivered \subseteq Issued
    BY <1>7 DEF HalfFails, OpAtLabel, TokensIssuedLate
  <2>4. {s} \in SUBSET (Pair \cup Columns) /\ {s} \subseteq Pending(call[r].op)
    BY <2>1, <2>3 DEF Pending
  <2>5. QED
    BY <2>1, <2>2, <2>3, <2>4, <1>0, MovePreserves
<1>8. QED
  BY <1>2, <1>3, <1>4, <1>5, <1>6, <1>7

\* Statements that write a row of the users table.
LEMMA UserWritesPreserve ==
  ASSUME AuthInv, NEW r \in Requests,
         Register(r) \/ MarkVerified(r) \/ SaveWrite(r) \/ WriteUser(r)
  PROVE  AuthInv'
<1> USE DEF AuthInv
<1> DEFINE u == call[r].user
<1>1. todo[r] = {} => todo = [todo EXCEPT ![r] = {}]
  BY DEF AuthTypeOK
<1>2. delivered \subseteq Issued
  BY DEF TokensIssuedLate
<1>3. pc[r] # "new" => u \in Users /\ loaded[r] \in Row
  BY DEF CallsRecorded, Call
<1>4. CASE Register(r)
  <2>1. /\ pc[r] = "register" /\ todo' = [todo EXCEPT ![r] = {}] /\ delivered' = delivered
        /\ call[r].op = "signup" /\ UNCHANGED <<tokens, call, loaded, history>>
    BY <1>1, <1>4 DEF Register, CallsRecorded, OpAtLabel
  <2>2. call[r].password \in Passwords
    BY <1>4, AuthAssumption DEF Register, CallsRecorded, OpAtLabel, Call, AuthTypeOK
  <2>3. users' \in [Users -> Row] /\ \A v \in Users : users'[v].verified => ProvedAddress(v)
    <3>1. [state |-> "active", password |-> call[r].password, verified |-> FALSE] \in Row
      BY <2>2 DEF Row
    <3>2. QED
      BY <1>3, <1>4, <3>1 DEF Register, AuthTypeOK, VerifiedTraced
  <2>4. CASE pc' = [pc EXCEPT ![r] = "insert"]
    BY <1>2, <2>1, <2>3, <2>4, MovePreserves
  <2>5. CASE pc' = [pc EXCEPT ![r] = "failed"]
    BY <1>2, <2>1, <2>3, <2>5, MovePreserves
  <2>6. QED
    BY <1>4, <2>4, <2>5 DEF Register, Goto
<1>5. CASE MarkVerified(r)
  <2>1. /\ pc[r] = "mark" /\ todo' = [todo EXCEPT ![r] = {}] /\ delivered' = delivered
        /\ call[r].op = "verify" /\ UNCHANGED <<tokens, call, loaded, history>>
        /\ pc' = [pc EXCEPT ![r] = "answered"]
    BY <1>1, <1>5 DEF MarkVerified, Goto, CallsRecorded, OpAtLabel
  <2>2. users' \in [Users -> Row] /\ \A v \in Users : users'[v].verified => ProvedAddress(v)
    BY <1>3, <1>5 DEF MarkVerified, AuthTypeOK, Row, VerifiedTraced
  <2>3. QED
    BY <1>2, <2>1, <2>2, MovePreserves
<1>6. CASE SaveWrite(r)
  <2>1. /\ pc[r] = "saving" /\ todo' = [todo EXCEPT ![r] = {}] /\ delivered' = delivered
        /\ call[r].op = "profile" /\ UNCHANGED <<tokens, call, loaded, history>>
        /\ pc' = [pc EXCEPT ![r] = "answered"]
    BY <1>6 DEF SaveWrite, Goto, OpAtLabel
  <2>2. users' \in [Users -> Row] /\ \A v \in Users : users'[v].verified => ProvedAddress(v)
    BY <1>3, <1>6 DEF SaveWrite, AuthTypeOK, Row, VerifiedTraced
  <2>3. QED
    BY <1>2, <2>1, <2>2, MovePreserves
<1>7. CASE WriteUser(r)
  <2> DEFINE S == todo[r] \ {"write"}
  <2>1. "write" \in todo[r] /\ call[r].op \in {"reset", "change", "remove"}
    BY <1>7 DEF WriteUser, Done, CallsRecorded, Pending, Columns
  <2>2. pc[r] \in {"apply", "failed"}
    BY <2>1 DEF CallsRecorded, OpAtLabel
  <2>3. call[r].op # "remove" => call[r].password \in Passwords
    BY <2>1, <2>2, AuthAssumption DEF CallsRecorded, Call
  <2>4. users' \in [Users -> Row] /\ \A v \in Users : users'[v].verified => ProvedAddress(v)
    BY <1>3, <1>7, <2>2, <2>3 DEF WriteUser, AuthTypeOK, Row, VerifiedTraced
  <2>5. /\ todo' = [todo EXCEPT ![r] = S] /\ delivered' = delivered
        /\ UNCHANGED <<tokens, call, loaded, history>>
    BY <1>7 DEF WriteUser, Done
  <2>6. S \in SUBSET (Pair \cup Columns) /\ S \subseteq Pending(call[r].op)
    BY <2>1 DEF AuthTypeOK, CallsRecorded
  <2>7. CASE pc[r] = "failed"
    <3>1. pc' = [pc EXCEPT ![r] = "failed"]
      BY <1>7, <2>7 DEF WriteUser, Done, Goto
    <3>2. QED
      BY <1>2, <2>4, <2>5, <2>6, <2>7, <3>1, MovePreserves
  <2>8. CASE pc[r] = "apply" /\ todo[r] = {"write"}
    <3>1. pc' = [pc EXCEPT ![r] = "answered"] /\ S = {}
      BY <1>7, <2>8 DEF WriteUser, Done, Goto
    <3>2. QED
      BY <1>2, <2>4, <2>5, <2>6, <2>8, <3>1, MovePreserves
  <2>9. CASE pc[r] = "apply" /\ todo[r] # {"write"}
    <3>1. pc' = [pc EXCEPT ![r] = "apply"]
      BY <1>7, <2>9 DEF WriteUser, Done, Goto
    <3>2. QED
      BY <1>2, <2>4, <2>5, <2>6, <2>9, <3>1, MovePreserves
  <2>10. QED
    BY <2>2, <2>7, <2>8, <2>9
<1>8. QED
  BY <1>4, <1>5, <1>6, <1>7

\* Tokens are only spent or expired: owner and kind stay, nothing is unspent.
OnlySpends ==
  /\ tokens' \in [Requests -> Token \cup {None}]
  /\ Issued' = Issued
  /\ \A t \in Issued : /\ tokens'[t].kind = tokens[t].kind
                       /\ tokens'[t].user = tokens[t].user
                       /\ tokens[t].spent => tokens'[t].spent

\* What an update of one column keeps.
LEMMA MarkedToken ==
  ASSUME NEW k \in Token
  PROVE  /\ [k EXCEPT !.spent = TRUE] \in Token /\ [k EXCEPT !.expired = TRUE] \in Token
         /\ [k EXCEPT !.spent = TRUE].kind = k.kind /\ [k EXCEPT !.expired = TRUE].kind = k.kind
         /\ [k EXCEPT !.spent = TRUE].user = k.user /\ [k EXCEPT !.expired = TRUE].user = k.user
         /\ [k EXCEPT !.spent = TRUE].spent
         /\ [k EXCEPT !.expired = TRUE].spent = k.spent
<1>1. [k EXCEPT !.spent = TRUE] \in Token
  BY DEF Token
<1>2. [k EXCEPT !.expired = TRUE] \in Token
  BY DEF Token
<1>3. /\ [k EXCEPT !.spent = TRUE].kind = k.kind /\ [k EXCEPT !.expired = TRUE].kind = k.kind
      /\ [k EXCEPT !.spent = TRUE].user = k.user /\ [k EXCEPT !.expired = TRUE].user = k.user
  BY DEF Token
<1>4. [k EXCEPT !.spent = TRUE].spent
  BY DEF Token
<1>5. [k EXCEPT !.expired = TRUE].spent = k.spent
  BY DEF Token
<1>6. QED
  BY <1>1, <1>2, <1>3, <1>4, <1>5

\* revokeAllUserTokens spends tokens and leaves the rest of them alone.
LEMMA RevokeAllSpends ==
  ASSUME AuthTypeOK, NEW u \in Users, RevokeAll(u)
  PROVE  /\ OnlySpends
         /\ \A t \in Issued : UnspentRefresh(t)' => UnspentRefresh(t) /\ tokens[t].user # u
<1> USE AuthAssumption
<1>1. \A t \in Requests :
        tokens'[t] = IF t \in Issued /\ tokens[t].kind = "refresh" /\ tokens[t].user = u
                     THEN [tokens[t] EXCEPT !.spent = TRUE] ELSE tokens[t]
  BY DEF RevokeAll
<1>2. ASSUME NEW t \in Issued
      PROVE  /\ tokens'[t] \in Token
             /\ tokens'[t].kind = tokens[t].kind
             /\ tokens'[t].user = tokens[t].user
             /\ tokens[t].spent => tokens'[t].spent
             /\ tokens[t].kind = "refresh" /\ tokens[t].user = u => tokens'[t].spent
  <2>1. t \in Requests /\ tokens[t] \in Token
    BY DEF Issued, AuthTypeOK
  <2>2. CASE tokens[t].kind = "refresh" /\ tokens[t].user = u
    <3>1. tokens'[t] = [tokens[t] EXCEPT !.spent = TRUE]
      BY <1>1, <2>1, <2>2
    <3>2. QED
      BY <2>1, <3>1, MarkedToken
  <2>3. CASE ~(tokens[t].kind = "refresh" /\ tokens[t].user = u)
    <3>1. tokens'[t] = tokens[t]
      BY <1>1, <2>1, <2>3
    <3>2. QED
      BY <2>1, <2>3, <3>1
  <2>4. QED
    BY <2>2, <2>3
<1>3. \A t \in Requests : tokens'[t] \in Token \cup {None} /\ (tokens'[t] = None <=> tokens[t] = None)
  <2>1. \A t \in Requests \ Issued : tokens'[t] = None /\ tokens[t] = None
    BY <1>1 DEF Issued
  <2>2. QED
    BY <1>2, <2>1 DEF Issued
<1>4. tokens' \in [Requests -> Token \cup {None}]
  BY <1>3 DEF RevokeAll
<1>5. Issued' = Issued
  BY <1>3 DEF Issued
<1>6. QED
  BY <1>2, <1>4, <1>5 DEF OnlySpends, UnspentRefresh, Unspent

\* Marking one issued token spent or expired.
LEMMA MarkSpends ==
  ASSUME AuthTypeOK, NEW t \in Issued, NEW s \in {"spent", "expired"},
         \/ s = "spent" /\ tokens' = [tokens EXCEPT ![t].spent = TRUE]
         \/ s = "expired" /\ tokens' = [tokens EXCEPT ![t].expired = TRUE]
  PROVE  OnlySpends /\ (s = "spent" => tokens'[t].spent)
<1> USE AuthAssumption
<1>1. tokens[t] \in Token /\ t \in Requests
  BY DEF Issued, AuthTypeOK
<1>2. tokens'[t] \in Token /\ (s = "spent" => tokens'[t].spent)
      /\ tokens'[t].kind = tokens[t].kind /\ tokens'[t].user = tokens[t].user
      /\ (tokens[t].spent => tokens'[t].spent)
  <2>1. \/ s = "spent" /\ tokens'[t] = [tokens[t] EXCEPT !.spent = TRUE]
        \/ s = "expired" /\ tokens'[t] = [tokens[t] EXCEPT !.expired = TRUE]
    BY <1>1 DEF AuthTypeOK
  <2>2. QED
    BY <1>1, <2>1, MarkedToken
<1>3. \A x \in Requests \ {t} : tokens'[x] = tokens[x]
  BY DEF AuthTypeOK
<1>4. tokens' \in [Requests -> Token \cup {None}]
  BY <1>2, <1>3 DEF AuthTypeOK
<1>5. Issued' = Issued
  BY <1>1, <1>2, <1>3 DEF Issued
<1>6. QED
  BY <1>2, <1>3, <1>4, <1>5 DEF OnlySpends, Issued

\* Statements that spend tokens.
LEMMA SpendPreserves ==
  ASSUME AuthInv, NEW r \in Requests,
         NEW label \in {"create", "mark", "apply", "answered", "failed"},
         NEW S \in SUBSET Pair,
         pc' = [pc EXCEPT ![r] = label],
         todo' = [todo EXCEPT ![r] = S],
         UNCHANGED <<users, delivered, call, loaded, session, before>>,
         OnlySpends,
         uses' \in [Requests -> Nat],
         UsedIsSpent',
         pc[r] \in {"revoke", "consume", "apply", "failed"},
         label = "create" => \/ pc[r] = "revoke"
                             \/ /\ pc[r] = "consume" /\ call[r].op = "refresh"
                                /\ UnspentRefresh(call[r].token)
                                /\ tokens'[call[r].token].spent,
         label = "mark" => /\ pc[r] = "consume" /\ call[r].op = "verify"
                           /\ tokens'[call[r].token].spent,
         label \in {"apply", "answered"} => call[r].op \in {"reset", "change", "remove"},
         S # {} => label \in {"apply", "failed"} /\ call[r].op \in {"reset", "change", "remove"},
         label = "failed" <=> pc[r] = "failed",
         \/ label = "apply" /\ "revoke" \in S
         \/ label \notin {"apply", "answered"}
         \/ \A t \in Issued : UnspentRefresh(t)' => tokens[t].user # call[r].user
  PROVE  AuthInv'
<1> USE DEF AuthInv
<1>1. /\ pc'[r] = label /\ todo'[r] = S
      /\ \A x \in Requests \ {r} : pc'[x] = pc[x] /\ todo'[x] = todo[x]
  BY DEF AuthTypeOK
<1>2. /\ users' = users /\ delivered' = delivered /\ call' = call /\ loaded' = loaded
      /\ session' = session /\ before' = before /\ Issued' = Issued
  BY DEF OnlySpends
<1>3. \A t \in Requests : UnspentRefresh(t)' => UnspentRefresh(t)
  BY DEF OnlySpends, UnspentRefresh, Unspent
<1>4. ASSUME NEW u \in Users, ProvedAddress(u) PROVE ProvedAddress(u)'
  <2>1. PICK t \in Issued :
           tokens[t].kind = "verification" /\ tokens[t].user = u /\ tokens[t].spent
    BY <1>4 DEF ProvedAddress
  <2>2. t \in Issued' /\ tokens'[t].kind = "verification" /\ tokens'[t].user = u /\ tokens'[t].spent
    BY <2>1 DEF OnlySpends
  <2>3. QED
    BY <2>2 DEF ProvedAddress
<1>5. label # "failed" => tokens[r] = None
  BY DEF TokensIssuedLate, Issued
<1>6. AuthTypeOK'
  <2>1. pc' \in [Requests -> Labels] /\ todo' \in [Requests -> SUBSET (Pair \cup Columns)]
    BY DEF AuthTypeOK, Labels, Ended
  <2>2. QED
    BY <1>2, <2>1 DEF AuthTypeOK, OnlySpends
<1>7. OpAtLabel'
  BY <1>1, <1>2 DEF OpAtLabel
<1>8. CallsRecorded'
  BY <1>1, <1>2 DEF CallsRecorded, Pending
<1>9. TokensPresented'
  BY <1>1, <1>2 DEF TokensPresented, OnlySpends
<1>10. TokensIssuedLate'
  BY <1>1, <1>2, <1>5 DEF TokensIssuedLate, Issued
<1>11. OneLivePerSession'
  <2>1. label # "create" => \A x \in Requests : Live(x)' => Live(x)
    BY <1>1, <1>3 DEF Live
  <2>2. \A x \in Requests \ {r} : Live(x)' => Live(x)
    BY <1>1, <1>3 DEF Live
  <2>3. ASSUME label = "create", NEW x \in Requests \ {r}, Live(x)'
        PROVE  session[x] # session[r]
    <3>1. CASE pc[r] = "revoke"
      <4>1. session[r] = r
        BY <3>1 DEF CallsRecorded
      <4>2. QED
        BY <1>5, <2>3, <4>1 DEF TokensIssuedLate, Issued
    <3>2. CASE pc[r] = "consume"
      <4> DEFINE t == call[r].token
      <4>1. t \in Requests /\ Live(t) /\ session[r] = session[t]
        BY <2>3, <3>2 DEF TokensPresented, Live, Issued
      <4>2. ~Live(t)'
        BY <1>1, <2>3, <3>2, <4>1 DEF Live, UnspentRefresh, Unspent, TokensIssuedLate, TokensPresented
      <4>3. x # t /\ Live(x)
        BY <2>2, <2>3, <4>2
      <4>4. QED
        BY <4>1, <4>3 DEF OneLivePerSession
    <3>3. QED
      BY <2>3, <3>1, <3>2
  <2>4. QED
    BY <1>2, <2>1, <2>2, <2>3 DEF OneLivePerSession
<1>12. RevokedWhenDone'
  <2>1. SUFFICES ASSUME NEW x \in Requests, NEW t \in before[x],
                        \/ pc'[x] = "apply" /\ "revoke" \notin todo'[x]
                        \/ pc'[x] = "answered",
                        call[x].op \in {"reset", "change", "remove"},
                        UnspentRefresh(t)'
                 PROVE  tokens'[t].user # call[x].user
    BY <1>2 DEF RevokedWhenDone
  <2>2. t \in Issued /\ UnspentRefresh(t) /\ tokens'[t].user = tokens[t].user
    BY <1>3, <2>1 DEF TokensIssuedLate, OnlySpends, Issued
  <2>3. CASE x = r
    BY <1>1, <2>1, <2>2, <2>3
  <2>4. CASE x # r
    BY <1>1, <2>1, <2>2, <2>4 DEF RevokedWhenDone
  <2>5. QED
    BY <2>3, <2>4
<1>13. VerifiedTraced'
  <2>1. ASSUME label = "mark" PROVE ProvedAddress(call[r].user)'
    BY <2>1 DEF ProvedAddress, TokensPresented, KindTaken, OnlySpends
  <2>2. \A x \in Requests : pc[x] # "new" => call[x].user \in Users
    BY DEF CallsRecorded, Call
  <2>3. QED
    BY <1>1, <1>2, <1>4, <2>1, <2>2 DEF VerifiedTraced
<1>14. QED
  BY <1>6, <1>7, <1>8, <1>9, <1>10, <1>11, <1>12, <1>13

\* The first statement of issueRefreshToken.
LEMMA RevokeAtSigninPreserves ==
  ASSUME AuthInv, NEW r \in Requests, RevokeAtSignin(r)
  PROVE  AuthInv'
<1> USE DEF AuthInv
<1>1. call[r].user \in Users /\ todo[r] = {} /\ pc[r] = "revoke"
  BY DEF RevokeAtSignin, CallsRecorded, Call
<1>2. OnlySpends
  BY <1>1, RevokeAllSpends DEF RevokeAtSignin
<1>3. uses' = uses /\ uses' \in [Requests -> Nat] /\ todo' = [todo EXCEPT ![r] = {}]
  BY <1>1 DEF RevokeAtSignin, AuthTypeOK, history
<1>4. UsedIsSpent'
  BY <1>2, <1>3 DEF UsedIsSpent, OnlySpends
<1>5. /\ pc' = [pc EXCEPT ![r] = "create"]
      /\ UNCHANGED <<users, delivered, call, loaded, session, before>>
  BY DEF RevokeAtSignin, Goto, history
<1>6. QED
  BY <1>1, <1>2, <1>3, <1>4, <1>5, SpendPreserves

\* The revocation in a Promise.all: from here on RevokedWhenDone holds of r.
LEMMA RevokeInPairPreserves ==
  ASSUME AuthInv, NEW r \in Requests, RevokeInPair(r)
  PROVE  AuthInv'
<1> USE DEF AuthInv
<1> DEFINE S == todo[r] \ {"revoke"}
<1>1. /\ "revoke" \in todo[r] /\ pc[r] \in {"apply", "failed"}
      /\ call[r].op \in {"reset", "change", "remove"} /\ todo[r] \subseteq Pair
  BY DEF RevokeInPair, Done, CallsRecorded, OpAtLabel, Pending, Columns
<1>2. call[r].user \in Users
  BY <1>1 DEF CallsRecorded, Call
<1>3. OnlySpends /\ \A t \in Issued : UnspentRefresh(t)' => tokens[t].user # call[r].user
  BY <1>2, RevokeAllSpends DEF RevokeInPair
<1>4. uses' = uses /\ uses' \in [Requests -> Nat] /\ todo' = [todo EXCEPT ![r] = S]
  BY DEF RevokeInPair, Done, AuthTypeOK, history
<1>5. UsedIsSpent'
  BY <1>3, <1>4 DEF UsedIsSpent, OnlySpends
<1>6. UNCHANGED <<users, delivered, call, loaded, session, before>>
  BY DEF RevokeInPair, Done, history
<1>7. S \in SUBSET Pair /\ call[r].op \in {"reset", "change", "remove"}
  BY <1>1
<1>8. CASE pc[r] = "failed"
  <2>1. pc' = [pc EXCEPT ![r] = "failed"]
    BY <1>8 DEF RevokeInPair, Done, Goto
  <2>2. QED
    BY <1>3, <1>4, <1>5, <1>6, <1>7, <1>8, <2>1, SpendPreserves
<1>9. CASE pc[r] = "apply" /\ todo[r] = {"revoke"}
  <2>1. pc' = [pc EXCEPT ![r] = "answered"] /\ S = {}
    BY <1>9 DEF RevokeInPair, Done, Goto
  <2>2. QED
    BY <1>3, <1>4, <1>5, <1>6, <1>7, <1>9, <2>1, SpendPreserves
<1>10. CASE pc[r] = "apply" /\ todo[r] # {"revoke"}
  <2>1. pc' = [pc EXCEPT ![r] = "apply"]
    BY <1>10 DEF RevokeInPair, Done, Goto
  <2>2. QED
    BY <1>3, <1>4, <1>5, <1>6, <1>7, <1>10, <2>1, SpendPreserves
<1>11. QED
  BY <1>1, <1>8, <1>9, <1>10

\* The conditional update: the only statement that uses a token.
LEMMA ConsumePreserves ==
  ASSUME AuthInv, NEW r \in Requests, Consume(r)
  PROVE  AuthInv'
<1> USE DEF AuthInv
<1> DEFINE t == call[r].token
           S == IF call[r].op = "reset" THEN Pair ELSE {}
           label == AfterConsume(call[r].op)
<1>1. /\ pc[r] = "consume" /\ t \in Issued /\ t \in Requests /\ ~tokens[t].spent
      /\ call[r].op \in {"refresh", "reset", "verify"}
      /\ tokens[t].kind = KindTaken(call[r].op)
  BY DEF Consume, Affected, OpAtLabel, TokensPresented, Issued
<1>2. OnlySpends /\ tokens'[t].spent
  BY <1>1, MarkSpends DEF Consume
<1>3. uses[t] = 0 /\ uses' \in [Requests -> Nat]
  BY <1>1 DEF Consume, UsedIsSpent, AuthTypeOK
<1>4. UsedIsSpent'
  <2>1. uses'[t] = 1 /\ \A x \in Requests \ {t} : uses'[x] = uses[x]
    BY <1>1, <1>3 DEF Consume, AuthTypeOK
  <2>2. QED
    BY <1>1, <1>2, <2>1 DEF UsedIsSpent, OnlySpends
<1>5. /\ UNCHANGED <<users, delivered, call, loaded, session, before>>
      /\ pc' = [pc EXCEPT ![r] = label] /\ todo' = [todo EXCEPT ![r] = S]
  BY DEF Consume, Goto
<1>6. CASE call[r].op = "refresh"
  <2>1. pc' = [pc EXCEPT ![r] = "create"] /\ todo' = [todo EXCEPT ![r] = {}] /\ UnspentRefresh(t)
    BY <1>1, <1>5, <1>6 DEF AfterConsume, UnspentRefresh, Unspent, KindTaken
  <2>2. QED
    BY <1>1, <1>2, <1>3, <1>4, <1>5, <1>6, <2>1, SpendPreserves
<1>7. CASE call[r].op = "reset"
  <2>1. pc' = [pc EXCEPT ![r] = "apply"] /\ todo' = [todo EXCEPT ![r] = Pair] /\ "revoke" \in Pair
    BY <1>5, <1>7 DEF AfterConsume, Pair
  <2>2. QED
    BY <1>1, <1>2, <1>3, <1>4, <1>5, <1>7, <2>1, SpendPreserves
<1>8. CASE call[r].op = "verify"
  <2>1. pc' = [pc EXCEPT ![r] = "mark"] /\ todo' = [todo EXCEPT ![r] = {}]
    BY <1>5, <1>8 DEF AfterConsume
  <2>2. QED
    BY <1>1, <1>2, <1>3, <1>4, <1>5, <1>8, <2>1, SpendPreserves
<1>9. QED
  BY <1>1, <1>6, <1>7, <1>8

\* A new token: it takes the place of a rotation or a sign-in between its two
\* statements, or is not a refresh token.
LEMMA IssuePreserves ==
  ASSUME AuthInv, NEW r \in Requests, CreateRefreshToken(r) \/ InsertToken(r)
  PROVE  AuthInv'
<1> USE AuthAssumption DEF AuthInv
<1>1. PICK kind \in Kinds, label \in {"mail", "answered", "failed"} :
        /\ tokens' = [tokens EXCEPT ![r] = NewToken(r, kind)]
        /\ pc' = [pc EXCEPT ![r] = label]
        /\ kind = "refresh" => pc[r] = "create"
        /\ pc[r] = "insert" => label = "mail"
        /\ label = "mail" => pc[r] = "insert"
  BY DEF CreateRefreshToken, InsertToken, Goto, Kinds
<1>2. /\ pc[r] \in {"create", "insert"} /\ delivered' \in {delivered, delivered \cup {r}}
      /\ UNCHANGED <<users, call, loaded, todo, session, before, uses>>
  BY DEF CreateRefreshToken, InsertToken, history
<1>3. /\ tokens[r] = None /\ r \notin delivered /\ todo[r] = {} /\ uses[r] = 0
      /\ call[r] \in Call /\ call[r].user \in Users
  BY <1>2 DEF TokensIssuedLate, CallsRecorded, UsedIsSpent, Issued, Call
<1>4. /\ pc'[r] = label /\ \A x \in Requests \ {r} : pc'[x] = pc[x]
      /\ tokens'[r] = NewToken(r, kind) /\ \A x \in Requests \ {r} : tokens'[x] = tokens[x]
  BY <1>1 DEF AuthTypeOK
<1>5. NewToken(r, kind) \in Token /\ NewToken(r, kind).kind = kind
  BY <1>3 DEF NewToken, Token
<1>6. NewToken(r, kind) # None
  BY <1>5
<1>7. Issued' = Issued \cup {r} /\ r \notin Issued
  BY <1>3, <1>4, <1>6 DEF Issued
<1>8. AuthTypeOK'
  <2>1. pc' \in [Requests -> Labels]
    BY <1>1 DEF AuthTypeOK, Labels, Ended
  <2>2. tokens' \in [Requests -> Token \cup {None}]
    BY <1>1, <1>5 DEF AuthTypeOK
  <2>3. QED
    BY <1>2, <2>1, <2>2 DEF AuthTypeOK
<1>9. OpAtLabel'
  BY <1>1, <1>2, <1>4 DEF OpAtLabel
<1>10. CallsRecorded'
  BY <1>2, <1>3, <1>4 DEF CallsRecorded
<1>11. TokensPresented'
  BY <1>2, <1>4, <1>7 DEF TokensPresented, Issued
<1>12. TokensIssuedLate'
  BY <1>1, <1>2, <1>4, <1>7 DEF TokensIssuedLate, Issued
<1>13. UsedIsSpent'
  BY <1>2, <1>3, <1>4, <1>7 DEF UsedIsSpent, Issued
<1>14. OneLivePerSession'
  <2>1. \A x \in Requests : Live(x)' => Live(x)
    <3>1. \A x \in Requests \ {r} : Live(x)' => Live(x)
      BY <1>4, <1>7 DEF Live, UnspentRefresh, Unspent
    <3>2. Live(r)' => Live(r)
      BY <1>1, <1>4, <1>5 DEF Live, UnspentRefresh, Unspent
    <3>3. QED
      BY <3>1, <3>2
  <2>2. QED
    BY <1>2, <2>1 DEF OneLivePerSession
<1>15. RevokedWhenDone'
  <2>1. SUFFICES ASSUME NEW x \in Requests, NEW t \in before[x],
                        \/ pc'[x] = "apply" /\ "revoke" \notin todo[x]
                        \/ pc'[x] = "answered",
                        call[x].op \in {"reset", "change", "remove"},
                        UnspentRefresh(t)'
                 PROVE  tokens'[t].user # call[x].user
    BY <1>2 DEF RevokedWhenDone
  <2>2. t \in Issued /\ tokens'[t] = tokens[t]
    BY <1>4, <1>7 DEF TokensIssuedLate, Issued
  <2>3. UnspentRefresh(t)
    BY <2>1, <2>2 DEF UnspentRefresh, Unspent
  <2>4. x # r
    BY <1>2, <2>1 DEF OpAtLabel
  <2>5. QED
    BY <1>4, <2>1, <2>2, <2>3, <2>4 DEF RevokedWhenDone
<1>16. VerifiedTraced'
  <2>1. ASSUME NEW u \in Users, ProvedAddress(u) PROVE ProvedAddress(u)'
    <3>1. PICK t \in Issued :
            tokens[t].kind = "verification" /\ tokens[t].user = u /\ tokens[t].spent
      BY <2>1 DEF ProvedAddress
    <3>2. t \in Issued' /\ tokens'[t] = tokens[t]
      BY <1>4, <1>7, <3>1 DEF Issued
    <3>3. QED
      BY <3>1, <3>2 DEF ProvedAddress
  <2>2. \A x \in Requests : pc[x] # "new" => call[x].user \in Users
    BY DEF CallsRecorded, Call
  <2>3. QED
    BY <1>1, <1>2, <1>4, <2>1, <2>2 DEF VerifiedTraced
<1>17. QED
  BY <1>8, <1>9, <1>10, <1>11, <1>12, <1>13, <1>14, <1>15, <1>16

\* Time passes: a token stays what it is but for its expiry.
LEMMA ExpirePreserves ==
  ASSUME AuthInv, NEW t \in Requests, Expire(t)
  PROVE  AuthInv'
<1> USE DEF AuthInv
<1>1. OnlySpends
  BY MarkSpends DEF Expire
<1>2. UNCHANGED <<users, delivered, pc, call, loaded, todo, session, before, uses>>
  BY DEF Expire, history
<1>3. \A x \in Requests : UnspentRefresh(x)' => UnspentRefresh(x)
  BY <1>1 DEF OnlySpends, UnspentRefresh, Unspent
<1>4. ASSUME NEW u \in Users, ProvedAddress(u) PROVE ProvedAddress(u)'
  <2>1. PICK x \in Issued :
          tokens[x].kind = "verification" /\ tokens[x].user = u /\ tokens[x].spent
    BY <1>4 DEF ProvedAddress
  <2>2. x \in Issued' /\ tokens'[x].kind = "verification" /\ tokens'[x].user = u /\ tokens'[x].spent
    BY <1>1, <2>1 DEF OnlySpends
  <2>3. QED
    BY <2>2 DEF ProvedAddress
<1>5. AuthTypeOK' /\ OpAtLabel' /\ CallsRecorded'
  BY <1>1, <1>2 DEF AuthTypeOK, OpAtLabel, CallsRecorded, OnlySpends
<1>6. TokensPresented' /\ TokensIssuedLate' /\ UsedIsSpent'
  BY <1>1, <1>2 DEF TokensPresented, TokensIssuedLate, UsedIsSpent, OnlySpends
<1>7. OneLivePerSession'
  BY <1>2, <1>3 DEF OneLivePerSession, Live
<1>8. RevokedWhenDone'
  <2>1. \A x \in Requests : before[x] \subseteq Issued
    BY DEF TokensIssuedLate
  <2>2. \A x \in Issued : tokens'[x].user = tokens[x].user /\ x \in Requests
    BY <1>1 DEF OnlySpends, Issued
  <2>3. QED
    BY <1>2, <1>3, <2>1, <2>2 DEF RevokedWhenDone
<1>9. VerifiedTraced'
  <2>1. \A x \in Requests : pc[x] # "new" => call[x].user \in Users
    BY DEF CallsRecorded, Call
  <2>2. QED
    BY <1>2, <1>4, <2>1 DEF VerifiedTraced
<1>10. QED
  BY <1>5, <1>6, <1>7, <1>8, <1>9

\* logout begins a request and spends a token in one step.
LEMMA LogoutPreserves ==
  ASSUME AuthInv, NEW r \in Requests, NEW t \in Requests, Logout(r, t)
  PROVE  AuthInv'
<1> USE AuthAssumption DEF AuthInv
<1> DEFINE u == tokens[t].user
           c == [op |-> "logout", user |-> u, token |-> t, password |-> None]
<1>1. /\ t \in Issued /\ u \in Users /\ pc[r] = "new" /\ tokens[r] = None
      /\ todo[r] = {} /\ users[u] \in Row
  BY DEF Logout, Holds, Begin, TokensIssuedLate, CallsRecorded, AuthTypeOK, Issued, Token
<1>2. OnlySpends
  BY <1>1, MarkSpends DEF Logout
<1>3. /\ pc'[r] = "answered" /\ call'[r] = c /\ loaded'[r] = users[u]
      /\ before'[r] = Issued /\ session'[r] = r
  BY DEF Logout, Begin, Goto, AuthTypeOK
<1>4. \A x \in Requests \ {r} :
        /\ pc'[x] = pc[x] /\ call'[x] = call[x] /\ loaded'[x] = loaded[x]
        /\ before'[x] = before[x] /\ session'[x] = session[x]
  BY DEF Logout, Begin, Goto, AuthTypeOK
<1>5. UNCHANGED <<users, delivered, uses, todo>>
  BY DEF Logout, Begin
<1>6. c \in Call /\ c.op = "logout" /\ c.user = u
  BY <1>1 DEF Call, Ops
<1> HIDE DEF c
<1>7. AuthTypeOK'
  <2>1. pc' \in [Requests -> Labels]
    BY DEF Logout, Begin, Goto, AuthTypeOK, Labels, Ended
  <2>2. call' \in [Requests -> Call \cup {None}]
    BY <1>6 DEF Logout, Begin, AuthTypeOK, c
  <2>3. /\ loaded' \in [Requests -> Row \cup {None}] /\ session' \in [Requests -> Requests]
        /\ before' \in [Requests -> SUBSET Requests]
    BY <1>1 DEF Logout, Begin, AuthTypeOK, Issued
  <2>4. QED
    BY <1>2, <1>5, <2>1, <2>2, <2>3 DEF AuthTypeOK, OnlySpends
<1>8. OpAtLabel'
  BY <1>3, <1>4 DEF OpAtLabel
<1>9. CallsRecorded'
  BY <1>1, <1>3, <1>4, <1>5, <1>6 DEF CallsRecorded
<1>10. TokensPresented'
  BY <1>1, <1>2, <1>3, <1>4 DEF TokensPresented, OnlySpends, Issued
<1>11. TokensIssuedLate'
  BY <1>2, <1>3, <1>4, <1>5 DEF TokensIssuedLate, OnlySpends, Issued
<1>12. UsedIsSpent'
  BY <1>2, <1>5 DEF UsedIsSpent, OnlySpends
<1>13. \A x \in Requests : UnspentRefresh(x)' => UnspentRefresh(x)
  BY <1>2 DEF OnlySpends, UnspentRefresh, Unspent
<1>14. OneLivePerSession'
  <2>1. ~Live(r)'
    BY <1>1, <1>3, <1>13 DEF Live, UnspentRefresh, Unspent, Issued
  <2>2. \A x \in Requests \ {r} : Live(x)' => Live(x)
    BY <1>4, <1>13 DEF Live
  <2>3. QED
    BY <1>4, <2>1, <2>2 DEF OneLivePerSession
<1>15. RevokedWhenDone'
  <2>1. \A x \in Requests : before[x] \subseteq Issued
    BY DEF TokensIssuedLate
  <2>2. \A x \in Issued : tokens'[x].user = tokens[x].user /\ x \in Requests
    BY <1>2 DEF OnlySpends, Issued
  <2>3. QED
    BY <1>3, <1>4, <1>5, <1>6, <1>13, <2>1, <2>2 DEF RevokedWhenDone
<1>16. VerifiedTraced'
  <2>1. ASSUME NEW v \in Users, ProvedAddress(v) PROVE ProvedAddress(v)'
    <3>1. PICK x \in Issued :
            tokens[x].kind = "verification" /\ tokens[x].user = v /\ tokens[x].spent
      BY <2>1 DEF ProvedAddress
    <3>2. x \in Issued' /\ tokens'[x].kind = "verification" /\ tokens'[x].user = v /\ tokens'[x].spent
      BY <1>2, <3>1 DEF OnlySpends
    <3>3. QED
      BY <3>2 DEF ProvedAddress
  <2>2. \A x \in Requests : pc[x] # "new" => call[x].user \in Users
    BY DEF CallsRecorded, Call
  <2>3. QED
    BY <1>1, <1>3, <1>4, <1>5, <1>6, <2>1, <2>2 DEF VerifiedTraced
<1>17. QED
  BY <1>7, <1>8, <1>9, <1>10, <1>11, <1>12, <1>14, <1>15, <1>16

\* Nothing changes.
LEMMA StutterPreserves ==
  ASSUME AuthInv, UNCHANGED avars
  PROVE  AuthInv'
<1>1. UNCHANGED <<users, tokens, delivered, pc, call, loaded, todo, session, before, uses>>
  BY DEF avars, tables, history
<1>2. Issued' = Issued
  BY <1>1 DEF Issued
<1>3. AuthTypeOK' /\ OpAtLabel' /\ CallsRecorded'
  BY <1>1 DEF AuthInv, AuthTypeOK, OpAtLabel, CallsRecorded
<1>4. TokensPresented' /\ TokensIssuedLate' /\ UsedIsSpent'
  BY <1>1, <1>2 DEF AuthInv, TokensPresented, TokensIssuedLate, UsedIsSpent
<1>5. OneLivePerSession' /\ RevokedWhenDone' /\ VerifiedTraced'
  BY <1>1, <1>2 DEF AuthInv, OneLivePerSession, RevokedWhenDone, VerifiedTraced, Live,
                    UnspentRefresh, Unspent, ProvedAddress
<1>6. QED
  BY <1>3, <1>4, <1>5 DEF AuthInv

\* The tables without tokens and the requests that have not begun.
LEMMA InitEstablishes ==
  ASSUME AuthInit
  PROVE  AuthInv
<1> USE AuthAssumption
<1>1. AuthTypeOK
  BY DEF AuthInit, AuthTypeOK, Fresh, Row, Labels, Ended
<1>2. OpAtLabel /\ CallsRecorded /\ TokensPresented
  BY DEF AuthInit, OpAtLabel, CallsRecorded, TokensPresented
<1>3. TokensIssuedLate /\ UsedIsSpent
  BY DEF AuthInit, TokensIssuedLate, UsedIsSpent, Issued
<1>4. OneLivePerSession /\ RevokedWhenDone
  BY DEF AuthInit, OneLivePerSession, RevokedWhenDone, Live, UnspentRefresh, Unspent, Issued
<1>5. VerifiedTraced
  BY DEF AuthInit, VerifiedTraced, Fresh
<1>6. QED
  BY <1>1, <1>2, <1>3, <1>4, <1>5 DEF AuthInv

\* AuthInv holds in every reachable state, for any number of requests, users
\* and passwords (all handlers of AuthService and the credential operations of
\* UsersService).
THEOREM AuthInvariant == AuthSpec => []AuthInv
<1>1. AuthInit => AuthInv
  BY InitEstablishes
<1>2. AuthInv /\ [AuthNext]_avars => AuthInv'
  <2>1. SUFFICES ASSUME AuthInv, [AuthNext]_avars PROVE AuthInv'
    OBVIOUS
  <2>2. ASSUME NEW r \in Requests, Receive(r) PROVE AuthInv'
    <3>1. ASSUME NEW u \in Users,
                 \/ ForgotPassword(r, u) \/ ResendVerification(r, u) \/ Remove(r, u)
                 \/ ReadProfile(r, u)
          PROVE  AuthInv'
      BY <2>1, <3>1, UserReadsPreserve
    <3>2. ASSUME NEW u \in Users, NEW p \in Passwords,
                 Signin(r, u, p) \/ Signup(r, u, p)
          PROVE  AuthInv'
      BY <2>1, <3>2, CredentialsPreserve
    <3>3. ASSUME NEW u \in Users, NEW p \in Passwords, NEW cur \in Passwords,
                 ChangePassword(r, u, cur, p)
          PROVE  AuthInv'
      BY <2>1, <3>3, CredentialsPreserve
    <3>4. ASSUME NEW t \in Requests, Refresh(r, t) \/ VerifyEmail(r, t)
          PROVE  AuthInv'
      BY <2>1, <3>4, PresentPreserves
    <3>5. ASSUME NEW t \in Requests, NEW p \in Passwords, ResetPassword(r, t, p)
          PROVE  AuthInv'
      BY <2>1, <3>5, PresentPreserves
    <3>6. ASSUME NEW t \in Requests, Logout(r, t)
          PROVE  AuthInv'
      BY <2>1, <3>6, LogoutPreserves
    <3>7. QED
      BY <2>2, <3>1, <3>2, <3>3, <3>4, <3>5, <3>6 DEF Receive
  <2>3. ASSUME NEW r \in Requests, Statement(r) PROVE AuthInv'
    BY <2>1, <2>3, MovesPreserve, UserWritesPreserve, RevokeAtSigninPreserves,
       RevokeInPairPreserves, ConsumePreserves, IssuePreserves DEF Statement
  <2>4. ASSUME NEW r \in Requests, Stop(r) \/ HalfFails(r) PROVE AuthInv'
    BY <2>1, <2>4, MovesPreserve
  <2>5. ASSUME NEW t \in Requests, Expire(t) PROVE AuthInv'
    BY <2>1, <2>5, ExpirePreserves
  <2>6. CASE UNCHANGED avars
    BY <2>1, <2>6, StutterPreserves
  <2>7. QED
    BY <2>1, <2>2, <2>3, <2>4, <2>5, <2>6 DEF AuthNext
<1>3. QED
  BY <1>1, <1>2, PTL DEF AuthSpec

\* The tables and the requests keep their types.
THEOREM AuthTypeCorrect == AuthSpec => []AuthTypeOK
<1>1. AuthInv => AuthTypeOK
  BY DEF AuthInv
<1>2. QED
  BY <1>1, AuthInvariant, PTL

\* No reset, verification or refresh token takes effect twice (the conditional
\* updates of TokenService).
THEOREM TokensUsedOnce == AuthSpec => []ConsumedOnce
<1>1. AuthInv => ConsumedOnce
  BY DEF AuthInv, AuthTypeOK, UsedIsSpent, ConsumedOnce
<1>2. QED
  BY <1>1, AuthInvariant, PTL

\* A sign-in has at most one live refresh token at any time
\* (rotateRefreshToken).
THEOREM SessionsLinear == AuthSpec => []OneTokenPerSession
<1>1. AuthInv => OneTokenPerSession
  BY DEF AuthInv, OneLivePerSession, Live, OneTokenPerSession
<1>2. QED
  BY <1>1, AuthInvariant, PTL

\* An answered reset, change or removal has revoked the tokens there were
\* (revokeAllUserTokens in a Promise.all).
THEOREM SuccessRevokes == AuthSpec => []RevokedOnSuccess
<1>1. AuthInv => RevokedOnSuccess
  BY DEF AuthInv, RevokedWhenDone, RevokedOnSuccess
<1>2. QED
  BY <1>1, AuthInvariant, PTL

\* A verified address has a used verification token (verifyEmail).
THEOREM VerificationNeedsToken == AuthSpec => []VerifiedByToken
<1>1. AuthInv => VerifiedByToken
  BY DEF AuthInv, VerifiedTraced, ProvedAddress, VerifiedByToken
<1>2. QED
  BY <1>1, AuthInvariant, PTL
=============================================================================
