------------------------------ MODULE Accounts ------------------------------
(***************************************************************************)
(* Accounts, sign-in and sessions: auth/service.py, auth/routes.py and the *)
(* dependencies of auth/deps.py.                                           *)
(*                                                                         *)
(* A request is a coroutine that gives way at every statement it sends to  *)
(* the database and at every call to the identity provider.  What it has   *)
(* loaded may be stale when it writes; a flush writes only the columns it  *)
(* changed (the ORM's unit of work), kept here in pend.                    *)
(*                                                                         *)
(* The provider is external: it answers with the account that owns an      *)
(* address at that moment.  An address changes hands (Recycle) only while  *)
(* no sign-in with it is in progress.                                      *)
(***************************************************************************)
EXTENDS Integers, Sequences, FiniteSets

CONSTANTS
    Users,          \* ids of rows of users
    Subs,           \* accounts at the provider
    Emails,         \* addresses, lower-case
    Requests,       \* slots for requests in flight
    None,           \* SQL NULL, and a column that is not written
    Superadmins,    \* settings.superadmin_emails
    Allowed,        \* addresses the sign-up policy lets create an account
    MaxFlows,       \* bound: logins that are started
    DesktopFlows,   \* which of them the desktop app starts
    Patches,        \* bodies of PATCH requests, <<role, disabled>>
    MaxSessions,    \* bound: sessions that are created
    MaxCodes,       \* bound: desktop login codes that are created
    MaxOffs         \* bound: times an account is turned off

ASSUME NoneAssumption == None \notin Users \cup Subs \cup Emails
ASSUME PolicyAssumption == Superadmins \subseteq Emails /\ Allowed \subseteq Emails
ASSUME BoundsAssumption == MaxFlows \in Nat /\ MaxSessions \in Nat /\ MaxCodes \in Nat /\ MaxOffs \in Nat
ASSUME RequestsAssumption ==
    /\ DesktopFlows \subseteq 1..MaxFlows
    /\ Patches \subseteq {"user", "superadmin", "keep"} \X {"keep", "off", "on"}
ASSUME UsersAssumption == IsFiniteSet(Users) /\ Users # {}

VARIABLES
    users,          \* the rows of users
    flows,          \* the rows of auth_flows
    codes,          \* the rows of login_codes
    sessions,       \* the rows of auth_sessions
    owner,          \* external: the account an address belongs to
    \* requests
    at,             \* where the request is
    flow,           \* the login flow it consumed, 0 for none
    code,           \* the login code it redeemed, 0 for none
    ident,          \* the verified identity
    mine,           \* the row found by sub: its id and its contents
    pend,           \* the row it works on and the columns it will write
    seen,           \* history: how often that account had been off when it was checked
    stale,          \* history: another patch was written since this one read
    \* history
    offs,           \* how often an account was turned off
    raced           \* a patch was written on stale reads

rowVars == <<users, flows, codes, sessions>>
reqVars == <<at, flow, code, ident, mine, pend, seen, stale>>
vars == <<rowVars, owner, reqVars, offs, raced>>

-----------------------------------------------------------------------------
Roles == {"user", "superadmin"}
Row == [sub : Subs \cup {None}, email : Emails \cup {None}, role : Roles, disabled : BOOLEAN]
NoRow == [sub |-> None, email |-> None, role |-> "user", disabled |-> FALSE]
Invited(e, role) == [sub |-> None, email |-> e, role |-> role, disabled |-> FALSE]
Administrator(sub, e) == [sub |-> sub, email |-> e, role |-> "superadmin", disabled |-> FALSE]
Identity == [sub : Subs \cup {None}, email : Emails \cup {None}]
Nobody == [sub |-> None, email |-> None]
Found == [user : Users \cup {None}, row : Row]
NotFound == [user |-> None, row |-> NoRow]

\* Columns a unit of work has changed; None (or "keep") is a column it leaves alone.
\* The user None is a row still to be inserted.
Change == [user : Users \cup {None}, sub : Subs \cup {None}, email : Emails \cup {None},
           role : Roles \cup {"keep"}, disabled : {"keep", "off", "on"}]
NoChange == [user |-> None, sub |-> None, email |-> None, role |-> "keep", disabled |-> "keep"]
Writes(u, sub, e, role) ==
    [user |-> u, sub |-> sub, email |-> e, role |-> role, disabled |-> "keep"]

FlowState == {"none", "open", "used"}
Code == [user : Users, sub : Subs, flow : 1..MaxFlows, open : BOOLEAN]
Session == [user : Users, sub : Subs, flow : 0..MaxFlows, code : 0..MaxCodes,
            live : BOOLEAN, since : 0..MaxOffs, seen : 0..MaxOffs]

Exists(u) == users[u].email # None
Active(u) == Exists(u) /\ users[u].role = "superadmin" /\ ~users[u].disabled
Admins == {u \in Users : Active(u)}

\* resolve_session: a session counts while it is live and its account is not disabled.
Resolves(i) == sessions[i].live /\ ~users[sessions[i].user].disabled

Ended(x) == [user |-> x.user, sub |-> x.sub, flow |-> x.flow, code |-> x.code,
             live |-> FALSE, since |-> 0, seen |-> 0]

Spent(x) == [user |-> x.user, sub |-> x.sub, flow |-> x.flow, open |-> FALSE]

\* A server in use: a super admin who signed in before, perhaps others who were
\* invited and have not signed in yet.
Init ==
    /\ owner \in [Emails -> Subs]
    /\ users \in [Users -> {NoRow}
                      \cup {Administrator(owner[e], e) : e \in Superadmins}
                      \cup {Invited(e, role) : e \in Emails \ Superadmins, role \in Roles}]
    /\ \A u, v \in Users : u # v /\ Exists(u) => users[u].email # users[v].email
    /\ \E u \in Users : users[u].sub # None
    /\ \A u, v \in Users : u # v /\ users[u].sub # None => users[u].sub # users[v].sub
    /\ flows = [f \in 1..MaxFlows |-> "none"]
    /\ codes = <<>>
    /\ sessions = <<>>
    /\ at = [r \in Requests |-> "idle"]
    /\ flow = [r \in Requests |-> 0]
    /\ code = [r \in Requests |-> 0]
    /\ ident = [r \in Requests |-> Nobody]
    /\ mine = [r \in Requests |-> NotFound]
    /\ pend = [r \in Requests |-> NoChange]
    /\ seen = [r \in Requests |-> 0]
    /\ stale = [r \in Requests |-> FALSE]
    /\ offs = [u \in Users |-> 0]
    /\ raced = FALSE

\* The request answers and forgets.
Answer(r) ==
    /\ at' = [at EXCEPT ![r] = "idle"]
    /\ flow' = [flow EXCEPT ![r] = 0]
    /\ code' = [code EXCEPT ![r] = 0]
    /\ ident' = [ident EXCEPT ![r] = Nobody]
    /\ mine' = [mine EXCEPT ![r] = NotFound]
    /\ pend' = [pend EXCEPT ![r] = NoChange]
    /\ seen' = [seen EXCEPT ![r] = 0]
    /\ stale' = [stale EXCEPT ![r] = FALSE]

Conflict(u, row) ==             \* the unique constraints on email and sub
    \E v \in Users \ {u} :
        /\ Exists(v)
        /\ users[v].email = row.email \/ (row.sub # None /\ users[v].sub = row.sub)

(* Variant: writes the role whether it changed or not.                     *)
FlushedWhole(row, p) ==
    [sub |-> IF p.sub = None THEN row.sub ELSE p.sub,
     email |-> IF p.email = None THEN row.email ELSE p.email,
     role |-> p.role,
     disabled |-> IF p.disabled = "keep" THEN row.disabled ELSE p.disabled = "off"]

Flushed(row, p) ==              \* the row after the UPDATE of the changed columns
    [sub |-> IF p.sub = None THEN row.sub ELSE p.sub,
     email |-> IF p.email = None THEN row.email ELSE p.email,
     role |-> IF p.role = "keep" THEN row.role ELSE p.role,
     disabled |-> IF p.disabled = "keep" THEN row.disabled ELSE p.disabled = "off"]

-----------------------------------------------------------------------------
(* Sign-in: /auth/login, /auth/callback.                                   *)

StartFlow(f) ==
    /\ flows[f] = "none"
    /\ flows' = [flows EXCEPT ![f] = "open"]
    /\ UNCHANGED <<users, codes, sessions, owner, reqVars, offs, raced>>

(* Variant: the UPDATE does not ask whether it was used.                   *)
ConsumeFlowAgain(r, f) ==
    /\ at[r] = "idle"
    /\ flows[f] # "none"
    /\ flows' = [flows EXCEPT ![f] = "used"]
    /\ at' = [at EXCEPT ![r] = "provider"]
    /\ flow' = [flow EXCEPT ![r] = f]
    /\ UNCHANGED <<users, codes, sessions, owner, code, ident, mine, pend, seen, stale,
                   offs, raced>>

\* One UPDATE ... WHERE used = FALSE; the SELECT before it reads columns that
\* never change.
ConsumeFlow(r, f) ==
    /\ at[r] = "idle"
    /\ flows[f] = "open"
    /\ flows' = [flows EXCEPT ![f] = "used"]
    /\ at' = [at EXCEPT ![r] = "provider"]
    /\ flow' = [flow EXCEPT ![r] = f]
    /\ UNCHANGED <<users, codes, sessions, owner, code, ident, mine, pend, seen, stale,
                   offs, raced>>

\* exchange_code and verify_id_token.
Verified(r, e) ==
    /\ at[r] = "provider"
    /\ ident' = [ident EXCEPT ![r] = [sub |-> owner[e], email |-> e]]
    /\ at' = [at EXCEPT ![r] = "by_sub"]
    /\ UNCHANGED <<rowVars, owner, flow, code, mine, pend, seen, stale, offs, raced>>

NotVerified(r) ==
    /\ at[r] = "provider"
    /\ Answer(r)
    /\ UNCHANGED <<rowVars, owner, offs, raced>>

\* login_user: the first SELECT.
LookBySub(r) ==
    /\ at[r] = "by_sub"
    /\ \/ \E u \in Users :
            /\ Exists(u) /\ users[u].sub = ident[r].sub
            /\ mine' = [mine EXCEPT ![r] = [user |-> u, row |-> users[u]]]
            /\ seen' = [seen EXCEPT ![r] = offs[u]]
       \/ /\ \A u \in Users : users[u].sub # ident[r].sub
          /\ UNCHANGED <<mine, seen>>
    /\ at' = [at EXCEPT ![r] = "by_email"]
    /\ UNCHANGED <<rowVars, owner, flow, code, ident, pend, stale, offs, raced>>

Promotion(r, role) ==
    IF ident[r].email \in Superadmins /\ role # "superadmin" THEN "superadmin" ELSE "keep"

SignedIn(r, p) ==               \* the policy lets the sign-in write p
    /\ pend' = [pend EXCEPT ![r] = p]
    /\ mine' = [mine EXCEPT ![r] = NotFound]
    /\ at' = [at EXCEPT ![r] = "flush"]

\* login_user: the second SELECT and the policy.  A row found both ways is one
\* object of the session: it keeps what the first SELECT loaded.
KnownAccount(r) ==
    LET u == mine[r].user
        row == mine[r].row
        taken == \E v \in Users \ {u} : Exists(v) /\ users[v].email = ident[r].email
    IN  /\ at[r] = "by_email" /\ u # None
        /\ IF row.disabled
           THEN Answer(r)
           ELSE /\ SignedIn(r, Writes(u, None,
                                      IF taken \/ row.email = ident[r].email
                                      THEN None ELSE ident[r].email,
                                      Promotion(r, row.role)))
                /\ UNCHANGED <<flow, code, ident, seen, stale>>
        /\ UNCHANGED <<rowVars, owner, offs, raced>>

(* Variant: a row that has a sub is claimed as well.                       *)
ClaimAnyRow(r, u) ==
    /\ at[r] = "by_email" /\ mine[r].user = None
    /\ Exists(u) /\ users[u].email = ident[r].email
    /\ IF users[u].disabled
       THEN Answer(r)
       ELSE /\ SignedIn(r, Writes(u, ident[r].sub, None, Promotion(r, users[u].role)))
            /\ seen' = [seen EXCEPT ![r] = offs[u]]
            /\ UNCHANGED <<flow, code, ident, stale>>
    /\ UNCHANGED <<rowVars, owner, offs, raced>>

ClaimInvitation(r, u) ==
    /\ at[r] = "by_email" /\ mine[r].user = None
    /\ Exists(u) /\ users[u].email = ident[r].email
    /\ IF users[u].sub # None \/ users[u].disabled
       THEN Answer(r)
       ELSE /\ SignedIn(r, Writes(u, ident[r].sub, None, Promotion(r, users[u].role)))
            /\ seen' = [seen EXCEPT ![r] = offs[u]]
            /\ UNCHANGED <<flow, code, ident, stale>>
    /\ UNCHANGED <<rowVars, owner, offs, raced>>

NewAccount(r) ==
    /\ at[r] = "by_email" /\ mine[r].user = None
    /\ \A u \in Users : users[u].email # ident[r].email
    /\ IF ident[r].email \in Superadmins \cup Allowed
       THEN /\ SignedIn(r, Writes(None, ident[r].sub, ident[r].email, Promotion(r, "user")))
            /\ UNCHANGED <<flow, code, ident, seen, stale>>
       ELSE Answer(r)
    /\ UNCHANGED <<rowVars, owner, offs, raced>>

\* flush and commit.  A violated unique constraint ends the request with no change.
Flush(r) ==
    /\ at[r] = "flush"
    /\ \E u \in Users :
         LET row == Flushed(users[u], pend[r])
         IN  /\ IF pend[r].user = None THEN ~Exists(u) ELSE u = pend[r].user
             /\ IF Conflict(u, row)
                THEN UNCHANGED users /\ Answer(r)
                ELSE /\ users' = [users EXCEPT ![u] = row]
                     /\ pend' = [pend EXCEPT ![r] = [NoChange EXCEPT !.user = u]]
                     /\ ident' = [ident EXCEPT ![r].email = None]
                     /\ at' = [at EXCEPT ![r] = "mint"]
                     /\ UNCHANGED <<flow, code, mine, seen, stale>>
    /\ UNCHANGED <<flows, codes, sessions, owner, offs, raced>>

\* create_session or create_login_code, in a transaction after the sign-in's.
MintSession(r) ==
    /\ at[r] = "mint"
    /\ flow[r] \notin DesktopFlows
    /\ Len(sessions) < MaxSessions
    /\ sessions' = Append(sessions,
         [user |-> pend[r].user, sub |-> ident[r].sub, flow |-> flow[r], code |-> code[r],
          live |-> TRUE, since |-> offs[pend[r].user], seen |-> seen[r]])
    /\ Answer(r)
    /\ UNCHANGED <<users, flows, codes, owner, offs, raced>>

MintCode(r) ==
    /\ at[r] = "mint"
    /\ flow[r] \in DesktopFlows
    /\ Len(codes) < MaxCodes
    /\ codes' = Append(codes, [user |-> pend[r].user, sub |-> ident[r].sub,
                               flow |-> flow[r], open |-> TRUE])
    /\ Answer(r)
    /\ UNCHANGED <<users, flows, sessions, owner, offs, raced>>

-----------------------------------------------------------------------------
(* /auth/desktop/token: the code is spent first, the account checked next. *)

RedeemCode(r, c) ==
    /\ at[r] = "idle"
    /\ codes[c].open
    /\ codes' = [codes EXCEPT ![c] = Spent(codes[c])]
    /\ code' = [code EXCEPT ![r] = c]
    /\ ident' = [ident EXCEPT ![r].sub = codes[c].sub]
    /\ pend' = [pend EXCEPT ![r].user = codes[c].user]
    /\ at' = [at EXCEPT ![r] = "account"]
    /\ UNCHANGED <<users, flows, sessions, owner, flow, mine, seen, stale, offs, raced>>

CheckAccount(r) ==
    /\ at[r] = "account"
    /\ IF users[pend[r].user].disabled
       THEN Answer(r)
       ELSE /\ at' = [at EXCEPT ![r] = "mint"]
            /\ seen' = [seen EXCEPT ![r] = offs[pend[r].user]]
            /\ UNCHANGED <<flow, code, ident, mine, pend, stale>>
    /\ UNCHANGED <<rowVars, owner, offs, raced>>

-----------------------------------------------------------------------------
(* Administration: /api/admin/users.  require_superadmin answers first.    *)

Authorize(r) ==
    /\ at[r] = "idle"
    /\ \E i \in 1..Len(sessions) : Resolves(i) /\ Active(sessions[i].user)
    /\ at' = [at EXCEPT ![r] = "admin"]
    /\ UNCHANGED <<rowVars, owner, flow, code, ident, mine, pend, seen, stale, offs, raced>>

\* patch_user: db.get, and whether the change takes an active super admin away.
PatchRead(r, u, role, disabled) ==
    LET row == users[u]
        losing == Active(u) /\ (role = "user" \/ disabled = "off")
    IN  /\ at[r] = "admin" /\ Exists(u)
        /\ disabled = "off" => offs[u] < MaxOffs
        /\ mine' = [mine EXCEPT ![r] = [user |-> u, row |-> row]]
        /\ pend' = [pend EXCEPT ![r] =
              [Writes(u, None, None, IF role = row.role THEN "keep" ELSE role)
                 EXCEPT !.disabled = disabled]]
        /\ at' = [at EXCEPT ![r] = IF losing THEN "count" ELSE "patch"]
        /\ UNCHANGED <<rowVars, owner, flow, code, ident, seen, stale, offs, raced>>

(* Variant: refuses only when nobody is left already.                      *)
CountAdminsLate(r) ==
    /\ at[r] = "count"
    /\ IF Cardinality(Admins) < 1
       THEN Answer(r)
       ELSE /\ at' = [at EXCEPT ![r] = "patch"]
            /\ UNCHANGED <<flow, code, ident, mine, pend, seen, stale>>
    /\ UNCHANGED <<rowVars, owner, offs, raced>>

CountAdmins(r) ==
    /\ at[r] = "count"
    /\ IF Cardinality(Admins) <= 1
       THEN Answer(r)
       ELSE /\ at' = [at EXCEPT ![r] = "patch"]
            /\ UNCHANGED <<flow, code, ident, mine, pend, seen, stale>>
    /\ UNCHANGED <<rowVars, owner, offs, raced>>

(* Variant: only the account is changed.                                   *)
RevokedNone(u) == sessions

Revoked(u) ==                   \* revoke_user_sessions
    [i \in 1..Len(sessions) |->
        IF sessions[i].user = u THEN Ended(sessions[i]) ELSE sessions[i]]

\* Columns that equal what was loaded are not written, but the sessions are
\* revoked in the same transaction whatever was loaded.
PatchWrite(r) ==
    LET u == pend[r].user
        off == pend[r].disabled = "off"
        kept == (pend[r].disabled = "off") = mine[r].row.disabled
        p == IF kept THEN [pend[r] EXCEPT !.disabled = "keep"] ELSE pend[r]
    IN  /\ at[r] = "patch"
        /\ off => offs[u] < MaxOffs
        /\ users' = [users EXCEPT ![u] = Flushed(users[u], p)]
        /\ sessions' = IF off THEN Revoked(u) ELSE sessions
        /\ offs' = IF off THEN [offs EXCEPT ![u] = @ + 1] ELSE offs
        /\ raced' = (raced \/ stale[r])
        /\ at' = [at EXCEPT ![r] = "idle"]
        /\ mine' = [mine EXCEPT ![r] = NotFound]
        /\ pend' = [pend EXCEPT ![r] = NoChange]
        /\ stale' = [o \in Requests |->
                        o # r /\ (stale[o] \/ at[o] \in {"count", "patch"})]
        /\ UNCHANGED <<flows, codes, owner, flow, code, ident, seen>>

InviteRead(r, e, role) ==
    /\ at[r] = "admin"
    /\ \A u \in Users : users[u].email # e
    /\ pend' = [pend EXCEPT ![r] = Writes(None, None, e, role)]
    /\ at' = [at EXCEPT ![r] = "invite"]
    /\ UNCHANGED <<rowVars, owner, flow, code, ident, mine, seen, stale, offs, raced>>

InviteWrite(r) ==
    /\ at[r] = "invite"
    /\ \E u \in Users :
         LET row == Flushed(NoRow, pend[r])
         IN  /\ ~Exists(u)
             /\ users' = IF Conflict(u, row) THEN users ELSE [users EXCEPT ![u] = row]
    /\ Answer(r)
    /\ UNCHANGED <<flows, codes, sessions, owner, offs, raced>>

-----------------------------------------------------------------------------
\* /auth/logout, or the session's time is over.
EndSession(i) ==
    /\ sessions[i].live
    /\ sessions' = [sessions EXCEPT ![i] = Ended(sessions[i])]
    /\ UNCHANGED <<users, flows, codes, owner, reqVars, offs, raced>>

ExpireFlow(f) ==
    /\ flows[f] = "open"
    /\ flows' = [flows EXCEPT ![f] = "used"]
    /\ UNCHANGED <<users, codes, sessions, owner, reqVars, offs, raced>>

ExpireCode(c) ==
    /\ codes[c].open
    /\ codes' = [codes EXCEPT ![c] = Spent(codes[c])]
    /\ UNCHANGED <<users, flows, sessions, owner, reqVars, offs, raced>>

\* External: an address goes to another account.
Recycle(e, s) ==
    /\ owner[e] # s
    /\ \A r \in Requests : ident[r].email # e
    /\ owner' = [owner EXCEPT ![e] = s]
    /\ UNCHANGED <<rowVars, reqVars, offs, raced>>

SignIn(r) ==
    \/ \E f \in 1..MaxFlows : ConsumeFlow(r, f)
    \/ \E e \in Emails : Verified(r, e)
    \/ NotVerified(r)
    \/ LookBySub(r)
    \/ KnownAccount(r)
    \/ \E u \in Users : ClaimInvitation(r, u)
    \/ NewAccount(r)
    \/ Flush(r)
    \/ MintSession(r)
    \/ MintCode(r)
    \/ \E c \in 1..Len(codes) : RedeemCode(r, c)
    \/ CheckAccount(r)

Administer(r) ==
    \/ Authorize(r)
    \/ \E u \in Users, body \in Patches : PatchRead(r, u, body[1], body[2])
    \/ CountAdmins(r)
    \/ PatchWrite(r)
    \/ \E e \in Emails, role \in Roles : InviteRead(r, e, role)
    \/ InviteWrite(r)

Next ==
    \/ \E f \in 1..MaxFlows : StartFlow(f)
    \/ \E r \in Requests : SignIn(r) \/ Administer(r)
    \/ \E i \in 1..Len(sessions) : EndSession(i)
    \/ \E f \in 1..MaxFlows : ExpireFlow(f)
    \/ \E c \in 1..Len(codes) : ExpireCode(c)
    \/ \E e \in Emails, s \in Subs : Recycle(e, s)

Spec == Init /\ [][Next]_vars

-----------------------------------------------------------------------------
\* Every variable has its type.
TypeOK ==
    /\ users \in [Users -> Row]
    /\ flows \in [1..MaxFlows -> FlowState]
    /\ codes \in Seq(Code) /\ Len(codes) <= MaxCodes
    /\ sessions \in Seq(Session) /\ Len(sessions) <= MaxSessions
    /\ owner \in [Emails -> Subs]
    /\ at \in [Requests -> {"idle", "provider", "by_sub", "by_email", "flush", "mint",
                            "account", "admin", "count", "patch", "invite"}]
    /\ flow \in [Requests -> 0..MaxFlows]
    /\ code \in [Requests -> 0..MaxCodes]
    /\ ident \in [Requests -> Identity]
    /\ mine \in [Requests -> Found]
    /\ pend \in [Requests -> Change]
    /\ seen \in [Requests -> 0..MaxOffs]
    /\ stale \in [Requests -> BOOLEAN]
    /\ offs \in [Users -> 0..MaxOffs]
    /\ raced \in BOOLEAN

\* What a login flow has led to: requests still at work, codes and sessions.
FromFlow(f) ==
    {<<"request", r>> : r \in {q \in Requests : flow[q] = f}}
    \cup {<<"code", c>> : c \in {d \in 1..Len(codes) : codes[d].flow = f}}
    \cup {<<"session", i>> : i \in {j \in 1..Len(sessions) : sessions[j].flow = f}}

FromCode(c) ==
    {<<"request", r>> : r \in {q \in Requests : code[q] = c}}
    \cup {<<"session", i>> : i \in {j \in 1..Len(sessions) : sessions[j].code = c}}

\* A login flow, and a desktop login code, leads to one session at most, however
\* many callbacks arrive at the same time (service.py:181 "exactly one gets
\* rowcount == 1").
SingleUse ==
    /\ \A f \in 1..MaxFlows : \A x, y \in FromFlow(f) : x = y
    /\ \A c \in 1..Len(codes) : \A x, y \in FromCode(c) : x = y

\* The account a session or a code was created for stays the account of that
\* person: sign-ins with a shared, renamed or recycled address never move a row
\* to another account at the provider (service.py:72 "refused rather than merged").
PersonKept ==
    /\ \A i \in 1..Len(sessions) : users[sessions[i].user].sub = sessions[i].sub
    /\ \A c \in 1..Len(codes) : users[codes[c].user].sub = codes[c].sub

\* Turning an account off ends every session it had (routes.py:242 "off means
\* off"); a session that an account has while it is off was created by a
\* sign-in that had checked the account before.
OffEndsSessions ==
    \A i \in 1..Len(sessions) : sessions[i].live =>
        /\ sessions[i].since = offs[sessions[i].user]
        /\ users[sessions[i].user].disabled => sessions[i].seen < sessions[i].since

\* Some super admin stays active as long as no patch is written on reads that
\* another patch has overtaken (docs/AUTH.md:14).
AdminRemains == ~raced => Admins # {}
=============================================================================
