--------------------------- MODULE AccountsProofs ---------------------------
(***************************************************************************)
(* Theorems about Accounts, for any accounts, requests and bounds.         *)
(***************************************************************************)
EXTENDS Accounts, SequenceTheorems, FiniteSetTheorems, TLAPS

-----------------------------------------------------------------------------
(* Types.                                                                  *)

ReqOK ==
    /\ at \in [Requests -> {"idle", "provider", "by_sub", "by_email", "flush", "mint",
                            "account", "admin", "count", "patch", "invite"}]
    /\ flow \in [Requests -> 0..MaxFlows]
    /\ code \in [Requests -> 0..MaxCodes]
    /\ ident \in [Requests -> Identity]
    /\ mine \in [Requests -> Found]
    /\ pend \in [Requests -> Change]
    /\ seen \in [Requests -> 0..MaxOffs]
    /\ stale \in [Requests -> BOOLEAN]

RowsOK ==
    /\ users \in [Users -> Row]
    /\ flows \in [1..MaxFlows -> FlowState]
    /\ codes \in Seq(Code) /\ Len(codes) <= MaxCodes
    /\ sessions \in Seq(Session) /\ Len(sessions) <= MaxSessions
    /\ owner \in [Emails -> Subs]
    /\ offs \in [Users -> 0..MaxOffs]
    /\ raced \in BOOLEAN

(* A request that is about to write for an account knows which.            *)
Placed(r) ==
    /\ at[r] \in {"by_sub", "by_email", "flush", "mint", "account"} => ident[r].sub \in Subs
    /\ at[r] \in {"mint", "account", "count", "patch"} => pend[r].user \in Users

Base == ReqOK /\ RowsOK /\ \A r \in Requests : Placed(r)

LEMMA BaseIsTyped == Base => TypeOK
BY DEF Base, ReqOK, RowsOK, TypeOK

LEMMA Zeros == 0 \in 0..MaxFlows /\ 0 \in 0..MaxCodes /\ 0 \in 0..MaxOffs
BY BoundsAssumption

LEMMA Empties ==
    /\ NoRow \in Row /\ Nobody \in Identity /\ NotFound \in Found /\ NoChange \in Change
    /\ NoRow.email = None /\ NoRow.sub = None /\ NoChange.user = None
<1>1. NoRow \in Row /\ NoRow.email = None /\ NoRow.sub = None
  BY DEF NoRow, Row, Roles
<1>2. Nobody \in Identity
  BY DEF Nobody, Identity
<1>3. NotFound \in Found
  BY <1>1 DEF NotFound, Found
<1>4. NoChange \in Change /\ NoChange.user = None
  BY DEF NoChange, Change
<1>5. QED
  BY <1>1, <1>2, <1>3, <1>4

LEMMA InitBase == Init => Base
<1> SUFFICES ASSUME Init PROVE Base
  OBVIOUS
<1>1. users \in [Users -> Row]
  <2>1. /\ owner \in [Emails -> Subs]
        /\ users \in [Users -> {NoRow}
                         \cup {Administrator(owner[e], e) : e \in Superadmins}
                         \cup {Invited(e, role) : e \in Emails \ Superadmins, role \in Roles}]
    BY DEF Init
  <2>2. \A e \in Superadmins : Administrator(owner[e], e) \in Row
    BY <2>1, PolicyAssumption DEF Administrator, Row, Roles
  <2>3. \A e \in Emails, role \in Roles : Invited(e, role) \in Row
    BY DEF Invited, Row
  <2>4. \A u \in Users : users[u] \in Row
    BY <2>1, <2>2, <2>3, Empties
  <2>5. QED
    BY <2>1, <2>4
<1>2. RowsOK
  <2>1. codes = <<>> /\ sessions = <<>> /\ flows = [f \in 1..MaxFlows |-> "none"]
        /\ owner \in [Emails -> Subs] /\ offs = [u \in Users |-> 0] /\ raced = FALSE
    BY DEF Init
  <2>2. codes \in Seq(Code) /\ sessions \in Seq(Session) /\ Len(codes) = 0 /\ Len(sessions) = 0
    BY <2>1, EmptySeq
  <2>3. Len(codes) <= MaxCodes /\ Len(sessions) <= MaxSessions
    BY <2>2, BoundsAssumption
  <2>4. flows \in [1..MaxFlows -> FlowState] /\ offs \in [Users -> 0..MaxOffs]
    BY <2>1, Zeros DEF FlowState
  <2>5. QED
    BY <1>1, <2>1, <2>2, <2>3, <2>4 DEF RowsOK
<1>3. /\ at = [r \in Requests |-> "idle"]
      /\ flow = [r \in Requests |-> 0]
      /\ code = [r \in Requests |-> 0]
      /\ ident = [r \in Requests |-> Nobody]
      /\ mine = [r \in Requests |-> NotFound]
      /\ pend = [r \in Requests |-> NoChange]
      /\ seen = [r \in Requests |-> 0]
      /\ stale = [r \in Requests |-> FALSE]
  BY DEF Init
<1>4. ReqOK
  BY <1>3, Zeros, Empties DEF ReqOK
<1>5. \A r \in Requests : Placed(r)
  BY <1>3 DEF Placed
<1>6. QED
  BY <1>2, <1>4, <1>5 DEF Base

LEMMA AnswerOK ==
  ASSUME ReqOK, NEW r \in Requests, Answer(r)
  PROVE  /\ ReqOK'
         /\ at'[r] = "idle" /\ flow'[r] = 0 /\ code'[r] = 0 /\ ident'[r] = Nobody
         /\ \A q \in Requests \ {r} :
              /\ at'[q] = at[q] /\ flow'[q] = flow[q] /\ code'[q] = code[q]
              /\ ident'[q] = ident[q] /\ mine'[q] = mine[q] /\ pend'[q] = pend[q]
BY Zeros, Empties DEF ReqOK, Answer

LEMMA AnswerPlaced ==
  ASSUME Base, NEW r \in Requests, Answer(r)
  PROVE  ReqOK' /\ \A q \in Requests : Placed(q)'
<1>1. ReqOK
  BY DEF Base
<1>2. Placed(r)'
  BY <1>1, AnswerOK DEF Placed
<1>3. ASSUME NEW q \in Requests \ {r} PROVE Placed(q)'
  BY <1>1, AnswerOK DEF Base, Placed
<1>4. QED
  BY <1>1, <1>2, <1>3, AnswerOK

(* Whatever a request works on, the others keep their place.               *)
LEMMA OthersPlaced ==
  ASSUME Base, NEW r \in Requests,
         \A q \in Requests \ {r} : at'[q] = at[q] /\ ident'[q] = ident[q] /\ pend'[q] = pend[q],
         Placed(r)'
  PROVE  \A q \in Requests : Placed(q)'
BY DEF Base, Placed

LEMMA FlushedRow ==
  ASSUME NEW row \in Row, NEW p \in Change
  PROVE  /\ Flushed(row, p) \in Row
         /\ Flushed(row, p).sub = IF p.sub = None THEN row.sub ELSE p.sub
         /\ Flushed(row, p).email = IF p.email = None THEN row.email ELSE p.email
BY DEF Flushed, Row, Change, Roles
LEMMA FlowSteps ==
  ASSUME Base,
         \E f \in 1..MaxFlows : StartFlow(f) \/ ExpireFlow(f)
  PROVE  Base'
<1>1. flows' \in [1..MaxFlows -> FlowState]
  BY DEF Base, RowsOK, StartFlow, ExpireFlow, FlowState
<1>2. UNCHANGED <<users, codes, sessions, owner, offs, raced, reqVars>>
  BY DEF StartFlow, ExpireFlow
<1>3. RowsOK'
  BY <1>1, <1>2 DEF Base, RowsOK
<1>4. ReqOK' /\ \A r \in Requests : Placed(r)'
  BY <1>2 DEF Base, ReqOK, Placed, reqVars
<1>5. QED
  BY <1>3, <1>4 DEF Base

LEMMA ConsumeFlowStep ==
  ASSUME Base, NEW r \in Requests, NEW f \in 1..MaxFlows, ConsumeFlow(r, f)
  PROVE  Base'
<1>1. RowsOK'
  BY DEF Base, RowsOK, ConsumeFlow, FlowState
<1>2. ReqOK'
  <2>1. f \in 0..MaxFlows
    BY BoundsAssumption
  <2>2. QED
    BY <2>1 DEF Base, ReqOK, ConsumeFlow
<1>3. /\ at'[r] = "provider"
      /\ \A q \in Requests \ {r} : at'[q] = at[q]
      /\ ident' = ident /\ pend' = pend
  BY DEF Base, ReqOK, ConsumeFlow
<1>4. Placed(r)'
  BY <1>3 DEF Placed
<1>5. QED
  BY <1>1, <1>2, <1>3, <1>4, OthersPlaced DEF Base

LEMMA VerifiedStep ==
  ASSUME Base, NEW r \in Requests, NEW e \in Emails, Verified(r, e)
  PROVE  Base'
<1>1. owner[e] \in Subs /\ [sub |-> owner[e], email |-> e] \in Identity
  BY DEF Base, RowsOK, Identity
<1>2. RowsOK'
  BY DEF Base, RowsOK, Verified, rowVars
<1>3. ReqOK'
  BY <1>1 DEF Base, ReqOK, Verified
<1>4. /\ at'[r] = "by_sub" /\ ident'[r].sub = owner[e]
      /\ \A q \in Requests \ {r} : at'[q] = at[q] /\ ident'[q] = ident[q]
      /\ pend' = pend
  BY DEF Base, ReqOK, Verified
<1>5. Placed(r)'
  BY <1>1, <1>4 DEF Placed
<1>6. QED
  BY <1>2, <1>3, <1>4, <1>5, OthersPlaced DEF Base

LEMMA LookBySubStep ==
  ASSUME Base, NEW r \in Requests, LookBySub(r)
  PROVE  Base'
<1>1. RowsOK'
  BY DEF Base, RowsOK, LookBySub, rowVars
<1>2. mine' \in [Requests -> Found] /\ seen' \in [Requests -> 0..MaxOffs]
  <2>1. \A u \in Users : [user |-> u, row |-> users[u]] \in Found /\ offs[u] \in 0..MaxOffs
    BY DEF Base, RowsOK, Found
  <2>2. QED
    BY <2>1 DEF Base, ReqOK, LookBySub
<1>3. ReqOK'
  BY <1>2 DEF Base, ReqOK, LookBySub
<1>4. /\ at[r] = "by_sub" /\ at'[r] = "by_email"
      /\ \A q \in Requests \ {r} : at'[q] = at[q]
      /\ ident' = ident /\ pend' = pend
  BY DEF Base, ReqOK, LookBySub
<1>5. Placed(r)'
  BY <1>4 DEF Base, Placed
<1>6. QED
  BY <1>1, <1>3, <1>4, <1>5, OthersPlaced DEF Base

(* The policy lets a sign-in write p.                                      *)
LEMMA SignedInOK ==
  ASSUME Base, NEW r \in Requests, NEW p \in Change, at[r] = "by_email", SignedIn(r, p),
         UNCHANGED <<flow, code, ident, stale>>,
         seen' \in [Requests -> 0..MaxOffs]
  PROVE  ReqOK' /\ \A q \in Requests : Placed(q)'
<1>1. ReqOK'
  BY Empties DEF Base, ReqOK, SignedIn
<1>2. /\ at'[r] = "flush" /\ ident' = ident
      /\ \A q \in Requests \ {r} : at'[q] = at[q] /\ pend'[q] = pend[q]
  BY DEF Base, ReqOK, SignedIn
<1>3. Placed(r)'
  BY <1>2 DEF Base, Placed
<1>4. QED
  BY <1>1, <1>2, <1>3, OthersPlaced

LEMMA PromotionRole ==
  ASSUME NEW r \in Requests, NEW role
  PROVE  Promotion(r, role) \in Roles \cup {"keep"}
BY DEF Promotion, Roles

LEMMA WritesChange ==
  ASSUME NEW u \in Users \cup {None}, NEW sub \in Subs \cup {None},
         NEW e \in Emails \cup {None}, NEW role \in Roles \cup {"keep"}
  PROVE  Writes(u, sub, e, role) \in Change
BY DEF Writes, Change

LEMMA IdentTyped ==
  ASSUME Base, NEW r \in Requests
  PROVE  /\ ident[r].sub \in Subs \cup {None} /\ ident[r].email \in Emails \cup {None}
         /\ mine[r].user \in Users \cup {None} /\ mine[r].row \in Row
BY DEF Base, ReqOK, Identity, Found

LEMMA KnownAccountStep ==
  ASSUME Base, NEW r \in Requests, KnownAccount(r)
  PROVE  Base'
<1>1. RowsOK'
  BY DEF Base, RowsOK, KnownAccount, rowVars
<1>2. CASE Answer(r)
  BY <1>1, <1>2, AnswerPlaced DEF Base
<1>3. CASE ~Answer(r)
  <2>1. PICK e \in {None, ident[r].email} :
           /\ SignedIn(r, Writes(mine[r].user, None, e, Promotion(r, mine[r].row.role)))
           /\ UNCHANGED <<flow, code, ident, seen, stale>>
    BY <1>3 DEF KnownAccount
  <2>2. Writes(mine[r].user, None, e, Promotion(r, mine[r].row.role)) \in Change
    BY IdentTyped, PromotionRole, WritesChange
  <2>3. at[r] = "by_email" /\ seen' \in [Requests -> 0..MaxOffs]
    BY <2>1 DEF KnownAccount, Base, ReqOK
  <2>4. QED
    BY <1>1, <2>1, <2>2, <2>3, SignedInOK DEF Base
<1>4. QED
  BY <1>2, <1>3

LEMMA ClaimStep ==
  ASSUME Base, NEW r \in Requests, NEW u \in Users, ClaimInvitation(r, u)
  PROVE  Base'
<1>1. RowsOK'
  BY DEF Base, RowsOK, ClaimInvitation, rowVars
<1>2. CASE Answer(r)
  BY <1>1, <1>2, AnswerPlaced DEF Base
<1>3. CASE ~Answer(r)
  <2>1. /\ SignedIn(r, Writes(u, ident[r].sub, None, Promotion(r, users[u].role)))
        /\ UNCHANGED <<flow, code, ident, stale>>
        /\ seen' = [seen EXCEPT ![r] = offs[u]]
    BY <1>3 DEF ClaimInvitation
  <2>2. Writes(u, ident[r].sub, None, Promotion(r, users[u].role)) \in Change
    BY IdentTyped, PromotionRole, WritesChange
  <2>3. at[r] = "by_email" /\ seen' \in [Requests -> 0..MaxOffs]
    BY <2>1 DEF ClaimInvitation, Base, ReqOK, RowsOK
  <2>4. QED
    BY <1>1, <2>1, <2>2, <2>3, SignedInOK DEF Base
<1>4. QED
  BY <1>2, <1>3

LEMMA NewAccountStep ==
  ASSUME Base, NEW r \in Requests, NewAccount(r)
  PROVE  Base'
<1>1. RowsOK'
  BY DEF Base, RowsOK, NewAccount, rowVars
<1>2. CASE Answer(r)
  BY <1>1, <1>2, AnswerPlaced DEF Base
<1>3. CASE ~Answer(r)
  <2>1. /\ SignedIn(r, Writes(None, ident[r].sub, ident[r].email, Promotion(r, "user")))
        /\ UNCHANGED <<flow, code, ident, seen, stale>>
    BY <1>3 DEF NewAccount
  <2>2. Writes(None, ident[r].sub, ident[r].email, Promotion(r, "user")) \in Change
    BY IdentTyped, PromotionRole, WritesChange
  <2>3. at[r] = "by_email" /\ seen' \in [Requests -> 0..MaxOffs]
    BY <2>1 DEF NewAccount, Base, ReqOK
  <2>4. QED
    BY <1>1, <2>1, <2>2, <2>3, SignedInOK DEF Base
<1>4. QED
  BY <1>2, <1>3

LEMMA FlushStep ==
  ASSUME Base, NEW r \in Requests, Flush(r)
  PROVE  Base'
<1>1. PICK u \in Users :
         /\ IF pend[r].user = None THEN ~Exists(u) ELSE u = pend[r].user
         /\ IF Conflict(u, Flushed(users[u], pend[r]))
            THEN UNCHANGED users /\ Answer(r)
            ELSE /\ users' = [users EXCEPT ![u] = Flushed(users[u], pend[r])]
                 /\ pend' = [pend EXCEPT ![r] = [NoChange EXCEPT !.user = u]]
                 /\ ident' = [ident EXCEPT ![r].email = None]
                 /\ at' = [at EXCEPT ![r] = "mint"]
                 /\ UNCHANGED <<flow, code, mine, seen, stale>>
  BY DEF Flush
<1>2. users[u] \in Row /\ pend[r] \in Change
  BY DEF Base, ReqOK, RowsOK
<1>3. users' \in [Users -> Row]
  BY <1>1, <1>2, FlushedRow DEF Base, RowsOK
<1>4. RowsOK'
  BY <1>3 DEF Base, RowsOK, Flush
<1>5. CASE Answer(r)
  BY <1>4, <1>5, AnswerPlaced DEF Base
<1>6. CASE ~Answer(r)
  <2>1. /\ pend' = [pend EXCEPT ![r] = [user |-> u, sub |-> None, email |-> None,
                                        role |-> "keep", disabled |-> "keep"]]
        /\ ident' = [ident EXCEPT ![r].email = None]
        /\ at' = [at EXCEPT ![r] = "mint"]
        /\ UNCHANGED <<flow, code, mine, seen, stale>>
    BY <1>1, <1>6 DEF NoChange
  <2>2. [user |-> u, sub |-> None, email |-> None, role |-> "keep", disabled |-> "keep"] \in Change
    BY DEF Change
  <2>3. pend' \in [Requests -> Change] /\ pend'[r].user = u
    BY <2>1, <2>2 DEF Base, ReqOK
  <2>4. /\ ident' \in [Requests -> Identity] /\ ident'[r].sub = ident[r].sub
        /\ \A q \in Requests \ {r} : ident'[q] = ident[q]
    BY <2>1 DEF Base, ReqOK, Identity
  <2>5. ReqOK'
    BY <2>1, <2>3, <2>4 DEF Base, ReqOK
  <2>6. at'[r] = "mint" /\ at[r] = "flush"
        /\ \A q \in Requests \ {r} : at'[q] = at[q] /\ pend'[q] = pend[q]
    BY <2>1 DEF Base, ReqOK, Flush
  <2>7. Placed(r)'
    BY <2>3, <2>4, <2>6 DEF Base, Placed
  <2>8. QED
    BY <1>4, <2>4, <2>5, <2>6, <2>7, OthersPlaced DEF Base
<1>7. QED
  BY <1>5, <1>6

LEMMA MintSessionStep ==
  ASSUME Base, NEW r \in Requests, MintSession(r)
  PROVE  Base'
<1> DEFINE x == [user |-> pend[r].user, sub |-> ident[r].sub, flow |-> flow[r], code |-> code[r],
                 live |-> TRUE, since |-> offs[pend[r].user], seen |-> seen[r]]
<1>1. sessions' = Append(sessions, x) /\ Len(sessions) < MaxSessions /\ Answer(r)
  BY DEF MintSession
<1>2. pend[r].user \in Users /\ ident[r].sub \in Subs
  BY DEF Base, Placed, MintSession
<1>3. x \in Session
  BY <1>2 DEF Base, ReqOK, RowsOK, Session
<1> HIDE DEF x
<1>4. sessions' \in Seq(Session) /\ Len(sessions') = Len(sessions) + 1 /\ Len(sessions) \in Nat
  BY <1>1, <1>3, AppendProperties, LenProperties DEF Base, RowsOK
<1>5. Len(sessions') <= MaxSessions
  BY <1>1, <1>4, BoundsAssumption
<1>6. RowsOK'
  BY <1>4, <1>5 DEF Base, RowsOK, MintSession
<1>7. QED
  BY <1>1, <1>6, AnswerPlaced DEF Base

LEMMA MintCodeStep ==
  ASSUME Base, NEW r \in Requests, MintCode(r)
  PROVE  Base'
<1> DEFINE x == [user |-> pend[r].user, sub |-> ident[r].sub, flow |-> flow[r], open |-> TRUE]
<1>1. codes' = Append(codes, x) /\ Len(codes) < MaxCodes /\ Answer(r)
  BY DEF MintCode
<1>2. pend[r].user \in Users /\ ident[r].sub \in Subs
  BY DEF Base, Placed, MintCode
<1>3. flow[r] \in 1..MaxFlows
  BY RequestsAssumption DEF MintCode
<1>4. x \in Code
  BY <1>2, <1>3 DEF Code
<1> HIDE DEF x
<1>5. codes' \in Seq(Code) /\ Len(codes') = Len(codes) + 1 /\ Len(codes) \in Nat
  BY <1>1, <1>4, AppendProperties, LenProperties DEF Base, RowsOK
<1>6. Len(codes') <= MaxCodes
  BY <1>1, <1>5, BoundsAssumption
<1>7. RowsOK'
  BY <1>5, <1>6 DEF Base, RowsOK, MintCode
<1>8. QED
  BY <1>1, <1>7, AnswerPlaced DEF Base

(* One field of one code, one session.                                     *)
LEMMA CodeSpent ==
  ASSUME codes \in Seq(Code), NEW c \in 1..Len(codes),
         codes' = [codes EXCEPT ![c] = Spent(codes[c])]
  PROVE  /\ codes' \in Seq(Code) /\ Len(codes') = Len(codes)
         /\ ~codes'[c].open
         /\ \A d \in 1..Len(codes) :
              /\ codes'[d].user = codes[d].user /\ codes'[d].sub = codes[d].sub
              /\ codes'[d].flow = codes[d].flow
              /\ d # c => codes'[d].open = codes[d].open
<1>1. codes[c] \in Code
  BY ElementOfSeq
<1>2. Spent(codes[c]) \in Code
  BY <1>1 DEF Spent, Code
<1>3. /\ codes' \in Seq(Code) /\ Len(codes') = Len(codes)
      /\ codes'[c] = Spent(codes[c])
      /\ \A d \in 1..Len(codes) : d # c => codes'[d] = codes[d]
  BY <1>2, ExceptSeq
<1>4. Spent(codes[c]).open = FALSE /\ Spent(codes[c]).user = codes[c].user
      /\ Spent(codes[c]).sub = codes[c].sub /\ Spent(codes[c]).flow = codes[c].flow
  BY DEF Spent
<1>5. ~codes'[c].open
  BY <1>3, <1>4
<1>6. QED
  BY <1>3, <1>4, <1>5

LEMMA EndedSession ==
  ASSUME NEW x \in Session
  PROVE  /\ Ended(x) \in Session
         /\ Ended(x).user = x.user /\ Ended(x).sub = x.sub
         /\ Ended(x).flow = x.flow /\ Ended(x).code = x.code
BY Zeros DEF Ended, Session

LEMMA SessionEnded ==
  ASSUME sessions \in Seq(Session), NEW i \in 1..Len(sessions),
         sessions' = [sessions EXCEPT ![i] = Ended(sessions[i])]
  PROVE  /\ sessions' \in Seq(Session) /\ Len(sessions') = Len(sessions)
         /\ \A j \in 1..Len(sessions) :
              /\ sessions'[j].user = sessions[j].user /\ sessions'[j].sub = sessions[j].sub
              /\ sessions'[j].flow = sessions[j].flow /\ sessions'[j].code = sessions[j].code
<1>1. sessions[i] \in Session
  BY ElementOfSeq
<1>2. Ended(sessions[i]) \in Session
  BY <1>1, EndedSession
<1>3. /\ sessions' \in Seq(Session) /\ Len(sessions') = Len(sessions)
      /\ sessions'[i] = Ended(sessions[i])
      /\ \A j \in 1..Len(sessions) : j # i => sessions'[j] = sessions[j]
  BY <1>2, ExceptSeq
<1>4. QED
  BY <1>1, <1>3, EndedSession

LEMMA RevokedSessions ==
  ASSUME sessions \in Seq(Session), NEW u, sessions' = Revoked(u)
  PROVE  /\ sessions' \in Seq(Session) /\ Len(sessions') = Len(sessions)
         /\ \A j \in 1..Len(sessions) :
              /\ sessions'[j].user = sessions[j].user /\ sessions'[j].sub = sessions[j].sub
              /\ sessions'[j].flow = sessions[j].flow /\ sessions'[j].code = sessions[j].code
<1>1. \A j \in 1..Len(sessions) : sessions[j] \in Session
  BY ElementOfSeq
<1>2. Len(sessions) \in Nat /\ sessions' =
        [j \in 1..Len(sessions) |-> IF sessions[j].user = u THEN Ended(sessions[j]) ELSE sessions[j]]
  BY LenProperties DEF Revoked
<1>3. \A j \in 1..Len(sessions) : sessions'[j] \in Session
  BY <1>1, <1>2, EndedSession
<1>4. sessions' \in [1..Len(sessions) -> Session]
  BY <1>2, <1>3
<1>5. sessions' \in Seq(Session) /\ Len(sessions') = Len(sessions)
  BY <1>2, <1>4, SeqDef, LenProperties
<1>6. QED
  BY <1>1, <1>2, <1>5, EndedSession

LEMMA RedeemStep ==
  ASSUME Base, NEW r \in Requests, NEW c \in 1..Len(codes), RedeemCode(r, c)
  PROVE  Base'
<1>1. /\ codes' \in Seq(Code) /\ Len(codes') = Len(codes)
      /\ codes[c] \in Code
  BY CodeSpent, ElementOfSeq DEF Base, RowsOK, RedeemCode
<1>2. RowsOK'
  BY <1>1 DEF Base, RowsOK, RedeemCode
<1>3. codes[c].sub \in Subs /\ codes[c].user \in Users
  BY <1>1 DEF Code
<1>4. c \in 0..MaxCodes
  BY LenProperties, BoundsAssumption DEF Base, RowsOK
<1>5. /\ ident' \in [Requests -> Identity] /\ ident'[r].sub = codes[c].sub
      /\ \A q \in Requests \ {r} : ident'[q] = ident[q]
  BY <1>3 DEF Base, ReqOK, RedeemCode, Identity
<1>6. /\ pend' \in [Requests -> Change] /\ pend'[r].user = codes[c].user
      /\ \A q \in Requests \ {r} : pend'[q] = pend[q]
  <2> DEFINE p == [pend[r] EXCEPT !.user = codes[c].user]
  <2>1. pend[r] \in Change /\ pend \in [Requests -> Change]
    BY DEF Base, ReqOK
  <2>2. p \in Change /\ p.user = codes[c].user
    BY <1>3, <2>1 DEF Change
  <2>3. pend' = [pend EXCEPT ![r] = p]
    BY DEF RedeemCode
  <2> HIDE DEF p
  <2>4. QED
    BY <2>1, <2>2, <2>3
<1>7. ReqOK'
  BY <1>4, <1>5, <1>6 DEF Base, ReqOK, RedeemCode
<1>8. at'[r] = "account" /\ \A q \in Requests \ {r} : at'[q] = at[q]
  BY DEF Base, ReqOK, RedeemCode
<1>9. Placed(r)'
  BY <1>3, <1>5, <1>6, <1>8 DEF Placed
<1>10. QED
  BY <1>2, <1>5, <1>6, <1>7, <1>8, <1>9, OthersPlaced DEF Base

(* The request goes to another place and writes nothing.                   *)
LEMMA MovesOn ==
  ASSUME Base, NEW r \in Requests,
         NEW a \in {"mint", "admin", "patch"}, at' = [at EXCEPT ![r] = a],
         a = "mint" => at[r] = "account",
         a = "patch" => at[r] = "count",
         UNCHANGED <<rowVars, owner, flow, code, ident, mine, pend, stale, offs, raced>>,
         seen' \in [Requests -> 0..MaxOffs]
  PROVE  Base'
<1>1. RowsOK'
  BY DEF Base, RowsOK, rowVars
<1>2. ReqOK'
  BY DEF Base, ReqOK
<1>3. at'[r] = a /\ \A q \in Requests \ {r} : at'[q] = at[q]
  BY DEF Base, ReqOK
<1>4. Placed(r)'
  BY <1>3 DEF Base, Placed
<1>5. QED
  BY <1>1, <1>2, <1>3, <1>4, OthersPlaced DEF Base

LEMMA CheckSteps ==
  ASSUME Base, NEW r \in Requests, CheckAccount(r) \/ Authorize(r) \/ CountAdmins(r) \/ NotVerified(r)
  PROVE  Base'
<1>1. RowsOK'
  BY DEF Base, RowsOK, CheckAccount, Authorize, CountAdmins, NotVerified, rowVars
<1>2. CASE Answer(r)
  BY <1>1, <1>2, AnswerPlaced DEF Base
<1>3. CASE ~Answer(r) /\ CheckAccount(r)
  <2>1. pend[r].user \in Users
    BY <1>3 DEF Base, Placed, CheckAccount
  <2>2. offs[pend[r].user] \in 0..MaxOffs
    BY <2>1 DEF Base, RowsOK
  <2>3. seen' \in [Requests -> 0..MaxOffs]
    BY <1>3, <2>2 DEF Base, ReqOK, CheckAccount
  <2>4. QED
    BY <1>3, <2>3, MovesOn DEF CheckAccount
<1>4. CASE ~Answer(r) /\ Authorize(r)
  BY <1>4, MovesOn DEF Authorize, Base, ReqOK
<1>5. CASE ~Answer(r) /\ CountAdmins(r)
  BY <1>5, MovesOn DEF CountAdmins, Base, ReqOK
<1>6. QED
  BY <1>2, <1>3, <1>4, <1>5 DEF NotVerified

LEMMA PatchReadStep ==
  ASSUME Base, NEW r \in Requests, NEW u \in Users,
         NEW role \in {"user", "superadmin", "keep"}, NEW disabled \in {"keep", "off", "on"},
         PatchRead(r, u, role, disabled)
  PROVE  Base'
<1>1. RowsOK'
  BY DEF Base, RowsOK, PatchRead, rowVars
<1>2. PICK ro \in Roles \cup {"keep"} :
        pend' = [pend EXCEPT ![r] = [Writes(u, None, None, ro) EXCEPT !.disabled = disabled]]
  BY DEF PatchRead, Roles
<1> DEFINE p == [Writes(u, None, None, ro) EXCEPT !.disabled = disabled]
<1>3. p = [user |-> u, sub |-> None, email |-> None, role |-> ro, disabled |-> disabled]
  BY DEF Writes
<1>4. p \in Change /\ p.user = u
  BY <1>3 DEF Change
<1> HIDE DEF p
<1>5. [user |-> u, row |-> users[u]] \in Found
  BY DEF Base, RowsOK, Found
<1>6. ReqOK'
  BY <1>2, <1>4, <1>5 DEF p, Base, ReqOK, PatchRead
<1>7. /\ at'[r] \in {"count", "patch"} /\ \A q \in Requests \ {r} : at'[q] = at[q]
  BY DEF Base, ReqOK, PatchRead
<1>8. /\ pend'[r].user = u /\ \A q \in Requests \ {r} : pend'[q] = pend[q]
  BY <1>2, <1>4 DEF p, Base, ReqOK
<1>9. ident' = ident
  BY DEF PatchRead
<1>10. Placed(r)'
  BY <1>7, <1>8 DEF Placed
<1>11. QED
  BY <1>1, <1>6, <1>7, <1>8, <1>9, <1>10, OthersPlaced DEF Base

LEMMA PatchWriteStep ==
  ASSUME Base, NEW r \in Requests, PatchWrite(r)
  PROVE  Base'
<1> DEFINE u == pend[r].user
<1>1. u \in Users /\ pend[r] \in Change /\ users[u] \in Row
  BY DEF Base, ReqOK, RowsOK, Placed, PatchWrite
<1>2. PICK p \in Change : users' = [users EXCEPT ![u] = Flushed(users[u], p)]
  <2>1. [pend[r] EXCEPT !.disabled = "keep"] \in Change
    BY <1>1 DEF Change
  <2>2. QED
    BY <1>1, <2>1 DEF PatchWrite
<1>3. users' \in [Users -> Row]
  BY <1>1, <1>2, FlushedRow DEF Base, RowsOK
<1>4. sessions' \in Seq(Session) /\ Len(sessions') = Len(sessions)
  BY RevokedSessions DEF Base, RowsOK, PatchWrite
<1>5. offs' \in [Users -> 0..MaxOffs]
  <2>1. CASE offs' = offs
    BY <2>1 DEF Base, RowsOK
  <2>2. CASE offs' # offs
    <3>1. offs[u] < MaxOffs /\ offs' = [offs EXCEPT ![u] = offs[u] + 1]
      BY <2>2 DEF PatchWrite
    <3>2. offs[u] + 1 \in 0..MaxOffs
      BY <1>1, <3>1, BoundsAssumption DEF Base, RowsOK
    <3>3. QED
      BY <3>1, <3>2 DEF Base, RowsOK
  <2>3. QED
    BY <2>1, <2>2
<1>6. raced' \in BOOLEAN /\ stale' \in [Requests -> BOOLEAN]
  BY DEF Base, ReqOK, RowsOK, PatchWrite
<1>7. RowsOK'
  BY <1>3, <1>4, <1>5, <1>6 DEF Base, RowsOK, PatchWrite
<1>8. ReqOK'
  BY <1>6, Empties DEF Base, ReqOK, PatchWrite
<1>9. /\ at'[r] = "idle" /\ ident' = ident
      /\ \A q \in Requests \ {r} : at'[q] = at[q] /\ pend'[q] = pend[q]
  BY DEF Base, ReqOK, PatchWrite
<1>10. Placed(r)'
  BY <1>9 DEF Placed
<1>11. QED
  BY <1>7, <1>8, <1>9, <1>10, OthersPlaced DEF Base

LEMMA InviteSteps ==
  ASSUME Base, NEW r \in Requests,
         (\E e \in Emails, role \in Roles : InviteRead(r, e, role)) \/ InviteWrite(r)
  PROVE  Base'
<1>1. ASSUME NEW e \in Emails, NEW role \in Roles, InviteRead(r, e, role) PROVE Base'
  <2>1. Writes(None, None, e, role) \in Change
    BY WritesChange
  <2>2. RowsOK'
    BY <1>1 DEF Base, RowsOK, InviteRead, rowVars
  <2>3. ReqOK'
    BY <1>1, <2>1 DEF Base, ReqOK, InviteRead
  <2>4. /\ at'[r] = "invite" /\ ident' = ident
        /\ \A q \in Requests \ {r} : at'[q] = at[q] /\ pend'[q] = pend[q]
    BY <1>1 DEF Base, ReqOK, InviteRead
  <2>5. Placed(r)'
    BY <2>4 DEF Placed
  <2>6. QED
    BY <2>2, <2>3, <2>4, <2>5, OthersPlaced DEF Base
<1>2. CASE InviteWrite(r)
  <2>1. pend[r] \in Change /\ Flushed(NoRow, pend[r]) \in Row
    BY FlushedRow, Empties DEF Base, ReqOK
  <2>2. users' \in [Users -> Row]
    BY <1>2, <2>1 DEF InviteWrite, Base, RowsOK
  <2>3. RowsOK'
    BY <1>2, <2>2 DEF Base, RowsOK, InviteWrite
  <2>4. Answer(r)
    BY <1>2 DEF InviteWrite
  <2>5. QED
    BY <2>3, <2>4, AnswerPlaced DEF Base
<1>3. QED
  BY <1>1, <1>2

(* What happens beside the requests.                                       *)
LEMMA OutsideSteps ==
  ASSUME Base,
         \/ \E i \in 1..Len(sessions) : EndSession(i)
         \/ \E c \in 1..Len(codes) : ExpireCode(c)
         \/ \E e \in Emails, s \in Subs : Recycle(e, s)
         \/ UNCHANGED vars
  PROVE  Base'
<1>1. UNCHANGED reqVars
  BY DEF EndSession, ExpireCode, Recycle, vars
<1>2. ReqOK' /\ \A r \in Requests : Placed(r)'
  BY <1>1 DEF Base, ReqOK, Placed, reqVars
<1>3. RowsOK'
  <2>1. CASE \E i \in 1..Len(sessions) : EndSession(i)
    <3>1. sessions' \in Seq(Session) /\ Len(sessions') = Len(sessions)
      BY <2>1, SessionEnded DEF Base, RowsOK, EndSession
    <3>2. QED
      BY <2>1, <3>1 DEF Base, RowsOK, EndSession
  <2>2. CASE \E c \in 1..Len(codes) : ExpireCode(c)
    <3>1. codes' \in Seq(Code) /\ Len(codes') = Len(codes)
      BY <2>2, CodeSpent DEF Base, RowsOK, ExpireCode
    <3>2. QED
      BY <2>2, <3>1 DEF Base, RowsOK, ExpireCode
  <2>3. CASE \E e \in Emails, s \in Subs : Recycle(e, s)
    BY <2>3 DEF Base, RowsOK, Recycle, rowVars
  <2>4. CASE UNCHANGED vars
    BY <2>4 DEF Base, RowsOK, vars, rowVars
  <2>5. QED
    BY <2>1, <2>2, <2>3, <2>4
<1>4. QED
  BY <1>2, <1>3 DEF Base

LEMMA NextBase == Base /\ [Next]_vars => Base'
<1> SUFFICES ASSUME Base, [Next]_vars PROVE Base'
  OBVIOUS
<1>1. ASSUME NEW r \in Requests, SignIn(r) PROVE Base'
  BY <1>1, ConsumeFlowStep, VerifiedStep, LookBySubStep, KnownAccountStep, ClaimStep,
     NewAccountStep, FlushStep, MintSessionStep, MintCodeStep, RedeemStep, CheckSteps DEF SignIn
<1>2. ASSUME NEW r \in Requests, Administer(r) PROVE Base'
  <2>1. CASE \E u \in Users, body \in Patches : PatchRead(r, u, body[1], body[2])
    BY <2>1, PatchReadStep, RequestsAssumption
  <2>2. QED
    BY <1>2, <2>1, CheckSteps, PatchWriteStep, InviteSteps DEF Administer
<1>3. QED
  BY <1>1, <1>2, FlowSteps, OutsideSteps DEF Next

(***************************************************************************)
(* Every row, session and code keeps its type, and a request that writes   *)
(* for an account holds one, whatever sign-ins, administrators, expiry and *)
(* the provider do between two of its statements.                          *)
(***************************************************************************)
THEOREM AccountsTypeCorrect == Spec => []TypeOK
<1>1. QED
  BY InitBase, NextBase, BaseIsTyped, PTL DEF Spec

-----------------------------------------------------------------------------
(* A login flow, and a desktop login code, has one holder at most: the     *)
(* request that consumed it, then the code or the session it was turned    *)
(* into.  As long as nobody consumed it, it has none.                      *)

FlowHeldOnce ==
    /\ \A f \in 1..MaxFlows : flows[f] # "used" =>
         /\ \A r \in Requests : flow[r] # f
         /\ \A c \in 1..Len(codes) : codes[c].flow # f
         /\ \A i \in 1..Len(sessions) : sessions[i].flow # f
    /\ \A r \in Requests : flow[r] # 0 =>
         /\ \A q \in Requests : flow[q] = flow[r] => q = r
         /\ \A c \in 1..Len(codes) : codes[c].flow # flow[r]
         /\ \A i \in 1..Len(sessions) : sessions[i].flow # flow[r]
    /\ \A c \in 1..Len(codes) :
         /\ codes[c].flow # 0
         /\ \A d \in 1..Len(codes) : codes[d].flow = codes[c].flow => d = c
         /\ \A i \in 1..Len(sessions) : sessions[i].flow # codes[c].flow
    /\ \A i, j \in 1..Len(sessions) :
         sessions[i].flow # 0 /\ sessions[i].flow = sessions[j].flow => i = j

CodeHeldOnce ==
    /\ \A c \in 1..Len(codes) : codes[c].open =>
         /\ \A r \in Requests : code[r] # c
         /\ \A i \in 1..Len(sessions) : sessions[i].code # c
    /\ \A r \in Requests : code[r] # 0 =>
         /\ code[r] <= Len(codes)
         /\ \A q \in Requests : code[q] = code[r] => q = r
         /\ \A i \in 1..Len(sessions) : sessions[i].code # code[r]
    /\ \A i \in 1..Len(sessions) : sessions[i].code # 0 =>
         /\ sessions[i].code <= Len(codes)
         /\ \A j \in 1..Len(sessions) : sessions[i].code = sessions[j].code => i = j

Unheld == {"idle", "admin", "count", "patch", "invite"}
Empty(r) == at[r] \in Unheld => flow[r] = 0 /\ code[r] = 0

Once == FlowHeldOnce /\ CodeHeldOnce /\ \A r \in Requests : Empty(r)

LEMMA InitOnce == Init => Once
<1> SUFFICES ASSUME Init PROVE Once
  OBVIOUS
<1>1. Len(codes) = 0 /\ Len(sessions) = 0 /\ 1..0 = {}
  BY DEF Init
<1>2. flow = [r \in Requests |-> 0] /\ code = [r \in Requests |-> 0]
  BY DEF Init
<1>3. QED
  BY <1>1, <1>2 DEF Once, FlowHeldOnce, CodeHeldOnce, Empty

(* Nobody takes anything.                                                  *)
LEMMA OnceKept ==
  ASSUME Once, Base,
         \A f \in 1..MaxFlows : flows'[f] # "used" => flows[f] # "used",
         Len(codes') = Len(codes),
         \A c \in 1..Len(codes) : /\ codes'[c].flow = codes[c].flow
                                  /\ codes'[c].open => codes[c].open,
         Len(sessions') = Len(sessions),
         \A i \in 1..Len(sessions) : /\ sessions'[i].flow = sessions[i].flow
                                     /\ sessions'[i].code = sessions[i].code,
         \A r \in Requests : /\ flow'[r] = flow[r] \/ flow'[r] = 0
                             /\ code'[r] = code[r] \/ code'[r] = 0
                             /\ Empty(r)'
  PROVE  Once'
<1>1. FlowHeldOnce'
  BY DEF Once, FlowHeldOnce
<1>2. CodeHeldOnce'
  BY SMTT(30) DEF Once, CodeHeldOnce
<1>3. QED
  BY <1>1, <1>2 DEF Once

(* A request that answers without having made anything.                    *)
LEMMA AnswerOnce ==
  ASSUME Once, Base, NEW r \in Requests, Answer(r),
         UNCHANGED <<flows, codes, sessions>>
  PROVE  Once'
<1>1. /\ at'[r] = "idle" /\ flow'[r] = 0 /\ code'[r] = 0
      /\ \A q \in Requests \ {r} : at'[q] = at[q] /\ flow'[q] = flow[q] /\ code'[q] = code[q]
  BY AnswerOK DEF Base
<1>2. \A q \in Requests : /\ flow'[q] = flow[q] \/ flow'[q] = 0
                          /\ code'[q] = code[q] \/ code'[q] = 0
                          /\ Empty(q)'
  BY <1>1 DEF Once, Empty
<1>3. QED
  BY <1>2, OnceKept

(* A request that goes on without having taken anything.                   *)
LEMMA GoesOnOnce ==
  ASSUME Once, Base, NEW r \in Requests,
         \A q \in Requests \ {r} : at'[q] = at[q],
         at[r] \in Unheld \/ at'[r] \notin Unheld,
         UNCHANGED <<flows, codes, flow, code>>,
         Len(sessions') = Len(sessions),
         \A i \in 1..Len(sessions) : /\ sessions'[i].flow = sessions[i].flow
                                     /\ sessions'[i].code = sessions[i].code
  PROVE  Once'
<1>1. \A q \in Requests : Empty(q)'
  BY DEF Once, Empty
<1>2. QED
  BY <1>1, OnceKept

LEMMA ConsumeFlowOnce ==
  ASSUME Once, Base, NEW r \in Requests, NEW f \in 1..MaxFlows, ConsumeFlow(r, f)
  PROVE  Once'
<1>1. /\ flows[f] # "used" /\ f # 0
      /\ \A g \in 1..MaxFlows : flows'[g] # "used" => g # f /\ flows[g] # "used"
  BY BoundsAssumption DEF Base, RowsOK, ConsumeFlow
<1>2. UNCHANGED <<codes, sessions, code>>
  BY DEF ConsumeFlow
<1>3. /\ flow'[r] = f /\ flow[r] = 0 /\ code[r] = 0 /\ at'[r] \notin Unheld
      /\ \A q \in Requests \ {r} : flow'[q] = flow[q] /\ at'[q] = at[q]
  BY DEF Base, ReqOK, Once, Empty, Unheld, ConsumeFlow
<1>4. FlowHeldOnce'
  BY SMTT(30), <1>1, <1>2, <1>3 DEF Once, FlowHeldOnce
<1>5. CodeHeldOnce'
  BY <1>2 DEF Once, CodeHeldOnce
<1>6. QED
  BY <1>2, <1>3, <1>4, <1>5 DEF Once, Empty

LEMMA RedeemOnce ==
  ASSUME Once, Base, NEW r \in Requests, NEW c \in 1..Len(codes), RedeemCode(r, c)
  PROVE  Once'
<1>1. /\ codes[c].open /\ Len(codes') = Len(codes) /\ ~codes'[c].open
      /\ \A d \in 1..Len(codes) : /\ codes'[d].flow = codes[d].flow
                                  /\ d # c => codes'[d].open = codes[d].open
  BY CodeSpent DEF Base, RowsOK, RedeemCode
<1>2. UNCHANGED <<flows, sessions, flow>>
  BY DEF RedeemCode
<1>3. /\ code'[r] = c /\ flow[r] = 0 /\ code[r] = 0 /\ at'[r] \notin Unheld
      /\ \A q \in Requests \ {r} : code'[q] = code[q] /\ at'[q] = at[q]
  BY DEF Base, ReqOK, Once, Empty, Unheld, RedeemCode
<1>4. Len(codes) \in Nat
  BY LenProperties DEF Base, RowsOK
<1>5. FlowHeldOnce'
  BY <1>1, <1>2 DEF Once, FlowHeldOnce
<1>6. CodeHeldOnce'
  <2>1. \A q \in Requests : code[q] # c
    BY <1>1 DEF Once, CodeHeldOnce
  <2>2. \A i \in 1..Len(sessions) : sessions[i].code # c
    BY <1>1 DEF Once, CodeHeldOnce
  <2>3. \A d \in 1..Len(codes)' : codes'[d].open =>
          /\ \A q \in Requests : code'[q] # d
          /\ \A i \in 1..Len(sessions)' : sessions'[i].code # d
    BY <1>1, <1>2, <1>3 DEF Once, CodeHeldOnce
  <2>4. \A p \in Requests : code'[p] # 0 =>
          /\ code'[p] <= Len(codes)'
          /\ \A q \in Requests : code'[q] = code'[p] => q = p
          /\ \A i \in 1..Len(sessions)' : sessions'[i].code # code'[p]
    BY <1>1, <1>2, <1>3, <1>4, <2>1, <2>2 DEF Once, CodeHeldOnce
  <2>5. \A i \in 1..Len(sessions)' : sessions'[i].code # 0 =>
          /\ sessions'[i].code <= Len(codes)'
          /\ \A j \in 1..Len(sessions)' : sessions'[i].code = sessions'[j].code => i = j
    BY <1>1, <1>2 DEF Once, CodeHeldOnce
  <2>6. QED
    BY <2>3, <2>4, <2>5 DEF CodeHeldOnce
<1>7. QED
  BY <1>2, <1>3, <1>5, <1>6 DEF Once, Empty

(* What the request holds goes to the session, to the code.                *)
LEMMA MintSessionOnce ==
  ASSUME Once, Base, NEW r \in Requests, MintSession(r)
  PROVE  Once'
<1> DEFINE x == [user |-> pend[r].user, sub |-> ident[r].sub, flow |-> flow[r], code |-> code[r],
                 live |-> TRUE, since |-> offs[pend[r].user], seen |-> seen[r]]
           n == Len(sessions) + 1
<1>1. sessions' = Append(sessions, x) /\ Answer(r) /\ UNCHANGED <<flows, codes>>
  BY DEF MintSession
<1>2. pend[r].user \in Users /\ ident[r].sub \in Subs
  BY DEF Base, Placed, MintSession
<1>3. x \in Session /\ x.flow = flow[r] /\ x.code = code[r]
  BY <1>2 DEF Base, ReqOK, RowsOK, Session
<1> HIDE DEF x
<1>4. /\ Len(sessions) \in Nat /\ Len(sessions') = n
      /\ \A i \in 1..Len(sessions) : sessions'[i] = sessions[i]
      /\ sessions'[n] = x
  BY <1>1, <1>3, AppendProperties, LenProperties DEF Base, RowsOK
<1>5. \A i \in 1..n : i # n => i \in 1..Len(sessions)
  BY <1>4
<1>6. /\ at'[r] = "idle" /\ flow'[r] = 0 /\ code'[r] = 0
      /\ \A q \in Requests \ {r} : at'[q] = at[q] /\ flow'[q] = flow[q] /\ code'[q] = code[q]
  BY <1>1, AnswerOK DEF Base
<1> HIDE DEF n
<1>7. FlowHeldOnce'
  BY SMTT(30), <1>1, <1>3, <1>4, <1>5, <1>6 DEF Once, FlowHeldOnce
<1>8. CodeHeldOnce'
  BY <1>1, <1>3, <1>4, <1>5, <1>6 DEF Once, CodeHeldOnce
<1>9. QED
  BY <1>6, <1>7, <1>8 DEF Once, Empty

LEMMA MintCodeOnce ==
  ASSUME Once, Base, NEW r \in Requests, MintCode(r)
  PROVE  Once'
<1> DEFINE x == [user |-> pend[r].user, sub |-> ident[r].sub, flow |-> flow[r], open |-> TRUE]
           n == Len(codes) + 1
<1>1. codes' = Append(codes, x) /\ Answer(r) /\ UNCHANGED <<flows, sessions>>
  BY DEF MintCode
<1>2. pend[r].user \in Users /\ ident[r].sub \in Subs
  BY DEF Base, Placed, MintCode
<1>3. flow[r] \in 1..MaxFlows
  BY RequestsAssumption DEF MintCode
<1>4. x \in Code /\ x.flow = flow[r] /\ flow[r] # 0
  BY <1>2, <1>3 DEF Code
<1> HIDE DEF x
<1>5. /\ Len(codes) \in Nat /\ Len(codes') = n
      /\ \A c \in 1..Len(codes) : codes'[c] = codes[c]
      /\ codes'[n] = x
  BY <1>1, <1>4, AppendProperties, LenProperties DEF Base, RowsOK
<1>6. /\ \A c \in 1..n : c # n => c \in 1..Len(codes)
      /\ n > Len(codes) /\ n # 0
      /\ \A m \in Nat : m <= Len(codes) => m # n /\ m <= n
  BY <1>5
<1>7. /\ at'[r] = "idle" /\ flow'[r] = 0 /\ code'[r] = 0
      /\ \A q \in Requests \ {r} : at'[q] = at[q] /\ flow'[q] = flow[q] /\ code'[q] = code[q]
  BY <1>1, AnswerOK DEF Base
<1>8. /\ \A q \in Requests : code[q] \in Nat
      /\ \A i \in 1..Len(sessions) : sessions[i].code \in Nat
  <2>1. \A i \in 1..Len(sessions) : sessions[i] \in Session
    BY ElementOfSeq DEF Base, RowsOK
  <2>2. QED
    BY <2>1, BoundsAssumption DEF Base, ReqOK, Session
<1> HIDE DEF n
<1>9. FlowHeldOnce'
  BY <1>1, <1>4, <1>5, <1>6, <1>7 DEF Once, FlowHeldOnce
<1>10. CodeHeldOnce'
  BY <1>1, <1>5, <1>6, <1>7, <1>8 DEF Once, CodeHeldOnce
<1>11. QED
  BY <1>7, <1>9, <1>10 DEF Once, Empty

LEMMA SignInOnce ==
  ASSUME Once, Base, NEW r \in Requests, SignIn(r)
  PROVE  Once'
<1>1. CASE \E e \in Emails : Verified(r, e)
  <2>1. /\ UNCHANGED <<flows, codes, sessions, flow, code>> /\ at'[r] \notin Unheld
        /\ \A q \in Requests \ {r} : at'[q] = at[q]
    BY <1>1 DEF Base, ReqOK, Unheld, Verified, rowVars
  <2>2. QED
    BY <2>1, GoesOnOnce
<1>2. CASE NotVerified(r)
  BY <1>2, AnswerOnce DEF NotVerified, rowVars
<1>3. CASE LookBySub(r)
  <2>1. /\ UNCHANGED <<flows, codes, sessions, flow, code>> /\ at'[r] \notin Unheld
        /\ \A q \in Requests \ {r} : at'[q] = at[q]
    BY <1>3 DEF Base, ReqOK, Unheld, LookBySub, rowVars
  <2>2. QED
    BY <2>1, GoesOnOnce
<1>4. CASE KnownAccount(r) \/ (\E u \in Users : ClaimInvitation(r, u)) \/ NewAccount(r)
  <2>1. UNCHANGED <<flows, codes, sessions>>
    BY <1>4 DEF KnownAccount, ClaimInvitation, NewAccount, rowVars
  <2>2. CASE Answer(r)
    BY <2>1, <2>2, AnswerOnce
  <2>3. CASE ~Answer(r)
    <3>1. /\ UNCHANGED <<flow, code>> /\ at'[r] \notin Unheld
          /\ \A q \in Requests \ {r} : at'[q] = at[q]
      BY <1>4, <2>3 DEF Base, ReqOK, Unheld, KnownAccount, ClaimInvitation, NewAccount, SignedIn
    <3>2. QED
      BY <2>1, <3>1, GoesOnOnce
  <2>4. QED
    BY <2>2, <2>3
<1>5. CASE Flush(r)
  <2>1. UNCHANGED <<flows, codes, sessions>>
    BY <1>5 DEF Flush
  <2>2. CASE Answer(r)
    BY <2>1, <2>2, AnswerOnce
  <2>3. CASE ~Answer(r)
    <3>1. /\ UNCHANGED <<flow, code>> /\ at'[r] \notin Unheld
          /\ \A q \in Requests \ {r} : at'[q] = at[q]
      BY <1>5, <2>3 DEF Base, ReqOK, Unheld, Flush
    <3>2. QED
      BY <2>1, <3>1, GoesOnOnce
  <2>4. QED
    BY <2>2, <2>3
<1>6. CASE CheckAccount(r)
  <2>1. UNCHANGED <<flows, codes, sessions>>
    BY <1>6 DEF CheckAccount, rowVars
  <2>2. CASE Answer(r)
    BY <2>1, <2>2, AnswerOnce
  <2>3. CASE ~Answer(r)
    <3>1. /\ UNCHANGED <<flow, code>> /\ at'[r] \notin Unheld
          /\ \A q \in Requests \ {r} : at'[q] = at[q]
      BY <1>6, <2>3 DEF Base, ReqOK, Unheld, CheckAccount
    <3>2. QED
      BY <2>1, <3>1, GoesOnOnce
  <2>4. QED
    BY <2>2, <2>3
<1>7. QED
  BY <1>1, <1>2, <1>3, <1>4, <1>5, <1>6, ConsumeFlowOnce, MintSessionOnce, MintCodeOnce, RedeemOnce
  DEF SignIn

LEMMA AdministerOnce ==
  ASSUME Once, Base, NEW r \in Requests, Administer(r)
  PROVE  Once'
<1>1. CASE \/ Authorize(r) \/ \E u \in Users, body \in Patches : PatchRead(r, u, body[1], body[2])
           \/ \E e \in Emails, role \in Roles : InviteRead(r, e, role)
  <2>1. /\ UNCHANGED <<flows, codes, sessions, flow, code>> /\ at[r] \in Unheld
        /\ \A q \in Requests \ {r} : at'[q] = at[q]
    BY <1>1 DEF Base, ReqOK, Unheld, Authorize, PatchRead, InviteRead, rowVars
  <2>2. QED
    BY <2>1, GoesOnOnce
<1>2. CASE CountAdmins(r)
  <2>1. UNCHANGED <<flows, codes, sessions>>
    BY <1>2 DEF CountAdmins, rowVars
  <2>2. CASE Answer(r)
    BY <2>1, <2>2, AnswerOnce
  <2>3. CASE ~Answer(r)
    <3>1. /\ UNCHANGED <<flow, code>> /\ at[r] \in Unheld
          /\ \A q \in Requests \ {r} : at'[q] = at[q]
      BY <1>2, <2>3 DEF Base, ReqOK, Unheld, CountAdmins
    <3>2. QED
      BY <2>1, <3>1, GoesOnOnce
  <2>4. QED
    BY <2>2, <2>3
<1>3. CASE PatchWrite(r)
  <2>1. UNCHANGED <<flows, codes, flow, code>> /\ at[r] \in Unheld
        /\ \A q \in Requests \ {r} : at'[q] = at[q]
    BY <1>3 DEF Base, ReqOK, Unheld, PatchWrite
  <2>2. /\ Len(sessions') = Len(sessions)
        /\ \A i \in 1..Len(sessions) : /\ sessions'[i].flow = sessions[i].flow
                                       /\ sessions'[i].code = sessions[i].code
    BY <1>3, RevokedSessions DEF Base, RowsOK, PatchWrite
  <2>3. QED
    BY <2>1, <2>2, GoesOnOnce
<1>4. CASE InviteWrite(r)
  BY <1>4, AnswerOnce DEF InviteWrite
<1>5. QED
  BY <1>1, <1>2, <1>3, <1>4 DEF Administer

(***************************************************************************)
(* A login flow and a desktop login code leads to one session at most, for *)
(* any number of callbacks that arrive together: the one UPDATE that finds *)
(* it unused hands it on, and nothing is handed on twice.                  *)
(***************************************************************************)
THEOREM EachUsedOnce == Spec => []SingleUse
<1>1. Base /\ Once /\ [Next]_vars => Once'
  <2> SUFFICES ASSUME Base, Once, [Next]_vars PROVE Once'
    OBVIOUS
  <2>1. CASE \E f \in 1..MaxFlows : StartFlow(f) \/ ExpireFlow(f)
    <3>1. /\ \A f \in 1..MaxFlows : flows'[f] # "used" => flows[f] # "used"
          /\ UNCHANGED <<codes, sessions, at, flow, code>>
      BY <2>1 DEF Base, RowsOK, StartFlow, ExpireFlow, reqVars
    <3>2. QED
      BY <3>1, OnceKept DEF Once, Empty
  <2>2. CASE \E i \in 1..Len(sessions) : EndSession(i)
    <3>1. /\ Len(sessions') = Len(sessions)
          /\ \A i \in 1..Len(sessions) : /\ sessions'[i].flow = sessions[i].flow
                                         /\ sessions'[i].code = sessions[i].code
      BY <2>2, SessionEnded DEF Base, RowsOK, EndSession
    <3>2. UNCHANGED <<flows, codes, at, flow, code>>
      BY <2>2 DEF EndSession, reqVars
    <3>3. QED
      BY <3>1, <3>2, OnceKept DEF Once, Empty
  <2>3. CASE \E c \in 1..Len(codes) : ExpireCode(c)
    <3>1. /\ Len(codes') = Len(codes)
          /\ \A c \in 1..Len(codes) : /\ codes'[c].flow = codes[c].flow
                                      /\ codes'[c].open => codes[c].open
      BY <2>3, CodeSpent DEF Base, RowsOK, ExpireCode
    <3>2. UNCHANGED <<flows, sessions, at, flow, code>>
      BY <2>3 DEF ExpireCode, reqVars
    <3>3. QED
      BY <3>1, <3>2, OnceKept DEF Once, Empty
  <2>4. CASE (\E e \in Emails, s \in Subs : Recycle(e, s)) \/ UNCHANGED vars
    <3>1. UNCHANGED <<flows, codes, sessions, at, flow, code>>
      BY <2>4 DEF Recycle, rowVars, reqVars, vars
    <3>2. QED
      BY <3>1, OnceKept DEF Once, Empty
  <2>5. QED
    BY <2>1, <2>2, <2>3, <2>4, SignInOnce, AdministerOnce DEF Next
<1>2. Base /\ Once => SingleUse
  <2> SUFFICES ASSUME Base, Once PROVE SingleUse
    OBVIOUS
  <2>1. ASSUME NEW f \in 1..MaxFlows, NEW x \in FromFlow(f), NEW y \in FromFlow(f) PROVE x = y
    <3>1. f # 0
      BY BoundsAssumption
    <3>2. QED
      BY SMTT(30), <2>1, <3>1 DEF FromFlow, Once, FlowHeldOnce
  <2>2. ASSUME NEW c \in 1..Len(codes), NEW x \in FromCode(c), NEW y \in FromCode(c) PROVE x = y
    <3>1. c # 0
      BY LenProperties DEF Base, RowsOK
    <3>2. QED
      BY <2>2, <3>1 DEF FromCode, Once, CodeHeldOnce
  <2>3. QED
    BY <2>1, <2>2 DEF SingleUse
<1>3. QED
  BY InitBase, InitOnce, NextBase, <1>1, <1>2, PTL DEF Spec

-----------------------------------------------------------------------------
(* Sign-in never moves a row to another person.                            *)

Holds(u, s) == Exists(u) /\ users[u].sub = s

(* What a request in progress may rely on.  A claim of an invitation       *)
(* (the last case of a flush) is made for the one whom the provider names  *)
(* for the address in the row; when another request claimed it meanwhile,  *)
(* it was for the same one, as the address was in use all the time.        *)
Honest(r) ==
    /\ at[r] \in {"idle", "provider", "by_sub"} => mine[r].user = None
    /\ at[r] \in {"by_sub", "by_email", "flush"} =>
         ident[r].email \in Emails /\ ident[r].sub = owner[ident[r].email]
    /\ at[r] = "by_email" /\ mine[r].user # None => Holds(mine[r].user, ident[r].sub)
    /\ at[r] = "flush" /\ pend[r].user = None =>
         pend[r].sub = ident[r].sub /\ pend[r].email = ident[r].email
    /\ at[r] = "flush" /\ pend[r].user # None =>
         \/ pend[r].sub = None /\ Holds(pend[r].user, ident[r].sub)
         \/ pend[r].sub = ident[r].sub /\ pend[r].email = None /\ Holds(pend[r].user, ident[r].sub)
         \/ /\ pend[r].sub = ident[r].sub /\ pend[r].email = None
            /\ Holds(pend[r].user, None) /\ users[pend[r].user].email = ident[r].email
    /\ at[r] \in {"mint", "account"} => Holds(pend[r].user, ident[r].sub)
    /\ at[r] \in {"count", "patch"} =>
         Exists(pend[r].user) /\ pend[r].sub = None /\ pend[r].email = None
    /\ at[r] = "invite" => pend[r].sub = None

Made ==
    /\ \A i \in 1..Len(sessions) : Holds(sessions[i].user, sessions[i].sub)
    /\ \A c \in 1..Len(codes) : Holds(codes[c].user, codes[c].sub)

Person == Made /\ \A r \in Requests : Honest(r)

(* No row is lost; a sub is never changed, and set for the owner of the    *)
(* address.                                                                *)
RowsKept ==
    \A u \in Users : Exists(u) =>
        /\ Exists(u)'
        /\ \/ /\ users'[u].sub = users[u].sub
              /\ users[u].sub = None => users'[u].email = users[u].email
           \/ users[u].sub = None /\ users'[u].sub = owner[users[u].email]

LEMMA InitPerson == Init => Person
<1> SUFFICES ASSUME Init PROVE Person
  OBVIOUS
<1>1. Len(codes) = 0 /\ Len(sessions) = 0 /\ 1..0 = {}
  BY DEF Init
<1>2. \A r \in Requests : at[r] = "idle" /\ mine[r] = NotFound
  BY DEF Init
<1>3. Made
  BY <1>1 DEF Made
<1>4. \A r \in Requests : Honest(r)
  BY <1>2 DEF Honest, NotFound
<1>5. QED
  BY <1>3, <1>4 DEF Person

LEMMA HonestKept ==
  ASSUME Base, NEW q \in Requests, Honest(q), RowsKept, owner' = owner,
         at'[q] = at[q], mine'[q] = mine[q], ident'[q] = ident[q], pend'[q] = pend[q]
  PROVE  Honest(q)'
<1>1. /\ at[q] \in {"by_sub", "by_email", "flush", "mint", "account"} =>
           ident[q].sub \in Subs /\ ident[q].sub # None
      /\ mine[q].user \in Users \cup {None} /\ pend[q].user \in Users \cup {None}
      /\ at[q] \in {"mint", "account", "count", "patch"} => pend[q].user \in Users
  BY NoneAssumption DEF Base, ReqOK, Placed, Found, Change
<1>2. \A u \in Users : users[u].email # None /\ users[u].sub # None =>
         users'[u].email # None /\ users'[u].sub = users[u].sub
  BY DEF RowsKept, Exists
<1>3. \A u \in Users : users[u].email # None /\ users[u].sub = None =>
         /\ users'[u].email # None
         /\ \/ users'[u].sub = None /\ users'[u].email = users[u].email
            \/ users'[u].sub = owner[users[u].email]
  BY DEF RowsKept, Exists
<1>4. at[q] = "by_email" /\ mine[q].user # None =>
         users'[mine[q].user].email # None /\ users'[mine[q].user].sub = ident[q].sub
  BY <1>1, <1>2 DEF Honest, Holds, Exists
<1>5. at[q] \in {"mint", "account"} =>
         users'[pend[q].user].email # None /\ users'[pend[q].user].sub = ident[q].sub
  BY <1>1, <1>2 DEF Honest, Holds, Exists
<1>6. at[q] \in {"count", "patch"} => users'[pend[q].user].email # None
  BY <1>1, <1>2, <1>3 DEF Honest, Exists
<1>7. at[q] = "flush" /\ pend[q].user # None =>
         /\ users'[pend[q].user].email # None
         /\ \/ pend[q].sub = None /\ users'[pend[q].user].sub = ident[q].sub
            \/ /\ pend[q].sub = ident[q].sub /\ pend[q].email = None
               /\ users'[pend[q].user].sub = ident[q].sub
            \/ /\ pend[q].sub = ident[q].sub /\ pend[q].email = None
               /\ users'[pend[q].user].sub = None /\ users'[pend[q].user].email = ident[q].email
  <2> SUFFICES ASSUME at[q] = "flush", pend[q].user # None
               PROVE  /\ users'[pend[q].user].email # None
                      /\ \/ pend[q].sub = None /\ users'[pend[q].user].sub = ident[q].sub
                         \/ /\ pend[q].sub = ident[q].sub /\ pend[q].email = None
                            /\ users'[pend[q].user].sub = ident[q].sub
                         \/ /\ pend[q].sub = ident[q].sub /\ pend[q].email = None
                            /\ users'[pend[q].user].sub = None
                            /\ users'[pend[q].user].email = ident[q].email
    OBVIOUS
  <2>1. pend[q].user \in Users /\ ident[q].sub # None /\ ident[q].sub = owner[ident[q].email]
    BY <1>1 DEF Honest
  <2>2. CASE users[pend[q].user].sub # None
    BY <1>2, <2>1, <2>2 DEF Honest, Holds, Exists
  <2>3. CASE users[pend[q].user].sub = None
    BY <1>3, <2>1, <2>3 DEF Honest, Holds, Exists
  <2>4. QED
    BY <2>2, <2>3
<1>8. QED
  BY <1>4, <1>5, <1>6, <1>7 DEF Honest, Holds, Exists
SameSessions ==
    /\ Len(sessions') = Len(sessions)
    /\ \A i \in 1..Len(sessions) :
         sessions'[i].user = sessions[i].user /\ sessions'[i].sub = sessions[i].sub

SameCodes ==
    /\ Len(codes') = Len(codes)
    /\ \A c \in 1..Len(codes) : codes'[c].user = codes[c].user /\ codes'[c].sub = codes[c].sub

LEMMA ElementsTyped ==
  ASSUME Base
  PROVE  /\ \A i \in 1..Len(sessions) : sessions[i].user \in Users /\ sessions[i].sub \in Subs
         /\ \A c \in 1..Len(codes) : codes[c].user \in Users /\ codes[c].sub \in Subs
<1>1. /\ \A i \in 1..Len(sessions) : sessions[i] \in Session
      /\ \A c \in 1..Len(codes) : codes[c] \in Code
  BY ElementOfSeq DEF Base, RowsOK
<1>2. QED
  BY <1>1 DEF Session, Code

LEMMA MadeKept ==
  ASSUME Base, Made, RowsKept, SameSessions, SameCodes
  PROVE  Made'
<1>1. \A u \in Users, s \in Subs : users[u].email # None /\ users[u].sub = s =>
         users'[u].email # None /\ users'[u].sub = s
  BY NoneAssumption DEF RowsKept, Exists
<1>2. \A i \in 1..Len(sessions) :
         users'[sessions[i].user].email # None /\ users'[sessions[i].user].sub = sessions[i].sub
  BY <1>1, ElementsTyped DEF Made, Holds, Exists
<1>3. \A c \in 1..Len(codes) :
         users'[codes[c].user].email # None /\ users'[codes[c].user].sub = codes[c].sub
  BY <1>1, ElementsTyped DEF Made, Holds, Exists
<1>4. QED
  BY <1>2, <1>3 DEF Made, Holds, Exists, SameSessions, SameCodes

LEMMA OthersHonest ==
  ASSUME Base, Person, NEW r \in Requests, RowsKept, owner' = owner,
         \A q \in Requests \ {r} :
            at'[q] = at[q] /\ mine'[q] = mine[q] /\ ident'[q] = ident[q] /\ pend'[q] = pend[q],
         Honest(r)'
  PROVE  \A q \in Requests : Honest(q)'
BY HonestKept DEF Person

LEMMA SameRows ==
  ASSUME users' = users
  PROVE  RowsKept
BY DEF RowsKept, Exists

LEMMA AnswerHonest ==
  ASSUME Base, Person, NEW r \in Requests, RowsKept, owner' = owner, Answer(r)
  PROVE  \A q \in Requests : Honest(q)'
<1>1. at'[r] = "idle" /\ mine'[r] = NotFound
      /\ \A q \in Requests \ {r} :
            at'[q] = at[q] /\ mine'[q] = mine[q] /\ ident'[q] = ident[q] /\ pend'[q] = pend[q]
  BY DEF Base, ReqOK, Answer
<1>2. Honest(r)'
  BY <1>1 DEF Honest, NotFound
<1>3. QED
  BY <1>1, <1>2, OthersHonest

(* Steps of a sign-in that write no row.                                   *)
LEMMA SignInPerson ==
  ASSUME Base, Person, NEW r \in Requests,
         \/ \E f \in 1..MaxFlows : ConsumeFlow(r, f)
         \/ \E e \in Emails : Verified(r, e)
         \/ NotVerified(r) \/ LookBySub(r)
         \/ KnownAccount(r) \/ (\E u \in Users : ClaimInvitation(r, u)) \/ NewAccount(r)
         \/ CheckAccount(r)
  PROVE  Person'
<1>1. users' = users /\ sessions' = sessions /\ codes' = codes /\ owner' = owner
  BY DEF ConsumeFlow, Verified, NotVerified, LookBySub, KnownAccount, ClaimInvitation,
         NewAccount, CheckAccount, rowVars
<1>2. RowsKept /\ Made'
  BY <1>1, SameRows, MadeKept DEF SameSessions, SameCodes, Person
<1>3. CASE Answer(r)
  BY <1>1, <1>2, <1>3, AnswerHonest DEF Person
<1>4. CASE ~Answer(r)
  <2>1. Honest(r) /\ pend[r] \in Change /\ mine[r].user \in Users \cup {None}
    BY IdentTyped DEF Person, Base, ReqOK
  <2>2. Honest(r)' /\ \A q \in Requests \ {r} :
            at'[q] = at[q] /\ mine'[q] = mine[q] /\ ident'[q] = ident[q] /\ pend'[q] = pend[q]
    <3>1. CASE \E f \in 1..MaxFlows : ConsumeFlow(r, f)
      <4>1. at[r] = "idle" /\ at'[r] = "provider" /\ mine' = mine /\ ident' = ident /\ pend' = pend
            /\ \A q \in Requests \ {r} : at'[q] = at[q]
        BY <3>1 DEF Base, ReqOK, ConsumeFlow
      <4>2. QED
        BY <2>1, <4>1 DEF Honest
    <3>2. CASE \E e \in Emails : Verified(r, e)
      <4>1. PICK e \in Emails : Verified(r, e)
        BY <3>2
      <4>2. /\ at[r] = "provider" /\ at'[r] = "by_sub" /\ mine' = mine /\ pend' = pend
            /\ ident'[r].email = e /\ ident'[r].sub = owner[e]
            /\ \A q \in Requests \ {r} : at'[q] = at[q] /\ ident'[q] = ident[q]
        BY <4>1 DEF Base, ReqOK, Verified
      <4>3. QED
        BY <1>1, <2>1, <4>2 DEF Honest
    <3>3. CASE LookBySub(r)
      <4>1. /\ at[r] = "by_sub" /\ at'[r] = "by_email" /\ ident' = ident /\ pend' = pend
            /\ \A q \in Requests \ {r} : at'[q] = at[q]
        BY <3>3 DEF Base, ReqOK, LookBySub
      <4>2. /\ mine'[r].user # None => Holds(mine'[r].user, ident[r].sub)
            /\ \A q \in Requests \ {r} : mine'[q] = mine[q]
        BY <2>1, <3>3 DEF Base, ReqOK, LookBySub, Honest, Holds
      <4>3. QED
        BY <1>1, <2>1, <4>1, <4>2 DEF Honest, Holds, Exists
    <3>4. CASE KnownAccount(r)
      <4>1. PICK e, ro : SignedIn(r, Writes(mine[r].user, None, e, ro))
        BY <1>4, <3>4 DEF KnownAccount
      <4>2. ident' = ident /\ at[r] = "by_email" /\ mine[r].user # None
        BY <1>4, <3>4 DEF KnownAccount
      <4>3. /\ at'[r] = "flush" /\ pend'[r].user = mine[r].user /\ pend'[r].sub = None
            /\ \A q \in Requests \ {r} : at'[q] = at[q] /\ mine'[q] = mine[q] /\ pend'[q] = pend[q]
        BY <4>1 DEF Base, ReqOK, SignedIn, Writes
      <4>4. QED
        BY <1>1, <2>1, <4>2, <4>3 DEF Honest, Holds, Exists
    <3>5. CASE \E u \in Users : ClaimInvitation(r, u)
      <4>1. PICK u \in Users : ClaimInvitation(r, u)
        BY <3>5
      <4>2. PICK ro : SignedIn(r, Writes(u, ident[r].sub, None, ro))
        BY <1>4, <4>1 DEF ClaimInvitation
      <4>3. /\ ident' = ident /\ at[r] = "by_email" /\ Exists(u)
            /\ users[u].email = ident[r].email /\ users[u].sub = None /\ u # None
        BY <1>4, <4>1, NoneAssumption DEF ClaimInvitation
      <4>4. /\ at'[r] = "flush" /\ pend'[r].user = u /\ pend'[r].sub = ident[r].sub
            /\ pend'[r].email = None
            /\ \A q \in Requests \ {r} : at'[q] = at[q] /\ mine'[q] = mine[q] /\ pend'[q] = pend[q]
        BY <4>2 DEF Base, ReqOK, SignedIn, Writes
      <4>5. QED
        BY <1>1, <2>1, <4>3, <4>4 DEF Honest, Holds, Exists
    <3>6. CASE NewAccount(r)
      <4>1. PICK ro : SignedIn(r, Writes(None, ident[r].sub, ident[r].email, ro))
        BY <1>4, <3>6 DEF NewAccount
      <4>2. ident' = ident /\ at[r] = "by_email"
        BY <1>4, <3>6 DEF NewAccount
      <4>3. /\ at'[r] = "flush" /\ pend'[r].user = None /\ pend'[r].sub = ident[r].sub
            /\ pend'[r].email = ident[r].email
            /\ \A q \in Requests \ {r} : at'[q] = at[q] /\ mine'[q] = mine[q] /\ pend'[q] = pend[q]
        BY <4>1 DEF Base, ReqOK, SignedIn, Writes
      <4>4. QED
        BY <1>1, <2>1, <4>2, <4>3 DEF Honest, Holds, Exists
    <3>7. CASE CheckAccount(r)
      <4>1. at[r] = "account" /\ at'[r] = "mint" /\ mine' = mine /\ ident' = ident /\ pend' = pend
            /\ \A q \in Requests \ {r} : at'[q] = at[q]
        BY <1>4, <3>7 DEF Base, ReqOK, CheckAccount
      <4>2. QED
        BY <1>1, <2>1, <4>1 DEF Honest, Holds, Exists
    <3>8. QED
      BY <1>4, <3>1, <3>2, <3>3, <3>4, <3>5, <3>6, <3>7 DEF NotVerified
  <2>3. QED
    BY <1>1, <1>2, <2>2, OthersHonest DEF Person
<1>5. QED
  BY <1>3, <1>4

(* The one place where a sub is written.                                   *)
LEMMA FlushPerson ==
  ASSUME Base, Person, NEW r \in Requests, Flush(r)
  PROVE  Person'
<1>1. PICK u \in Users :
         /\ IF pend[r].user = None THEN ~Exists(u) ELSE u = pend[r].user
         /\ IF Conflict(u, Flushed(users[u], pend[r]))
            THEN UNCHANGED users /\ Answer(r)
            ELSE /\ users' = [users EXCEPT ![u] = Flushed(users[u], pend[r])]
                 /\ pend' = [pend EXCEPT ![r] = [NoChange EXCEPT !.user = u]]
                 /\ ident' = [ident EXCEPT ![r].email = None]
                 /\ at' = [at EXCEPT ![r] = "mint"]
                 /\ UNCHANGED <<flow, code, mine, seen, stale>>
  BY DEF Flush
<1>2. sessions' = sessions /\ codes' = codes /\ owner' = owner /\ at[r] = "flush"
  BY DEF Flush
<1>3. CASE users' = users /\ Answer(r)
  BY <1>2, <1>3, SameRows, MadeKept, AnswerHonest DEF Person, SameSessions, SameCodes
<1>4. CASE ~(users' = users /\ Answer(r))
  <2> DEFINE row == Flushed(users[u], pend[r])
  <2>1. /\ users' = [users EXCEPT ![u] = row]
        /\ pend' = [pend EXCEPT ![r] = [user |-> u, sub |-> None, email |-> None,
                                        role |-> "keep", disabled |-> "keep"]]
        /\ ident' = [ident EXCEPT ![r].email = None]
        /\ at' = [at EXCEPT ![r] = "mint"] /\ mine' = mine
    BY <1>1, <1>4 DEF NoChange
  <2>2. /\ row.sub = IF pend[r].sub = None THEN users[u].sub ELSE pend[r].sub
        /\ row.email = IF pend[r].email = None THEN users[u].email ELSE pend[r].email
    BY FlushedRow DEF Base, ReqOK, RowsOK
  <2>3. /\ users'[u].sub = row.sub /\ users'[u].email = row.email
        /\ \A v \in Users \ {u} : users'[v] = users[v]
    BY <2>1 DEF Base, RowsOK
  <2> HIDE DEF row
  <2>4. /\ Honest(r) /\ ident[r].sub \in Subs /\ ident[r].sub # None
        /\ ident[r].email # None /\ ident[r].sub = owner[ident[r].email]
    BY <1>2, NoneAssumption DEF Person, Base, Placed, Honest
  <2>5. /\ users'[u].email # None /\ users'[u].sub = ident[r].sub
        /\ users[u].email # None =>
             \/ users[u].sub = ident[r].sub
             \/ users[u].sub = None /\ ident[r].email = users[u].email
    BY <1>1, <1>2, <2>2, <2>3, <2>4 DEF Honest, Holds, Exists
  <2>6. RowsKept
    BY <2>3, <2>4, <2>5 DEF RowsKept, Exists
  <2>7. /\ at'[r] = "mint" /\ pend'[r].user = u /\ ident'[r].sub = ident[r].sub
        /\ \A q \in Requests \ {r} :
              at'[q] = at[q] /\ mine'[q] = mine[q] /\ ident'[q] = ident[q] /\ pend'[q] = pend[q]
    BY <2>1 DEF Base, ReqOK, Identity
  <2>8. Honest(r)'
    BY <2>5, <2>7 DEF Honest, Holds, Exists
  <2>9. QED
    BY <1>2, <2>6, <2>7, <2>8, OthersHonest, MadeKept DEF Person, SameSessions, SameCodes
<1>5. QED
  BY <1>3, <1>4

LEMMA MintPerson ==
  ASSUME Base, Person, NEW r \in Requests, MintSession(r) \/ MintCode(r)
  PROVE  Person'
<1>1. /\ users' = users /\ owner' = owner /\ Answer(r)
      /\ Holds(pend[r].user, ident[r].sub)
      /\ pend[r].user \in Users /\ ident[r].sub \in Subs
  BY DEF MintSession, MintCode, Person, Honest, Base, Placed
<1>2. \A q \in Requests : Honest(q)'
  BY <1>1, SameRows, AnswerHonest
<1>3. CASE MintSession(r)
  <2> DEFINE x == [user |-> pend[r].user, sub |-> ident[r].sub, flow |-> flow[r], code |-> code[r],
                   live |-> TRUE, since |-> offs[pend[r].user], seen |-> seen[r]]
             n == Len(sessions) + 1
  <2>1. sessions' = Append(sessions, x) /\ codes' = codes
    BY <1>3 DEF MintSession
  <2>2. x \in Session /\ x.user = pend[r].user /\ x.sub = ident[r].sub
    BY <1>1 DEF Base, ReqOK, RowsOK, Session
  <2> HIDE DEF x
  <2>3. /\ Len(sessions) \in Nat /\ Len(sessions') = n
        /\ \A i \in 1..Len(sessions) : sessions'[i] = sessions[i]
        /\ sessions'[n] = x
    BY <2>1, <2>2, AppendProperties, LenProperties DEF Base, RowsOK
  <2>4. \A i \in 1..n : i # n => i \in 1..Len(sessions)
    BY <2>3
  <2> HIDE DEF n
  <2>5. QED
    BY <1>1, <1>2, <2>1, <2>2, <2>3, <2>4 DEF Person, Made, Holds, Exists
<1>4. CASE MintCode(r)
  <2> DEFINE x == [user |-> pend[r].user, sub |-> ident[r].sub, flow |-> flow[r], open |-> TRUE]
             n == Len(codes) + 1
  <2>1. codes' = Append(codes, x) /\ sessions' = sessions
    BY <1>4 DEF MintCode
  <2>2. flow[r] \in 1..MaxFlows
    BY <1>4, RequestsAssumption DEF MintCode
  <2>3. x \in Code /\ x.user = pend[r].user /\ x.sub = ident[r].sub
    BY <1>1, <2>2 DEF Code
  <2> HIDE DEF x
  <2>4. /\ Len(codes) \in Nat /\ Len(codes') = n
        /\ \A c \in 1..Len(codes) : codes'[c] = codes[c]
        /\ codes'[n] = x
    BY <2>1, <2>3, AppendProperties, LenProperties DEF Base, RowsOK
  <2>5. \A c \in 1..n : c # n => c \in 1..Len(codes)
    BY <2>4
  <2> HIDE DEF n
  <2>6. QED
    BY <1>1, <1>2, <2>1, <2>3, <2>4, <2>5 DEF Person, Made, Holds, Exists
<1>5. QED
  BY <1>3, <1>4

LEMMA RedeemPerson ==
  ASSUME Base, Person, NEW r \in Requests, NEW c \in 1..Len(codes), RedeemCode(r, c)
  PROVE  Person'
<1>1. users' = users /\ owner' = owner /\ sessions' = sessions
  BY DEF RedeemCode
<1>2. SameCodes
  BY CodeSpent DEF Base, RowsOK, RedeemCode, SameCodes
<1>3. /\ at'[r] = "account" /\ ident'[r].sub = codes[c].sub /\ pend'[r].user = codes[c].user
      /\ \A q \in Requests \ {r} :
            at'[q] = at[q] /\ mine'[q] = mine[q] /\ ident'[q] = ident[q] /\ pend'[q] = pend[q]
  BY DEF Base, ReqOK, RedeemCode, Identity, Change
<1>4. Holds(codes[c].user, codes[c].sub)
  BY DEF Person, Made
<1>5. Honest(r)'
  BY <1>1, <1>3, <1>4 DEF Honest, Holds, Exists
<1>6. QED
  BY <1>1, <1>2, <1>3, <1>5, SameRows, OthersHonest, MadeKept DEF Person, SameSessions

LEMMA AdministerPerson ==
  ASSUME Base, Person, NEW r \in Requests, Administer(r)
  PROVE  Person'
<1>1. owner' = owner /\ codes' = codes /\ Honest(r)
  BY DEF Administer, Authorize, PatchRead, CountAdmins, PatchWrite, InviteRead, InviteWrite,
         rowVars, Person
<1>2. SameCodes
  BY <1>1 DEF SameCodes
(* Steps that write no row.                                                *)
<1>3. ASSUME users' = users, sessions' = sessions, Honest(r)',
             \A q \in Requests \ {r} :
               at'[q] = at[q] /\ mine'[q] = mine[q] /\ ident'[q] = ident[q] /\ pend'[q] = pend[q]
      PROVE  Person'
  BY <1>1, <1>2, <1>3, SameRows, OthersHonest, MadeKept DEF Person, SameSessions
<1>4. CASE Authorize(r)
  <2>1. /\ at[r] = "idle" /\ at'[r] = "admin" /\ mine' = mine /\ ident' = ident /\ pend' = pend
        /\ users' = users /\ sessions' = sessions
        /\ \A q \in Requests \ {r} : at'[q] = at[q]
    BY <1>4 DEF Base, ReqOK, Authorize, rowVars
  <2>2. Honest(r)'
    BY <2>1 DEF Honest
  <2>3. QED
    BY <1>3, <2>1, <2>2
<1>5. CASE \E u \in Users, body \in Patches : PatchRead(r, u, body[1], body[2])
  <2>1. PICK u \in Users, body \in Patches : PatchRead(r, u, body[1], body[2])
    BY <1>5
  <2>2. PICK p : /\ pend' = [pend EXCEPT ![r] = p]
                 /\ \E ro : p = [Writes(u, None, None, ro) EXCEPT !.disabled = body[2]]
    BY <2>1 DEF PatchRead
  <2>3. p.user = u /\ p.sub = None /\ p.email = None
    BY <2>2 DEF Writes
  <2>4. /\ at'[r] \in {"count", "patch"} /\ ident' = ident
        /\ users' = users /\ sessions' = sessions /\ Exists(u)
        /\ \A q \in Requests \ {r} : at'[q] = at[q] /\ mine'[q] = mine[q]
    BY <2>1 DEF Base, ReqOK, PatchRead, rowVars
  <2>5. pend'[r] = p /\ \A q \in Requests \ {r} : pend'[q] = pend[q]
    BY <2>2 DEF Base, ReqOK
  <2>6. Honest(r)'
    BY <2>3, <2>4, <2>5 DEF Honest, Exists
  <2>7. QED
    BY <1>3, <2>4, <2>5, <2>6
<1>6. CASE CountAdmins(r)
  <2>1. users' = users /\ sessions' = sessions
    BY <1>6 DEF CountAdmins, rowVars
  <2>2. CASE Answer(r)
    BY <1>1, <1>2, <2>1, <2>2, SameRows, AnswerHonest, MadeKept DEF Person, SameSessions
  <2>3. CASE ~Answer(r)
    <3>1. /\ at[r] = "count" /\ at'[r] = "patch" /\ mine' = mine /\ ident' = ident /\ pend' = pend
          /\ \A q \in Requests \ {r} : at'[q] = at[q]
      BY <1>6, <2>3 DEF Base, ReqOK, CountAdmins
    <3>2. Honest(r)'
      BY <1>1, <2>1, <3>1 DEF Honest, Exists
    <3>3. QED
      BY <1>3, <2>1, <3>1, <3>2
  <2>4. QED
    BY <2>2, <2>3
<1>7. CASE \E e \in Emails, role \in Roles : InviteRead(r, e, role)
  <2>1. PICK e \in Emails, role \in Roles : InviteRead(r, e, role)
    BY <1>7
  <2>2. /\ at'[r] = "invite" /\ pend'[r].sub = None /\ mine' = mine /\ ident' = ident
        /\ users' = users /\ sessions' = sessions
        /\ \A q \in Requests \ {r} : at'[q] = at[q] /\ pend'[q] = pend[q]
    BY <2>1 DEF Base, ReqOK, InviteRead, Writes, rowVars
  <2>3. Honest(r)'
    BY <2>2 DEF Honest
  <2>4. QED
    BY <1>3, <2>2, <2>3
<1>8. CASE PatchWrite(r)
  <2> DEFINE u == pend[r].user
  <2>1. /\ u \in Users /\ pend[r] \in Change /\ users[u] \in Row
        /\ pend[r].sub = None /\ pend[r].email = None
    BY <1>1, <1>8 DEF Base, ReqOK, RowsOK, Placed, PatchWrite, Honest
  <2>2. PICK p \in Change : /\ p.sub = None /\ p.email = None
                            /\ users' = [users EXCEPT ![u] = Flushed(users[u], p)]
    <3>1. /\ [pend[r] EXCEPT !.disabled = "keep"] \in Change
          /\ [pend[r] EXCEPT !.disabled = "keep"].sub = None
          /\ [pend[r] EXCEPT !.disabled = "keep"].email = None
      BY <2>1 DEF Change
    <3>2. QED
      BY <1>8, <2>1, <3>1 DEF PatchWrite
  <2>3. Flushed(users[u], p).sub = users[u].sub /\ Flushed(users[u], p).email = users[u].email
    BY <2>1, <2>2, FlushedRow
  <2>4. \A v \in Users : users'[v].sub = users[v].sub /\ users'[v].email = users[v].email
    BY <2>2, <2>3 DEF Base, RowsOK
  <2>5. RowsKept
    BY <2>4 DEF RowsKept, Exists
  <2>6. SameSessions
    BY <1>8, RevokedSessions DEF Base, RowsOK, PatchWrite, SameSessions
  <2>7. /\ at'[r] = "idle" /\ mine'[r] = NotFound
        /\ \A q \in Requests \ {r} :
              at'[q] = at[q] /\ mine'[q] = mine[q] /\ ident'[q] = ident[q] /\ pend'[q] = pend[q]
    BY <1>8 DEF Base, ReqOK, PatchWrite
  <2>8. Honest(r)'
    BY <2>7 DEF Honest, NotFound
  <2>9. QED
    BY <1>1, <1>2, <2>5, <2>6, <2>7, <2>8, OthersHonest, MadeKept DEF Person
<1>9. CASE InviteWrite(r)
  <2>1. Answer(r) /\ sessions' = sessions
    BY <1>9 DEF InviteWrite
  <2>2. \A v \in Users : Exists(v) => users'[v] = users[v]
    BY <1>9 DEF Base, RowsOK, InviteWrite
  <2>3. RowsKept
    BY <2>2 DEF RowsKept, Exists
  <2>4. QED
    BY <1>1, <1>2, <2>1, <2>3, AnswerHonest, MadeKept DEF Person, SameSessions
<1>10. QED
  BY <1>4, <1>5, <1>6, <1>7, <1>8, <1>9 DEF Administer

LEMMA OutsidePerson ==
  ASSUME Base, Person,
         \/ \E f \in 1..MaxFlows : StartFlow(f) \/ ExpireFlow(f)
         \/ \E i \in 1..Len(sessions) : EndSession(i)
         \/ \E c \in 1..Len(codes) : ExpireCode(c)
         \/ \E e \in Emails, s \in Subs : Recycle(e, s)
         \/ UNCHANGED vars
  PROVE  Person'
<1>1. users' = users /\ at' = at /\ mine' = mine /\ ident' = ident /\ pend' = pend
  BY DEF StartFlow, ExpireFlow, EndSession, ExpireCode, Recycle, vars, rowVars, reqVars
<1>2. SameSessions
  BY SessionEnded DEF Base, RowsOK, SameSessions, StartFlow, ExpireFlow, EndSession, ExpireCode,
     Recycle, vars, rowVars
<1>3. SameCodes
  BY CodeSpent DEF Base, RowsOK, SameCodes, StartFlow, ExpireFlow, EndSession, ExpireCode,
     Recycle, vars, rowVars
<1>4. Made'
  BY <1>1, <1>2, <1>3, SameRows, MadeKept DEF Person
(* An address goes to somebody else only when no request relies on it.     *)
<1>5. \A r \in Requests : ident[r].email \in Emails => owner'[ident[r].email] = owner[ident[r].email]
  BY DEF Base, RowsOK, StartFlow, ExpireFlow, EndSession, ExpireCode, Recycle, vars
<1>6. \A r \in Requests : Honest(r)'
  BY <1>1, <1>5 DEF Person, Honest, Holds, Exists
<1>7. QED
  BY <1>4, <1>6 DEF Person

LEMMA PersonNext == Base /\ Person /\ [Next]_vars => Person'
<1> SUFFICES ASSUME Base, Person, [Next]_vars PROVE Person'
  OBVIOUS
<1>1. ASSUME NEW r \in Requests, SignIn(r) PROVE Person'
  BY <1>1, SignInPerson, FlushPerson, MintPerson, RedeemPerson DEF SignIn
<1>2. QED
  BY <1>1, AdministerPerson, OutsidePerson DEF Next

(***************************************************************************)
(* The account that a session or a code was created for is the account of  *)
(* the one who signed in, for ever, for any number of sign-ins in progress *)
(* and addresses that change hands between them.                           *)
(***************************************************************************)
THEOREM PersonStays == Spec => []PersonKept
<1>1. Person => PersonKept
  BY DEF Person, Made, Holds, PersonKept
<1>2. QED
  BY InitBase, InitPerson, NextBase, PersonNext, <1>1, PTL DEF Spec

-----------------------------------------------------------------------------
(* Off means off.                                                          *)

(* What a request saw of the account it works for is not newer than the    *)
(* account, and older if the account was turned off since.                 *)
SawOn(r, u) == seen[r] <= offs[u] /\ (users[u].disabled => seen[r] < offs[u])

Saw(r) ==
    /\ at[r] \notin {"by_email", "flush", "mint"} => seen[r] = 0
    /\ at[r] = "by_email" /\ mine[r].user = None => seen[r] = 0
    /\ at[r] = "by_email" /\ mine[r].user # None =>
         /\ seen[r] <= offs[mine[r].user]
         /\ ~mine[r].row.disabled => SawOn(r, mine[r].user)
    /\ at[r] \in {"flush", "invite"} => pend[r].disabled = "keep"
    /\ at[r] = "flush" /\ pend[r].user = None => seen[r] = 0
    /\ at[r] = "flush" /\ pend[r].user # None => SawOn(r, pend[r].user)
    /\ at[r] = "mint" => SawOn(r, pend[r].user)

NewIsOn == \A u \in Users : ~Exists(u) => ~users[u].disabled

OffInv == OffEndsSessions /\ NewIsOn /\ \A r \in Requests : Saw(r)

LEMMA InitOff == Init => OffInv
<1> SUFFICES ASSUME Init PROVE OffInv
  OBVIOUS
<1>1. Len(sessions) = 0 /\ 1..0 = {}
  BY DEF Init
<1>2. \A r \in Requests : at[r] = "idle" /\ seen[r] = 0
  BY DEF Init
<1>3. \A u \in Users : ~users[u].disabled
  BY DEF Init, NoRow, Administrator, Invited
<1>4. OffEndsSessions /\ NewIsOn
  BY <1>1, <1>3 DEF OffEndsSessions, NewIsOn
<1>5. \A r \in Requests : Saw(r)
  BY <1>2 DEF Saw
<1>6. QED
  BY <1>4, <1>5 DEF OffInv

(* An account gets older, and is off only if it was or has just been       *)
(* turned off.                                                             *)
Ages ==
    \A u \in Users : /\ offs'[u] >= offs[u]
                     /\ users'[u].disabled => users[u].disabled \/ offs'[u] > offs[u]

LEMMA SawKept ==
  ASSUME Base, NEW q \in Requests, Saw(q), Ages, offs' \in [Users -> 0..MaxOffs],
         at'[q] = at[q], mine'[q] = mine[q], pend'[q] = pend[q], seen'[q] = seen[q]
  PROVE  Saw(q)'
<1>1. /\ seen[q] \in Nat /\ \A u \in Users : offs[u] \in Nat /\ offs'[u] \in Nat
      /\ mine[q].user \in Users \cup {None} /\ pend[q].user \in Users \cup {None}
      /\ at[q] = "mint" => pend[q].user \in Users
  BY BoundsAssumption DEF Base, ReqOK, RowsOK, Placed, Found, Change
<1>2. \A u \in Users : seen[q] <= offs[u] => seen[q] <= offs'[u]
  BY <1>1 DEF Ages
<1>3. \A u \in Users : seen[q] <= offs[u] /\ (users[u].disabled => seen[q] < offs[u]) =>
                         seen[q] <= offs'[u] /\ (users'[u].disabled => seen[q] < offs'[u])
  BY <1>1 DEF Ages
<1>4. at[q] = "by_email" /\ mine[q].user # None =>
        /\ seen[q] <= offs'[mine[q].user]
        /\ ~mine[q].row.disabled =>
             (users'[mine[q].user].disabled => seen[q] < offs'[mine[q].user])
  BY <1>1, <1>2, <1>3 DEF Saw, SawOn
<1>5. at[q] = "mint" \/ (at[q] = "flush" /\ pend[q].user # None) =>
        /\ seen[q] <= offs'[pend[q].user]
        /\ users'[pend[q].user].disabled => seen[q] < offs'[pend[q].user]
  BY <1>1, <1>3 DEF Saw, SawOn
<1>6. QED
  BY <1>4, <1>5 DEF Saw, SawOn

LEMMA OthersSaw ==
  ASSUME Base, OffInv, NEW r \in Requests, Ages, offs' \in [Users -> 0..MaxOffs],
         \A q \in Requests \ {r} :
            at'[q] = at[q] /\ mine'[q] = mine[q] /\ pend'[q] = pend[q] /\ seen'[q] = seen[q],
         Saw(r)'
  PROVE  \A q \in Requests : Saw(q)'
BY SawKept DEF OffInv

LEMMA AnswerSaw ==
  ASSUME Base, OffInv, NEW r \in Requests, Ages, offs' \in [Users -> 0..MaxOffs], Answer(r)
  PROVE  \A q \in Requests : Saw(q)'
<1>1. at'[r] = "idle" /\ seen'[r] = 0
      /\ \A q \in Requests \ {r} :
            at'[q] = at[q] /\ mine'[q] = mine[q] /\ pend'[q] = pend[q] /\ seen'[q] = seen[q]
  BY DEF Base, ReqOK, Answer
<1>2. Saw(r)'
  BY <1>1 DEF Saw
<1>3. QED
  BY <1>1, <1>2, OthersSaw

LEMMA SameAges ==
  ASSUME Base, users' = users, offs' = offs
  PROVE  Ages /\ offs' \in [Users -> 0..MaxOffs]
BY BoundsAssumption DEF Base, RowsOK, Ages

(* Sessions that stay alive, of accounts that nobody turns off.            *)
LEMMA SessionsKept ==
  ASSUME Base, OffInv, Len(sessions') = Len(sessions),
         \A i \in 1..Len(sessions) : sessions'[i].live =>
            /\ sessions'[i] = sessions[i]
            /\ offs'[sessions[i].user] = offs[sessions[i].user]
            /\ users'[sessions[i].user].disabled => users[sessions[i].user].disabled
  PROVE  OffEndsSessions'
BY DEF OffInv, OffEndsSessions

LEMMA NoRowsOff ==
  ASSUME Base, OffInv, users' = users, offs' = offs, sessions' = sessions,
         \A q \in Requests : Saw(q)'
  PROVE  OffInv'
<1>1. OffEndsSessions'
  BY SessionsKept
<1>2. NewIsOn'
  BY DEF OffInv, NewIsOn, Exists
<1>3. QED
  BY <1>1, <1>2 DEF OffInv

LEMMA SignInOff ==
  ASSUME Base, Person, OffInv, NEW r \in Requests,
         \/ \E f \in 1..MaxFlows : ConsumeFlow(r, f)
         \/ \E e \in Emails : Verified(r, e)
         \/ NotVerified(r) \/ LookBySub(r)
         \/ KnownAccount(r) \/ (\E u \in Users : ClaimInvitation(r, u)) \/ NewAccount(r)
         \/ CheckAccount(r) \/ MintCode(r)
         \/ \E c \in 1..Len(codes) : RedeemCode(r, c)
  PROVE  OffInv'
<1>1. users' = users /\ offs' = offs /\ sessions' = sessions
  BY DEF ConsumeFlow, Verified, NotVerified, LookBySub, KnownAccount, ClaimInvitation,
         NewAccount, CheckAccount, MintCode, RedeemCode, rowVars
<1>2. Ages /\ offs' \in [Users -> 0..MaxOffs]
  BY <1>1, SameAges
<1>3. CASE Answer(r)
  BY <1>1, <1>2, <1>3, AnswerSaw, NoRowsOff
<1>4. CASE ~Answer(r)
  <2>1. /\ Saw(r) /\ Honest(r) /\ seen[r] \in Nat
        /\ \A u \in Users : offs[u] \in Nat /\ u # None
        /\ mine[r].user \in Users \cup {None}
    BY SMTT(30), IdentTyped, NoneAssumption, BoundsAssumption DEF OffInv, Person, Base, ReqOK, RowsOK
  <2>2. Saw(r)' /\ \A q \in Requests \ {r} :
            at'[q] = at[q] /\ mine'[q] = mine[q] /\ pend'[q] = pend[q] /\ seen'[q] = seen[q]
    <3>1. CASE \E f \in 1..MaxFlows : ConsumeFlow(r, f)
      <4>1. at[r] = "idle" /\ at'[r] = "provider" /\ mine' = mine /\ pend' = pend /\ seen' = seen
            /\ \A q \in Requests \ {r} : at'[q] = at[q]
        BY <3>1 DEF Base, ReqOK, ConsumeFlow
      <4>2. QED
        BY <2>1, <4>1 DEF Saw
    <3>2. CASE \E e \in Emails : Verified(r, e)
      <4>1. at[r] = "provider" /\ at'[r] = "by_sub" /\ mine' = mine /\ pend' = pend /\ seen' = seen
            /\ \A q \in Requests \ {r} : at'[q] = at[q]
        BY <3>2 DEF Base, ReqOK, Verified
      <4>2. QED
        BY <2>1, <4>1 DEF Saw
    <3>3. CASE LookBySub(r)
      <4>1. /\ at[r] = "by_sub" /\ at'[r] = "by_email" /\ pend' = pend
            /\ \A q \in Requests \ {r} : at'[q] = at[q]
        BY <3>3 DEF Base, ReqOK, LookBySub
      <4>2. CASE UNCHANGED <<mine, seen>>
        BY <1>1, <2>1, <4>1, <4>2 DEF Saw, SawOn, Honest
      <4>3. CASE ~UNCHANGED <<mine, seen>>
        <5>1. PICK u \in Users : /\ mine' = [mine EXCEPT ![r] = [user |-> u, row |-> users[u]]]
                                 /\ seen' = [seen EXCEPT ![r] = offs[u]]
          BY <3>3, <4>3 DEF LookBySub
        <5>2. /\ mine'[r].user = u /\ mine'[r].row = users[u] /\ seen'[r] = offs[u]
              /\ \A q \in Requests \ {r} : mine'[q] = mine[q] /\ seen'[q] = seen[q]
          BY <5>1 DEF Base, ReqOK
        <5>3. QED
          BY <1>1, <2>1, <4>1, <5>2 DEF Saw, SawOn
      <4>4. QED
        BY <4>2, <4>3
    <3>4. CASE KnownAccount(r)
      <4>1. PICK e, ro : SignedIn(r, Writes(mine[r].user, None, e, ro))
        BY <1>4, <3>4 DEF KnownAccount
      <4>2. seen' = seen /\ at[r] = "by_email" /\ mine[r].user # None /\ ~mine[r].row.disabled
        BY <1>4, <3>4 DEF KnownAccount
      <4>3. /\ at'[r] = "flush" /\ pend'[r].user = mine[r].user /\ pend'[r].disabled = "keep"
            /\ \A q \in Requests \ {r} : at'[q] = at[q] /\ mine'[q] = mine[q] /\ pend'[q] = pend[q]
        BY <4>1 DEF Base, ReqOK, SignedIn, Writes
      <4>4. QED
        BY <1>1, <2>1, <4>2, <4>3 DEF Saw, SawOn
    <3>5. CASE \E u \in Users : ClaimInvitation(r, u)
      <4>1. PICK u \in Users : ClaimInvitation(r, u)
        BY <3>5
      <4>2. PICK ro : SignedIn(r, Writes(u, ident[r].sub, None, ro))
        BY <1>4, <4>1 DEF ClaimInvitation
      <4>3. ~users[u].disabled /\ seen' = [seen EXCEPT ![r] = offs[u]]
        BY <1>4, <4>1 DEF ClaimInvitation
      <4>4. /\ at'[r] = "flush" /\ pend'[r].user = u /\ pend'[r].disabled = "keep"
            /\ \A q \in Requests \ {r} : at'[q] = at[q] /\ mine'[q] = mine[q] /\ pend'[q] = pend[q]
        BY <4>2 DEF Base, ReqOK, SignedIn, Writes
      <4>5. seen'[r] = offs[u] /\ \A q \in Requests \ {r} : seen'[q] = seen[q]
        BY <4>3 DEF Base, ReqOK
      <4>6. QED
        BY <1>1, <2>1, <4>3, <4>4, <4>5 DEF Saw, SawOn
    <3>6. CASE NewAccount(r)
      <4>1. PICK ro : SignedIn(r, Writes(None, ident[r].sub, ident[r].email, ro))
        BY <1>4, <3>6 DEF NewAccount
      <4>2. seen' = seen /\ at[r] = "by_email" /\ mine[r].user = None
        BY <1>4, <3>6 DEF NewAccount
      <4>3. /\ at'[r] = "flush" /\ pend'[r].user = None /\ pend'[r].disabled = "keep"
            /\ \A q \in Requests \ {r} : at'[q] = at[q] /\ mine'[q] = mine[q] /\ pend'[q] = pend[q]
        BY <4>1 DEF Base, ReqOK, SignedIn, Writes
      <4>4. QED
        BY <1>1, <2>1, <4>2, <4>3 DEF Saw
    <3>7. CASE CheckAccount(r)
      <4>1. /\ at'[r] = "mint" /\ mine' = mine /\ pend' = pend /\ ~users[pend[r].user].disabled
            /\ seen'[r] = offs[pend[r].user] /\ pend[r].user \in Users
            /\ \A q \in Requests \ {r} : at'[q] = at[q] /\ seen'[q] = seen[q]
        BY <1>4, <3>7 DEF Base, ReqOK, Placed, CheckAccount
      <4>2. QED
        BY <1>1, <2>1, <4>1 DEF Saw, SawOn
    <3>8. CASE \E c \in 1..Len(codes) : RedeemCode(r, c)
      <4>1. /\ at[r] = "idle" /\ at'[r] = "account" /\ mine' = mine /\ seen' = seen
            /\ \A q \in Requests \ {r} : at'[q] = at[q] /\ pend'[q] = pend[q]
        BY <3>8 DEF Base, ReqOK, RedeemCode
      <4>2. QED
        BY <2>1, <4>1 DEF Saw
    <3>9. QED
      BY <1>4, <3>1, <3>2, <3>3, <3>4, <3>5, <3>6, <3>7, <3>8 DEF NotVerified, MintCode
  <2>3. QED
    BY <1>1, <1>2, <2>2, OthersSaw, NoRowsOff
<1>5. QED
  BY <1>3, <1>4

LEMMA FlushedDisabled ==
  ASSUME NEW row \in Row, NEW p \in Change
  PROVE  /\ p.disabled = "keep" => Flushed(row, p).disabled = row.disabled
         /\ p.disabled # "keep" => Flushed(row, p).disabled = (p.disabled = "off")
BY DEF Flushed

LEMMA FlushOff ==
  ASSUME Base, OffInv, NEW r \in Requests, Flush(r)
  PROVE  OffInv'
<1>1. PICK u \in Users :
         /\ IF pend[r].user = None THEN ~Exists(u) ELSE u = pend[r].user
         /\ IF Conflict(u, Flushed(users[u], pend[r]))
            THEN UNCHANGED users /\ Answer(r)
            ELSE /\ users' = [users EXCEPT ![u] = Flushed(users[u], pend[r])]
                 /\ pend' = [pend EXCEPT ![r] = [NoChange EXCEPT !.user = u]]
                 /\ ident' = [ident EXCEPT ![r].email = None]
                 /\ at' = [at EXCEPT ![r] = "mint"]
                 /\ UNCHANGED <<flow, code, mine, seen, stale>>
  BY DEF Flush
<1>2. sessions' = sessions /\ offs' = offs /\ at[r] = "flush" /\ offs' \in [Users -> 0..MaxOffs]
  BY DEF Flush, Base, RowsOK
<1>3. CASE users' = users /\ Answer(r)
  BY <1>2, <1>3, SameAges, AnswerSaw, NoRowsOff
<1>4. CASE ~(users' = users /\ Answer(r))
  <2> DEFINE row == Flushed(users[u], pend[r])
  <2>1. /\ users' = [users EXCEPT ![u] = row]
        /\ pend' = [pend EXCEPT ![r] = [user |-> u, sub |-> None, email |-> None,
                                        role |-> "keep", disabled |-> "keep"]]
        /\ at' = [at EXCEPT ![r] = "mint"] /\ mine' = mine /\ seen' = seen
    BY <1>1, <1>4 DEF NoChange
  <2>2. Saw(r) /\ users[u] \in Row /\ pend[r] \in Change /\ pend[r].disabled = "keep"
        /\ seen[r] \in Nat /\ \A v \in Users : offs[v] \in Nat
    BY <1>2, BoundsAssumption DEF OffInv, Saw, Base, ReqOK, RowsOK
  <2>3. row.disabled = users[u].disabled
    BY <2>2, FlushedDisabled
  <2>4. row.email = IF pend[r].email = None THEN users[u].email ELSE pend[r].email
    BY <2>2, FlushedRow
  <2>5. /\ users'[u] = row /\ \A v \in Users \ {u} : users'[v] = users[v]
    BY <2>1 DEF Base, RowsOK
  <2> HIDE DEF row
  <2>6. \A v \in Users : users'[v].disabled = users[v].disabled
                         /\ (Exists(v) => users'[v].email # None)
    BY <2>3, <2>4, <2>5 DEF Exists
  <2>7. Ages
    BY <1>2, <2>2, <2>6 DEF Ages
  <2>8. NewIsOn'
    BY <2>6 DEF OffInv, NewIsOn, Exists
  <2>9. OffEndsSessions'
    BY <1>2, <2>6, ElementsTyped, SessionsKept
  <2>10. /\ at'[r] = "mint" /\ pend'[r].user = u
         /\ \A q \in Requests \ {r} :
               at'[q] = at[q] /\ mine'[q] = mine[q] /\ pend'[q] = pend[q] /\ seen'[q] = seen[q]
    BY <2>1 DEF Base, ReqOK
  <2>11. seen[r] <= offs[u] /\ (users[u].disabled => seen[r] < offs[u])
    <3>1. CASE pend[r].user = None
      BY <1>1, <1>2, <2>2, <3>1 DEF Saw, OffInv, NewIsOn
    <3>2. CASE pend[r].user # None
      BY <1>1, <1>2, <2>2, <3>2 DEF Saw, SawOn
    <3>3. QED
      BY <3>1, <3>2
  <2>12. Saw(r)'
    BY <1>2, <2>1, <2>6, <2>10, <2>11 DEF Saw, SawOn
  <2>13. QED
    BY <1>2, <2>7, <2>8, <2>9, <2>10, <2>12, OthersSaw DEF OffInv
<1>5. QED
  BY <1>3, <1>4

LEMMA MintSessionOff ==
  ASSUME Base, OffInv, NEW r \in Requests, MintSession(r)
  PROVE  OffInv'
<1> DEFINE x == [user |-> pend[r].user, sub |-> ident[r].sub, flow |-> flow[r], code |-> code[r],
                 live |-> TRUE, since |-> offs[pend[r].user], seen |-> seen[r]]
           n == Len(sessions) + 1
<1>1. sessions' = Append(sessions, x) /\ users' = users /\ offs' = offs /\ Answer(r) /\ at[r] = "mint"
  BY DEF MintSession
<1>2. pend[r].user \in Users /\ ident[r].sub \in Subs
  BY DEF Base, Placed, MintSession
<1>3. x \in Session /\ x.user = pend[r].user /\ x.since = offs[pend[r].user] /\ x.seen = seen[r]
  BY <1>2 DEF Base, ReqOK, RowsOK, Session
<1>4. users[pend[r].user].disabled => seen[r] < offs[pend[r].user]
  BY <1>1 DEF OffInv, Saw, SawOn
<1> HIDE DEF x
<1>5. /\ Len(sessions) \in Nat /\ Len(sessions') = n
      /\ \A i \in 1..Len(sessions) : sessions'[i] = sessions[i]
      /\ sessions'[n] = x
  BY <1>1, <1>3, AppendProperties, LenProperties DEF Base, RowsOK
<1>6. \A i \in 1..n : i # n => i \in 1..Len(sessions)
  BY <1>5
<1> HIDE DEF n
<1>7. OffEndsSessions'
  BY <1>1, <1>3, <1>4, <1>5, <1>6 DEF OffInv, OffEndsSessions
<1>8. \A q \in Requests : Saw(q)'
  BY <1>1, SameAges, AnswerSaw
<1>9. NewIsOn'
  BY <1>1 DEF OffInv, NewIsOn, Exists
<1>10. QED
  BY <1>7, <1>8, <1>9 DEF OffInv

LEMMA AdministerOff ==
  ASSUME Base, Person, OffInv, NEW r \in Requests, Administer(r)
  PROVE  OffInv'
<1>0. Saw(r) /\ Honest(r)
  BY DEF OffInv, Person
<1>1. CASE Authorize(r)
  <2>1. /\ at[r] = "idle" /\ at'[r] = "admin" /\ mine' = mine /\ pend' = pend /\ seen' = seen
        /\ users' = users /\ sessions' = sessions /\ offs' = offs
        /\ \A q \in Requests \ {r} : at'[q] = at[q]
    BY <1>1 DEF Base, ReqOK, Authorize, rowVars
  <2>2. Saw(r)'
    BY <1>0, <2>1 DEF Saw
  <2>3. QED
    BY <2>1, <2>2, SameAges, OthersSaw, NoRowsOff
<1>2. CASE \E u \in Users, body \in Patches : PatchRead(r, u, body[1], body[2])
  <2>1. /\ at[r] = "admin" /\ at'[r] \in {"count", "patch"} /\ seen' = seen
        /\ users' = users /\ sessions' = sessions /\ offs' = offs
        /\ \A q \in Requests \ {r} : at'[q] = at[q] /\ mine'[q] = mine[q] /\ pend'[q] = pend[q]
    BY <1>2 DEF Base, ReqOK, PatchRead, rowVars
  <2>2. Saw(r)'
    BY <1>0, <2>1 DEF Saw
  <2>3. QED
    BY <2>1, <2>2, SameAges, OthersSaw, NoRowsOff
<1>3. CASE CountAdmins(r)
  <2>1. users' = users /\ sessions' = sessions /\ offs' = offs
    BY <1>3 DEF CountAdmins, rowVars
  <2>2. CASE Answer(r)
    BY <2>1, <2>2, SameAges, AnswerSaw, NoRowsOff
  <2>3. CASE ~Answer(r)
    <3>1. /\ at[r] = "count" /\ at'[r] = "patch" /\ mine' = mine /\ pend' = pend /\ seen' = seen
          /\ \A q \in Requests \ {r} : at'[q] = at[q]
      BY <1>3, <2>3 DEF Base, ReqOK, CountAdmins
    <3>2. Saw(r)'
      BY <1>0, <3>1 DEF Saw
    <3>3. QED
      BY <2>1, <3>1, <3>2, SameAges, OthersSaw, NoRowsOff
  <2>4. QED
    BY <2>2, <2>3
<1>4. CASE \E e \in Emails, role \in Roles : InviteRead(r, e, role)
  <2>1. /\ at[r] = "admin" /\ at'[r] = "invite" /\ pend'[r].disabled = "keep"
        /\ mine' = mine /\ seen' = seen
        /\ users' = users /\ sessions' = sessions /\ offs' = offs
        /\ \A q \in Requests \ {r} : at'[q] = at[q] /\ pend'[q] = pend[q]
    BY <1>4 DEF Base, ReqOK, InviteRead, Writes, rowVars
  <2>2. Saw(r)'
    BY <1>0, <2>1 DEF Saw
  <2>3. QED
    BY <2>1, <2>2, SameAges, OthersSaw, NoRowsOff
<1>5. CASE PatchWrite(r)
  <2> DEFINE u == pend[r].user
             off == pend[r].disabled = "off"
  <2>1. /\ u \in Users /\ pend[r] \in Change /\ users[u] \in Row /\ Exists(u)
        /\ pend[r].sub = None /\ pend[r].email = None /\ at[r] = "patch"
        /\ \A v \in Users : offs[v] \in Nat
    BY <1>0, <1>5, BoundsAssumption DEF Base, ReqOK, RowsOK, Placed, PatchWrite, Honest
  <2>2. PICK p \in Change : /\ p.email = None /\ p.disabled \in {"keep", pend[r].disabled}
                            /\ users' = [users EXCEPT ![u] = Flushed(users[u], p)]
    <3>1. /\ [pend[r] EXCEPT !.disabled = "keep"] \in Change
          /\ [pend[r] EXCEPT !.disabled = "keep"].email = None
          /\ [pend[r] EXCEPT !.disabled = "keep"].disabled = "keep"
      BY <2>1 DEF Change
    <3>2. QED
      BY <1>5, <2>1, <3>1 DEF PatchWrite
  <2>3. /\ Flushed(users[u], p).email = users[u].email
        /\ Flushed(users[u], p).disabled => users[u].disabled \/ off
    BY <2>1, <2>2, FlushedRow, FlushedDisabled
  <2>4. \A v \in Users : /\ users'[v].email = users[v].email
                         /\ users'[v].disabled => users[v].disabled \/ (off /\ v = u)
                         /\ v # u => users'[v] = users[v]
    BY <2>2, <2>3 DEF Base, RowsOK
  <2>5. /\ off => offs'[u] = offs[u] + 1
        /\ ~off => offs'[u] = offs[u]
        /\ \A v \in Users : v # u => offs'[v] = offs[v]
    BY <1>5, <2>1 DEF Base, RowsOK, PatchWrite
  <2>6. Ages
    BY <2>1, <2>4, <2>5 DEF Ages
  <2>7. offs' \in [Users -> 0..MaxOffs]
    BY <1>5, PatchWriteStep DEF Base, RowsOK
  <2>8. NewIsOn'
    BY <2>1, <2>4 DEF OffInv, NewIsOn, Exists
  <2>9. OffEndsSessions'
    <3>1. CASE off
      <4>1. sessions' = Revoked(u)
        BY <1>5, <3>1 DEF PatchWrite
      <4>2. /\ Len(sessions') = Len(sessions)
            /\ \A i \in 1..Len(sessions) : sessions'[i].live =>
                 sessions'[i] = sessions[i] /\ sessions[i].user # u
        BY <4>1, LenProperties DEF Base, RowsOK, Revoked, Ended
      <4>3. QED
        BY <2>4, <2>5, <4>2, ElementsTyped, SessionsKept
    <3>2. CASE ~off
      <4>1. sessions' = sessions
        BY <1>5, <3>2 DEF PatchWrite
      <4>2. QED
        BY <2>4, <2>5, <3>2, <4>1, ElementsTyped, SessionsKept
    <3>3. QED
      BY <3>1, <3>2
  <2>10. /\ at'[r] = "idle" /\ seen' = seen
         /\ \A q \in Requests \ {r} : at'[q] = at[q] /\ mine'[q] = mine[q] /\ pend'[q] = pend[q]
    BY <1>5 DEF Base, ReqOK, PatchWrite
  <2>11. Saw(r)'
    BY <1>0, <2>1, <2>10 DEF Saw
  <2>12. QED
    BY <2>6, <2>7, <2>8, <2>9, <2>10, <2>11, OthersSaw DEF OffInv
<1>6. CASE InviteWrite(r)
  <2>1. Answer(r) /\ sessions' = sessions /\ offs' = offs /\ offs' \in [Users -> 0..MaxOffs]
        /\ at[r] = "invite"
    BY <1>6 DEF InviteWrite, Base, RowsOK
  <2>2. pend[r] \in Change /\ pend[r].disabled = "keep"
    BY <1>0, <2>1 DEF Base, ReqOK, Saw
  <2>3. ~Flushed(NoRow, pend[r]).disabled
    BY <2>2, FlushedDisabled, Empties DEF NoRow
  <2>4. \A v \in Users : users'[v] = users[v] \/ ~users'[v].disabled
    BY <1>6, <2>3 DEF Base, RowsOK, InviteWrite
  <2>5. Ages
    BY <2>1, <2>4, BoundsAssumption DEF Base, RowsOK, Ages
  <2>6. NewIsOn'
    BY <2>4 DEF OffInv, NewIsOn, Exists
  <2>7. OffEndsSessions'
    BY <2>1, <2>4, ElementsTyped, SessionsKept
  <2>8. QED
    BY <2>1, <2>5, <2>6, <2>7, AnswerSaw DEF OffInv
<1>7. QED
  BY <1>1, <1>2, <1>3, <1>4, <1>5, <1>6 DEF Administer

LEMMA OutsideOff ==
  ASSUME Base, OffInv,
         \/ \E f \in 1..MaxFlows : StartFlow(f) \/ ExpireFlow(f)
         \/ \E i \in 1..Len(sessions) : EndSession(i)
         \/ \E c \in 1..Len(codes) : ExpireCode(c)
         \/ \E e \in Emails, s \in Subs : Recycle(e, s)
         \/ UNCHANGED vars
  PROVE  OffInv'
<1>1. users' = users /\ offs' = offs /\ UNCHANGED reqVars
  BY DEF StartFlow, ExpireFlow, EndSession, ExpireCode, Recycle, vars, rowVars
<1>2. \A q \in Requests : Saw(q)'
  BY <1>1 DEF OffInv, Saw, SawOn, reqVars
<1>3. NewIsOn'
  BY <1>1 DEF OffInv, NewIsOn, Exists
<1>4. CASE \E i \in 1..Len(sessions) : EndSession(i)
  <2>1. PICK i \in 1..Len(sessions) : sessions' = [sessions EXCEPT ![i] = Ended(sessions[i])]
    BY <1>4 DEF EndSession
  <2>2. sessions[i] \in Session
    BY ElementOfSeq DEF Base, RowsOK
  <2>3. /\ Len(sessions') = Len(sessions) /\ sessions'[i] = Ended(sessions[i])
        /\ \A j \in 1..Len(sessions) : j # i => sessions'[j] = sessions[j]
    BY <2>1, <2>2, EndedSession, ExceptSeq DEF Base, RowsOK
  <2>4. ~sessions'[i].live
    BY <2>3 DEF Ended
  <2>5. OffEndsSessions'
    BY <1>1, <2>3, <2>4, SessionsKept
  <2>6. QED
    BY <1>2, <1>3, <2>5 DEF OffInv
<1>5. CASE ~\E i \in 1..Len(sessions) : EndSession(i)
  <2>1. sessions' = sessions
    BY <1>5 DEF StartFlow, ExpireFlow, ExpireCode, Recycle, vars, rowVars
  <2>2. QED
    BY <1>1, <1>2, <2>1, NoRowsOff
<1>6. QED
  BY <1>4, <1>5

LEMMA OffNext == Base /\ Person /\ OffInv /\ [Next]_vars => OffInv'
<1> SUFFICES ASSUME Base, Person, OffInv, [Next]_vars PROVE OffInv'
  OBVIOUS
<1>1. ASSUME NEW r \in Requests, SignIn(r) PROVE OffInv'
  BY <1>1, SignInOff, FlushOff, MintSessionOff DEF SignIn
<1>2. QED
  BY <1>1, AdministerOff, OutsideOff DEF Next

(***************************************************************************)
(* An account that is turned off has no session from before: a session     *)
(* alive while its account is off was created by a sign-in that had        *)
(* checked the account before it was turned off.  For any number of        *)
(* accounts, administrators and sign-ins in progress.                      *)
(***************************************************************************)
THEOREM OffIsOff == Spec => []OffEndsSessions
<1>1. Base /\ Person /\ OffInv /\ [Next]_vars => OffInv'
  BY OffNext
<1>2. OffInv => OffEndsSessions
  BY DEF OffInv
<1>3. Base /\ Person /\ [Next]_vars => Person'
  BY PersonNext
<1>4. QED
  BY InitBase, InitPerson, InitOff, NextBase, <1>1, <1>2, <1>3, PTL DEF Spec

-----------------------------------------------------------------------------
(* A super admin remains.                                                  *)

(* A sign-in never takes the role away, and whoever is about to take an     *)
(* account's rights away, on reads that are still good, leaves another      *)
(* active super admin.                                                     *)
Mild(r) == at[r] = "flush" => pend[r].role # "user"

TakesAway(r) == pend[r].role = "user" \/ pend[r].disabled = "off"

Spare(r) ==
    ~raced /\ at[r] = "patch" /\ ~stale[r] /\ TakesAway(r) =>
        \E v \in Users : v # pend[r].user /\ Active(v)

AdminInv == AdminRemains /\ \A r \in Requests : Mild(r) /\ Spare(r)

NoLoss == \A v \in Users : Active(v) => Active(v)'

LEMMA SomeAdmin == Admins # {} <=> \E v \in Users : Active(v)
BY DEF Admins

LEMMA AnotherAdmin ==
  ASSUME ~(Cardinality(Admins) <= 1), NEW u
  PROVE  \E v \in Users : v # u /\ Active(v)
<1> SUFFICES ASSUME ~\E v \in Users : v # u /\ Active(v) PROVE FALSE
  OBVIOUS
<1>1. Admins = {} \/ Admins = {u}
  BY DEF Admins
<1>2. Cardinality({}) = 0 /\ Cardinality({u}) = 1
  BY FS_EmptySet, FS_Singleton
<1>3. Cardinality(Admins) <= 1
  BY <1>1, <1>2
<1>4. QED
  BY <1>3

LEMMA InitAdmin == Init => AdminInv
<1> SUFFICES ASSUME Init PROVE AdminInv
  OBVIOUS
<1>1. PICK u \in Users : users[u].sub # None
  BY DEF Init
<1>2. users[u] \in {NoRow} \cup {Administrator(owner[e], e) : e \in Superadmins}
                   \cup {Invited(e, role) : e \in Emails \ Superadmins, role \in Roles}
  BY DEF Init
<1>3. NoRow.sub = None /\ \A e, role : Invited(e, role).sub = None
  BY DEF NoRow, Invited
<1>4. PICK e \in Superadmins : users[u] = Administrator(owner[e], e)
  BY <1>1, <1>2, <1>3
<1>5. Active(u)
  BY <1>4, NoneAssumption, PolicyAssumption DEF Active, Exists, Administrator
<1>6. \A r \in Requests : at[r] = "idle"
  BY DEF Init
<1>7. QED
  BY <1>5, <1>6, SomeAdmin DEF AdminInv, AdminRemains, Mild, Spare

(* A step that takes no rights away leaves one request to be looked at.    *)
LEMMA AdminFrame ==
  ASSUME AdminInv, NoLoss, raced' = raced, NEW r \in Requests,
         \A q \in Requests \ {r} : at'[q] = at[q] /\ pend'[q] = pend[q] /\ stale'[q] = stale[q],
         Mild(r)', Spare(r)'
  PROVE  AdminInv'
<1>1. AdminRemains'
  BY SomeAdmin DEF AdminInv, AdminRemains, NoLoss, Admins
<1>2. ASSUME NEW q \in Requests \ {r} PROVE Mild(q)' /\ Spare(q)'
  BY DEF AdminInv, NoLoss, Mild, Spare, TakesAway
<1>3. QED
  BY <1>1, <1>2 DEF AdminInv

LEMMA NeitherPoint ==
  ASSUME NEW r \in Requests, at'[r] \notin {"flush", "patch"}
  PROVE  Mild(r)' /\ Spare(r)'
BY DEF Mild, Spare

LEMMA AnswerAdmin ==
  ASSUME Base, AdminInv, NoLoss, raced' = raced, NEW r \in Requests, Answer(r)
  PROVE  AdminInv'
<1>1. /\ at'[r] = "idle"
      /\ \A q \in Requests \ {r} : at'[q] = at[q] /\ pend'[q] = pend[q] /\ stale'[q] = stale[q]
  BY DEF Base, ReqOK, Answer
<1>2. QED
  BY <1>1, NeitherPoint, AdminFrame

LEMMA SameLoss == users' = users => NoLoss
BY DEF NoLoss, Active, Exists

LEMMA SignedInAdmin ==
  ASSUME Base, AdminInv, users' = users, raced' = raced, NEW r \in Requests,
         NEW u, NEW sub, NEW e, NEW row, SignedIn(r, Writes(u, sub, e, Promotion(r, row))),
         stale' = stale
  PROVE  AdminInv'
<1>1. Promotion(r, row) # "user"
  BY DEF Promotion
<1>2. /\ at'[r] = "flush" /\ pend'[r].role # "user"
      /\ \A q \in Requests \ {r} : at'[q] = at[q] /\ pend'[q] = pend[q]
  BY <1>1 DEF SignedIn, Writes, Base, ReqOK
<1>3. Mild(r)' /\ Spare(r)'
  BY <1>2 DEF Mild, Spare
<1>4. QED
  BY <1>2, <1>3, SameLoss, AdminFrame

LEMMA FlushAdmin ==
  ASSUME Base, OffInv, AdminInv, NEW r \in Requests, Flush(r)
  PROVE  AdminInv'
<1>1. PICK u \in Users :
         /\ IF pend[r].user = None THEN ~Exists(u) ELSE u = pend[r].user
         /\ IF Conflict(u, Flushed(users[u], pend[r]))
            THEN UNCHANGED users /\ Answer(r)
            ELSE /\ users' = [users EXCEPT ![u] = Flushed(users[u], pend[r])]
                 /\ pend' = [pend EXCEPT ![r] = [NoChange EXCEPT !.user = u]]
                 /\ ident' = [ident EXCEPT ![r].email = None]
                 /\ at' = [at EXCEPT ![r] = "mint"]
                 /\ UNCHANGED <<flow, code, mine, seen, stale>>
  BY DEF Flush
<1>2. raced' = raced /\ at[r] = "flush"
  BY DEF Flush
<1>3. CASE users' = users /\ Answer(r)
  BY <1>2, <1>3, SameLoss, AnswerAdmin
<1>4. CASE ~(users' = users /\ Answer(r))
  <2> DEFINE row == Flushed(users[u], pend[r])
  <2>1. users[u] \in Row /\ pend[r] \in Change /\ users \in [Users -> Row]
    BY DEF Base, ReqOK, RowsOK
  <2>2. pend[r].role # "user" /\ pend[r].disabled = "keep"
    BY <1>2 DEF AdminInv, Mild, OffInv, Saw
  <2>3. /\ users[u].email # None => row.email # None
        /\ row.disabled = users[u].disabled
    BY <2>1, <2>2, FlushedRow, FlushedDisabled
  <2>4. users[u].role = "superadmin" => row.role = "superadmin"
    BY <2>1, <2>2 DEF Flushed, Change, Roles
  <2>5. users' = [users EXCEPT ![u] = row]
    BY <1>1, <1>4
  <2> HIDE DEF row
  <2>6. NoLoss
    BY <2>1, <2>3, <2>4, <2>5 DEF NoLoss, Active, Exists
  <2>7. /\ at'[r] = "mint" /\ stale' = stale
        /\ \A q \in Requests \ {r} : at'[q] = at[q] /\ pend'[q] = pend[q]
    BY <1>1, <1>4 DEF Base, ReqOK
  <2>8. QED
    BY <1>2, <2>6, <2>7, NeitherPoint, AdminFrame
<1>5. QED
  BY <1>3, <1>4

LEMMA SignInAdmin ==
  ASSUME Base, OffInv, AdminInv, NEW r \in Requests, SignIn(r)
  PROVE  AdminInv'
<1>1. CASE Flush(r)
  BY <1>1, FlushAdmin
<1>2. CASE ~Flush(r)
  <2>1. users' = users /\ raced' = raced
    BY <1>2 DEF SignIn, ConsumeFlow, Verified, NotVerified, LookBySub, KnownAccount,
       ClaimInvitation, NewAccount, MintSession, MintCode, RedeemCode, CheckAccount, rowVars
  <2>2. CASE Answer(r)
    BY <2>1, <2>2, SameLoss, AnswerAdmin
  <2>3. CASE ~Answer(r) /\ KnownAccount(r)
    <3>1. PICK e : SignedIn(r, Writes(mine[r].user, None, e, Promotion(r, mine[r].row.role)))
      BY <2>3 DEF KnownAccount
    <3>2. stale' = stale
      BY <2>3 DEF KnownAccount
    <3>3. QED
      BY <2>1, <3>1, <3>2, SignedInAdmin
  <2>4. CASE ~Answer(r) /\ \E u \in Users : ClaimInvitation(r, u)
    <3>1. PICK u \in Users : ClaimInvitation(r, u)
      BY <2>4
    <3>2. /\ SignedIn(r, Writes(u, ident[r].sub, None, Promotion(r, users[u].role)))
          /\ stale' = stale
      BY <2>4, <3>1 DEF ClaimInvitation
    <3>3. QED
      BY <2>1, <3>2, SignedInAdmin
  <2>5. CASE ~Answer(r) /\ NewAccount(r)
    <3>1. /\ SignedIn(r, Writes(None, ident[r].sub, ident[r].email, Promotion(r, "user")))
          /\ stale' = stale
      BY <2>5 DEF NewAccount
    <3>2. QED
      BY <2>1, <3>1, SignedInAdmin
  <2>6. CASE \/ \E f \in 1..MaxFlows : ConsumeFlow(r, f)
             \/ \E e \in Emails : Verified(r, e)
             \/ LookBySub(r)
             \/ \E c \in 1..Len(codes) : RedeemCode(r, c)
             \/ ~Answer(r) /\ CheckAccount(r)
    <3>1. /\ at'[r] \in {"provider", "by_sub", "by_email", "account", "mint"} /\ stale' = stale
          /\ \A q \in Requests \ {r} : at'[q] = at[q] /\ pend'[q] = pend[q]
      BY <2>6 DEF Base, ReqOK, ConsumeFlow, Verified, LookBySub, RedeemCode, CheckAccount
    <3>2. QED
      BY <2>1, <3>1, SameLoss, NeitherPoint, AdminFrame
  <2>7. QED
    BY <1>2, <2>2, <2>3, <2>4, <2>5, <2>6 DEF SignIn, NotVerified, MintSession, MintCode
<1>3. QED
  BY <1>1, <1>2

(* What a patch may take away it was allowed to when it read.              *)
LEMMA PatchReadAdmin ==
  ASSUME Base, AdminInv, NEW r \in Requests, NEW u \in Users, NEW role, NEW disabled,
         PatchRead(r, u, role, disabled)
  PROVE  AdminInv'
<1> DEFINE ro == IF role = users[u].role THEN "keep" ELSE role
           losing == Active(u) /\ (role = "user" \/ disabled = "off")
           p == [Writes(u, None, None, ro) EXCEPT !.disabled = disabled]
<1>1. p.user = u /\ p.role = ro /\ p.disabled = disabled
  BY DEF Writes
<1> HIDE DEF p
<1>2. /\ users' = users /\ raced' = raced /\ stale' = stale
      /\ at'[r] = (IF losing THEN "count" ELSE "patch") /\ pend'[r] = p
      /\ \A q \in Requests \ {r} : at'[q] = at[q] /\ pend'[q] = pend[q]
  BY DEF PatchRead, Base, ReqOK, rowVars, p
<1>3. Mild(r)'
  BY <1>2 DEF Mild
<1>4. Spare(r)'
  <2> SUFFICES ASSUME ~raced, ~losing, role = "user" \/ disabled = "off"
               PROVE  \E v \in Users : v # u /\ Active(v)'
    BY <1>1, <1>2 DEF Spare, TakesAway
  <2>1. ~Active(u) /\ \E v \in Users : Active(v)
    BY SomeAdmin DEF AdminInv, AdminRemains
  <2>2. QED
    BY <1>2, <2>1, SameLoss DEF NoLoss
<1>5. QED
  BY <1>2, <1>3, <1>4, SameLoss, AdminFrame

LEMMA CountAdmin ==
  ASSUME Base, AdminInv, NEW r \in Requests, CountAdmins(r)
  PROVE  AdminInv'
<1>1. users' = users /\ raced' = raced
  BY DEF CountAdmins, rowVars
<1>2. CASE Answer(r)
  BY <1>1, <1>2, SameLoss, AnswerAdmin
<1>3. CASE ~Answer(r)
  <2>1. /\ at'[r] = "patch" /\ pend' = pend /\ stale' = stale /\ ~(Cardinality(Admins) <= 1)
        /\ \A q \in Requests \ {r} : at'[q] = at[q]
    BY <1>3 DEF CountAdmins, Base, ReqOK
  <2>2. \E v \in Users : v # pend[r].user /\ Active(v)
    BY <2>1, AnotherAdmin
  <2>3. Mild(r)' /\ Spare(r)'
    BY <1>1, <2>1, <2>2, SameLoss DEF Mild, Spare, NoLoss
  <2>4. QED
    BY <1>1, <2>1, <2>3, SameLoss, AdminFrame
<1>4. QED
  BY <1>2, <1>3

LEMMA PatchWriteAdmin ==
  ASSUME Base, Person, AdminInv, NEW r \in Requests, PatchWrite(r)
  PROVE  AdminInv'
<1>0. PICK u \in Users : u = pend[r].user
  BY DEF Base, Placed, PatchWrite
<1>1. /\ users[u] \in Row /\ pend[r] \in Change /\ users \in [Users -> Row] /\ Exists(u)
      /\ pend[r].email = None /\ at[r] = "patch"
  BY <1>0 DEF Base, ReqOK, RowsOK, Person, Honest, PatchWrite
<1>2. PICK p \in Change : /\ p.role = pend[r].role /\ p.email = None
                          /\ p.disabled \in {"keep", pend[r].disabled}
                          /\ users' = [users EXCEPT ![u] = Flushed(users[u], p)]
  <2> DEFINE k == [pend[r] EXCEPT !.disabled = "keep"]
  <2>1. k \in Change /\ k.email = None /\ k.disabled = "keep" /\ k.role = pend[r].role
    BY <1>1 DEF Change
  <2>2. users' = [users EXCEPT ![u] = Flushed(users[u], k)]
        \/ users' = [users EXCEPT ![u] = Flushed(users[u], pend[r])]
    BY <1>0 DEF PatchWrite
  <2> HIDE DEF k
  <2>3. QED
    BY <1>1, <2>1, <2>2
<1>3. \A v \in Users : v # u => users'[v] = users[v]
  BY <1>1, <1>2
<1>4. ~TakesAway(r) => (Active(u) => Active(u)')
  <2>1. users'[u] = Flushed(users[u], p)
    BY <1>1, <1>2
  <2>2. users'[u].email = users[u].email
    BY <1>1, <1>2, <2>1, FlushedRow
  <2>3. ~TakesAway(r) /\ users[u].role = "superadmin" => users'[u].role = "superadmin"
    BY <1>1, <1>2, <2>1 DEF TakesAway, Flushed, Change, Roles
  <2>4. ~TakesAway(r) /\ ~users[u].disabled => ~users'[u].disabled
    <3>1. ~TakesAway(r) => p.disabled # "off"
      BY <1>2 DEF TakesAway
    <3>2. p.disabled # "off" /\ ~users[u].disabled => ~Flushed(users[u], p).disabled
      BY <1>1, <1>2, FlushedDisabled
    <3>3. QED
      BY <2>1, <3>1, <3>2
  <2>5. QED
    BY <2>2, <2>3, <2>4 DEF Active, Exists
<1>5. ~raced' => ~raced /\ ~stale[r]
  <2>1. raced' = (raced \/ stale[r])
    BY DEF PatchWrite
  <2>2. QED
    BY <2>1
<1>6. ~raced' => \E v \in Users : Active(v)'
  <2>1. CASE ~raced' /\ TakesAway(r)
    <3>1. PICK v \in Users : v # u /\ Active(v)
      BY <1>0, <1>1, <1>5, <2>1 DEF AdminInv, Spare
    <3>2. QED
      BY <1>3, <3>1 DEF Active, Exists
  <2>2. CASE ~raced' /\ ~TakesAway(r)
    <3>1. PICK v \in Users : Active(v)
      BY <1>5, <2>2, SomeAdmin DEF AdminInv, AdminRemains
    <3>2. QED
      BY <1>3, <1>4, <2>2, <3>1 DEF Active, Exists
  <2>3. QED
    BY <2>1, <2>2
<1>7. AdminRemains'
  BY <1>6, SomeAdmin DEF AdminRemains, Admins
<1>8. ASSUME NEW q \in Requests PROVE Mild(q)' /\ Spare(q)'
  <2>1. /\ at'[r] = "idle"
        /\ q # r => at'[q] = at[q] /\ pend'[q] = pend[q]
    BY DEF PatchWrite, Base, ReqOK
  <2>2. q # r /\ at[q] = "patch" => stale'[q]
    BY DEF PatchWrite
  <2>3. QED
    BY <2>1, <2>2 DEF AdminInv, Mild, Spare
<1>9. QED
  BY <1>7, <1>8 DEF AdminInv

LEMMA AdministerAdmin ==
  ASSUME Base, Person, AdminInv, NEW r \in Requests, Administer(r)
  PROVE  AdminInv'
<1>1. CASE Authorize(r)
  <2>1. /\ users' = users /\ raced' = raced /\ at'[r] = "admin" /\ pend' = pend /\ stale' = stale
        /\ \A q \in Requests \ {r} : at'[q] = at[q]
    BY <1>1 DEF Authorize, Base, ReqOK, rowVars
  <2>2. QED
    BY <2>1, SameLoss, NeitherPoint, AdminFrame
<1>2. CASE \E e \in Emails, role \in Roles : InviteRead(r, e, role)
  <2>1. /\ users' = users /\ raced' = raced /\ at'[r] = "invite" /\ stale' = stale
        /\ \A q \in Requests \ {r} : at'[q] = at[q] /\ pend'[q] = pend[q]
    BY <1>2 DEF InviteRead, Base, ReqOK, rowVars
  <2>2. QED
    BY <2>1, SameLoss, NeitherPoint, AdminFrame
<1>3. CASE InviteWrite(r)
  <2>1. NoLoss
    <3>1. PICK u \in Users :
             ~Exists(u) /\ (users' = users \/ users' = [users EXCEPT ![u] = Flushed(NoRow, pend[r])])
      BY <1>3 DEF InviteWrite
    <3>2. \A v \in Users : v # u => users'[v] = users[v]
      BY <3>1 DEF Base, RowsOK
    <3>3. QED
      BY <3>1, <3>2 DEF NoLoss, Active, Exists
  <2>2. Answer(r) /\ raced' = raced
    BY <1>3 DEF InviteWrite
  <2>3. QED
    BY <2>1, <2>2, AnswerAdmin
<1>4. QED
  BY <1>1, <1>2, <1>3, PatchReadAdmin, CountAdmin, PatchWriteAdmin DEF Administer

LEMMA OutsideAdmin ==
  ASSUME AdminInv,
         \/ \E f \in 1..MaxFlows : StartFlow(f) \/ ExpireFlow(f)
         \/ \E i \in 1..Len(sessions) : EndSession(i)
         \/ \E c \in 1..Len(codes) : ExpireCode(c)
         \/ \E e \in Emails, s \in Subs : Recycle(e, s)
         \/ UNCHANGED vars
  PROVE  AdminInv'
<1>1. users' = users /\ raced' = raced /\ UNCHANGED reqVars
  BY DEF StartFlow, ExpireFlow, EndSession, ExpireCode, Recycle, vars, rowVars
<1>2. QED
  BY <1>1 DEF AdminInv, AdminRemains, Admins, Active, Exists, Mild, Spare, TakesAway, reqVars

(***************************************************************************)
(* Some super admin stays active, whatever sign-ins, invitations and       *)
(* patches interleave, as long as no patch is written on reads that        *)
(* another patch has overtaken (docs/AUTH.md:14): the count of patch_user  *)
(* protects against every other step.                                      *)
(***************************************************************************)
THEOREM AdminTheorem == Spec => []AdminRemains
<1>1. Base /\ Person /\ OffInv /\ AdminInv /\ [Next]_vars => AdminInv'
  BY SignInAdmin, AdministerAdmin, OutsideAdmin DEF Next
<1>2. AdminInv => AdminRemains
  BY DEF AdminInv
<1>3. Base /\ Person /\ [Next]_vars => Person'
  BY PersonNext
<1>4. Base /\ Person /\ OffInv /\ [Next]_vars => OffInv'
  BY OffNext
<1>5. QED
  BY InitBase, InitPerson, InitOff, InitAdmin, NextBase, <1>1, <1>2, <1>3, <1>4, PTL DEF Spec

=============================================================================
