--------------------------- MODULE AccountsProofs ---------------------------
(***************************************************************************)
(* Proofs about Accounts: its type, and that owners remain, that members   *)
(* were invited, that one invitation of an email is good, that a reset     *)
(* ends sessions, and that failed logins are bounded, for any number of    *)
(* threads, users, requests and expiries.                                  *)
(***************************************************************************)
EXTENDS Accounts, FiniteSetTheorems, TLAPS

-----------------------------------------------------------------------------
(* What a request may be, by what it is about to do.                       *)

LEMMA CheckKind ==
  ASSUME NEW r \in Request, r.pc = "check"
  PROVE  /\ r.actor \in User /\ r.seen \in Managers
         /\ r.op \in {"role", "invite"} => r.of \in User /\ r.to \in Role
         /\ r.op = "status" => r.of \in User /\ r.to \in {"active", "inactive"}
  BY DEF Request, Idle

LEMMA WriteKind ==
  ASSUME NEW r \in Request, r.pc = "write"
  PROVE  /\ r.op = "role" => r.of \in User /\ r.to \in Role /\ r.seen \in Role
         /\ r.op = "invite" => r.of \in User /\ r.to \in Role
         /\ r.op \in {"revoke", "list"} => r.of \in SUBSET Nat
         /\ r.op = "accept" => r.of \in Nat /\ r.seen \in {"member", "stranger", "user"}
  BY DEF Request, Idle

LEMMA LoginKind ==
  ASSUME NEW r \in Request, r.pc \in {"enter", "fail"}
  PROVE  r.of \in User /\ r.to \in Nat /\ r.seen \in Nat
  BY DEF Request, Idle

-----------------------------------------------------------------------------
(* Requests begin in the same way: nothing but the request is new, and it  *)
(* refers to rows that it has just read.                                   *)

Begun(r) ==
  \/ /\ r.pc = "check" /\ Member(r.actor) /\ r.seen = role[r.actor]
  \/ /\ r.pc = "write" /\ r.op = "accept"
     /\ r.of \in DOMAIN invite
     /\ r.seen = "user" => HasAccount(invite[r.of].email)
     /\ r.seen = "member" => Member(invite[r.of].email)
  \/ r.pc \in {"enter", "fail"} /\ HasAccount(r.of) /\ failures[r.of] < MaxAttempts
  \/ r.pc = "reset" /\ r.of \in DOMAIN token
Begins(t) ==
  \E r \in Request :
    /\ Begun(r) /\ req[t] = Idle
    /\ req' = [req EXCEPT ![t] = r] /\ requests' = requests + 1
    /\ UNCHANGED <<rows, past, histories>>

\* Authorize lets in a request of any of the five team operations.
LEMMA AuthorizeBegins ==
  ASSUME AccountsTypeOK, NEW t \in Thread, NEW a \in User, NEW op, NEW of, NEW to,
         Authorize(t, a, op, of, to),
         \A s \in Managers :
           [pc |-> "check", op |-> op, actor |-> a, of |-> of, to |-> to, seen |-> s] \in Request
  PROVE  Begins(t)
<1>. DEFINE r == [pc |-> "check", op |-> op, actor |-> a, of |-> of, to |-> to, seen |-> role[a]]
<1>1. role[a] \in Managers /\ Member(a)
  BY AccountsAssumption DEF Authorize, Member, Managers
<1>2. r \in Request /\ Begun(r)
  BY <1>1 DEF Begun
<1>. QED BY <1>2 DEF Authorize, Enter, Begins

LEMMA TeamBegins ==
  ASSUME AccountsTypeOK, NEW t \in Thread, NEW a \in User
  PROVE  /\ \A m \in User : \A r : BeginRoleUpdate(t, a, m, r) \/ BeginInvitation(t, a, m, r) => Begins(t)
         /\ \A m \in User, b \in {"active", "inactive"} : BeginStatusUpdate(t, a, m, b) => Begins(t)
         /\ \A i \in DOMAIN invite : BeginRevocation(t, a, i) => Begins(t)
         /\ BeginListing(t, a) => Begins(t)
<1>1. ASSUME NEW m \in User, NEW r, BeginRoleUpdate(t, a, m, r) PROVE Begins(t)
  <2>1. r \in Role /\ Authorize(t, a, "role", m, r)
    BY <1>1 DEF BeginRoleUpdate, Valid
  <2>2. \A s \in Managers : [pc |-> "check", op |-> "role", actor |-> a, of |-> m, to |-> r, seen |-> s] \in Request
    BY <2>1 DEF Request
  <2>. QED BY <2>1, <2>2, AuthorizeBegins
<1>2. ASSUME NEW m \in User, NEW r, BeginInvitation(t, a, m, r) PROVE Begins(t)
  <2>1. r \in Role /\ Authorize(t, a, "invite", m, r)
    BY <1>2 DEF BeginInvitation, Valid
  <2>2. \A s \in Managers : [pc |-> "check", op |-> "invite", actor |-> a, of |-> m, to |-> r, seen |-> s] \in Request
    BY <2>1 DEF Request
  <2>. QED BY <2>1, <2>2, AuthorizeBegins
<1>3. ASSUME NEW m \in User, NEW b \in {"active", "inactive"}, BeginStatusUpdate(t, a, m, b) PROVE Begins(t)
  <2>1. \A s \in Managers : [pc |-> "check", op |-> "status", actor |-> a, of |-> m, to |-> b, seen |-> s] \in Request
    BY DEF Request
  <2>. QED BY <1>3, <2>1, AuthorizeBegins DEF BeginStatusUpdate
<1>4. ASSUME NEW i \in DOMAIN invite, BeginRevocation(t, a, i) PROVE Begins(t)
  <2>1. i \in Nat
    BY DEF AccountsTypeOK
  <2>2. \A s \in Managers : [pc |-> "check", op |-> "revoke", actor |-> a, of |-> i, to |-> Null, seen |-> s] \in Request
    BY <2>1 DEF Request
  <2>. QED BY <1>4, <2>2, AuthorizeBegins DEF BeginRevocation
<1>5. ASSUME BeginListing(t, a) PROVE Begins(t)
  <2>1. \A s \in Managers : [pc |-> "check", op |-> "list", actor |-> a, of |-> Null, to |-> Null, seen |-> s] \in Request
    BY DEF Request
  <2>. QED BY <1>5, <2>1, AuthorizeBegins DEF BeginListing
<1>. QED BY <1>1, <1>2, <1>3, <1>4, <1>5

LEMMA SignInBegins ==
  ASSUME AccountsTypeOK, NEW t \in Thread
  PROVE  /\ \A i \in DOMAIN invite : BeginAcceptance(t, i) => Begins(t)
         /\ \A u \in User, knows \in BOOLEAN : BeginLogin(t, u, knows) => Begins(t)
         /\ \A k \in DOMAIN token : BeginReset(t, k) => Begins(t)
<1>1. ASSUME NEW i \in DOMAIN invite, BeginAcceptance(t, i) PROVE Begins(t)
  <2>1. PICK kind : /\ kind = IF Member(invite[i].email) THEN "member"
                              ELSE IF account[invite[i].email] = Null THEN "stranger" ELSE "user"
    OBVIOUS
  <2>. DEFINE r == [pc |-> "write", op |-> "accept", actor |-> Null, of |-> i, to |-> Null, seen |-> kind]
  <2>2. i \in Nat /\ kind \in {"member", "stranger", "user"}
    BY <2>1 DEF AccountsTypeOK
  <2>3. r \in Request
    BY <2>2 DEF Request
  <2>4. Begun(r)
    BY <2>1 DEF Begun, HasAccount
  <2>6. req[t] = Idle /\ req' = [req EXCEPT ![t] = r] /\ requests' = requests + 1
    BY <1>1, <2>1 DEF BeginAcceptance, Enter, Anonymous
  <2>. QED BY <1>1, <2>3, <2>4, <2>6 DEF BeginAcceptance, Begins
<1>2. ASSUME NEW u \in User, NEW knows \in BOOLEAN, BeginLogin(t, u, knows) PROVE Begins(t)
  <2>1. PICK pc : pc = IF knows /\ account[u].active THEN "enter" ELSE "fail"
    OBVIOUS
  <2>. DEFINE r == [pc |-> pc, op |-> "login", actor |-> Null, of |-> u, to |-> account[u].password, seen |-> failures[u]]
  <2>2. pc \in {"enter", "fail"}
    BY <2>1
  <2>3. HasAccount(u) /\ account[u] \in Account /\ failures[u] \in Nat
    BY <1>2 DEF BeginLogin, HasAccount, AccountsTypeOK
  <2>4. r \in Request
    BY <2>2, <2>3 DEF Request, Account
  <2>5. failures[u] < MaxAttempts
    BY <1>2, <2>3, AccountsAssumption DEF BeginLogin, Blocked
  <2>6. Begun(r)
    BY <2>2, <2>3, <2>5 DEF Begun
  <2>8. req[t] = Idle /\ req' = [req EXCEPT ![t] = r] /\ requests' = requests + 1
    BY <1>2, <2>1 DEF BeginLogin, Enter, Anonymous
  <2>. QED BY <1>2, <2>4, <2>6, <2>8 DEF BeginLogin, Begins
<1>3. ASSUME NEW k \in DOMAIN token, BeginReset(t, k) PROVE Begins(t)
  <2>. DEFINE r == [pc |-> "reset", op |-> "reset", actor |-> Null, of |-> k, to |-> Null, seen |-> Null]
  <2>1. k \in Nat
    BY DEF AccountsTypeOK
  <2>2. r \in Request /\ Begun(r)
    BY <2>1 DEF Request, Begun
  <2>4. req[t] = Idle /\ req' = [req EXCEPT ![t] = r] /\ requests' = requests + 1
    BY <1>3 DEF BeginReset, Enter, Anonymous
  <2>. QED BY <1>3, <2>2, <2>4 DEF BeginReset, Begins
<1>. QED BY <1>1, <1>2, <1>3

-----------------------------------------------------------------------------
(* A step: a request begins, or goes on; a request of one transaction is   *)
(* made; or time passes.                                                   *)

GoesOn(t) ==
  \/ CheckRole(t) \/ WriteRole(t) \/ UpdateStatus(t)
  \/ CheckInvitation(t) \/ WriteInvitation(t) \/ CheckStatus(t) \/ WriteStatus(t)
  \/ Accept(t) \/ FailLogin(t) \/ EnterSession(t) \/ ConfirmReset(t)
Apart ==
  \/ \E u \in User : Register(u) \/ RequestReset(u) \/ ExpireFailures(u)
  \/ \E s \in DOMAIN session : ExpireSession(s) \/ \E all \in BOOLEAN : RevokeSessions(s, all)
  \/ \E i \in DOMAIN invite : ExpireInvitation(i)
  \/ \E k \in DOMAIN token : ExpireToken(k)

LEMMA Steps ==
  ASSUME AccountsTypeOK, Next
  PROVE  (\E t \in Thread : Begins(t) \/ GoesOn(t)) \/ Apart
  BY TeamBegins, SignInBegins DEF Next, GoesOn, Apart

-----------------------------------------------------------------------------
(* Rows are added and changed in place.                                    *)

LEMMA Extended ==
  ASSUME NEW S, NEW s \in Seq(S), NEW f \in [DOMAIN s -> S], NEW x \in S
  PROVE  /\ f \in Seq(S) /\ DOMAIN f = DOMAIN s /\ Len(f) = Len(s)
         /\ Append(f, x) \in Seq(S)
         /\ DOMAIN Append(f, x) = DOMAIN s \union {Len(s) + 1}
         /\ Len(s) + 1 \in Nat \ DOMAIN s
         /\ \A i \in DOMAIN s : Append(f, x)[i] = f[i]
         /\ Append(f, x)[Len(s) + 1] = x
<1>1. f \in Seq(S) /\ Len(f) = Len(s)
  OBVIOUS
<1>. QED BY <1>1

LEMMA Typed ==
  ASSUME AccountsTypeOK
  PROVE  /\ \A i \in DOMAIN invite : i \in Nat /\ invite[i] \in InviteRow /\ invite[i].email \in User /\ invite[i].role \in Role
         /\ \A s \in DOMAIN session : s \in Nat /\ session[s] \in SessionRow /\ session[s].user \in User
         /\ \A k \in DOMAIN token : k \in Nat /\ token[k] \in TokenRow /\ token[k].user \in User
         /\ \A u \in User : HasAccount(u) => account[u] \in Account
<1>1. \A i \in DOMAIN invite : i \in Nat /\ invite[i] \in InviteRow
  BY DEF AccountsTypeOK
<1>2. \A s \in DOMAIN session : s \in Nat /\ session[s] \in SessionRow
  BY DEF AccountsTypeOK
<1>3. \A k \in DOMAIN token : k \in Nat /\ token[k] \in TokenRow
  BY DEF AccountsTypeOK
<1>4. \A u \in User : HasAccount(u) => account[u] \in Account
  BY DEF AccountsTypeOK, HasAccount
<1>. QED BY <1>1, <1>2, <1>3, <1>4 DEF InviteRow, SessionRow, TokenRow

Stay ==
  /\ \A u \in User : (HasAccount(u) => account'[u] # Null) /\ (Member(u) => role'[u] # Null)
  /\ \A i \in DOMAIN invite : i \in DOMAIN invite' /\ invite'[i].email = invite[i].email
  /\ \A k \in DOMAIN token : k \in DOMAIN token' /\ token'[k].user = token[k].user

LEMMA RowsBegin ==
  ASSUME AccountsTypeOK, RowsRefer, NEW t \in Thread, Begins(t)
  PROVE  AccountsTypeOK' /\ Stay /\ RowsRefer'
<1>1. UNCHANGED <<rows, past, histories>> /\ requests' = requests + 1
  BY DEF Begins
<1>2. req' \in [Thread -> Request]
  BY DEF Begins, AccountsTypeOK
<1>3. AccountsTypeOK'
  BY <1>1, <1>2 DEF AccountsTypeOK, rows, histories
<1>4. Stay
  BY <1>1 DEF Stay, HasAccount, Member, rows
<1>5. RowsRefer'
  BY <1>1 DEF RowsRefer, HasAccount, Member, rows
<1>. QED BY <1>3, <1>4, <1>5

\* A request that ends, and one that goes from its check to its write.
LEMMA Ending ==
  ASSUME AccountsTypeOK, NEW t \in Thread, Done(t)
  PROVE  req' \in [Thread -> Request] /\ requests' \in Nat
<1>1. Idle \in Request
  BY DEF Request
<1>. QED BY <1>1 DEF Done, AccountsTypeOK

LEMMA ClosingKind ==
  ASSUME NEW r \in Request, r.pc = "check", r.op \in {"revoke", "list"}, NEW S \in SUBSET Nat
  PROVE  [r EXCEPT !.pc = "write", !.of = S] \in Request
<1>. DEFINE from == [pc: {"check"}, op: {"revoke", "list"}, actor: User, of: {Null} \union Nat, to: {Null}, seen: Managers]
            into == [pc: {"write"}, op: {"revoke", "list"}, actor: User, of: SUBSET Nat, to: {Null}, seen: Managers]
<1>1. r \in from
  BY DEF Request, Idle
<1>2. [r EXCEPT !.pc = "write", !.of = S] \in into
  BY <1>1
<1>. QED BY <1>2 DEF Request

LEMMA CheckStays ==
  ASSUME AccountsTypeOK, RowsRefer, NEW t \in Thread, CheckRole(t) \/ CheckInvitation(t) \/ CheckStatus(t)
  PROVE  AccountsTypeOK' /\ Stay /\ RowsRefer'
<1>. DEFINE q == req[t]
<1>0. q \in Request /\ Idle \in Request
  BY DEF AccountsTypeOK, Request
<1>1. UNCHANGED <<rows, requests, past, histories>>
  BY DEF CheckRole, CheckInvitation, CheckStatus
<1>2. req' \in [Thread -> Request]
  <2>1. CASE CheckRole(t)
    <3>1. q.pc = "check" /\ q.op = "role"
      BY <2>1 DEF CheckRole
    <3>2. q.actor \in User /\ q.of \in User /\ q.to \in Role
      BY <1>0, <3>1, CheckKind
    <3>3. CASE req' = [req EXCEPT ![t] = Idle]
      BY <1>0, <3>3 DEF AccountsTypeOK
    <3>4. CASE Member(q.of) /\ req' = [req EXCEPT ![t].pc = "write", ![t].seen = role[q.of]]
      <4>1. role[q.of] \in Role
        BY <3>2, <3>4 DEF Member, AccountsTypeOK
      <4>2. PICK x : x = role[q.of]
        OBVIOUS
      <4>3. [q EXCEPT !.pc = "write", !.seen = x] \in Request
        BY <1>0, <3>1, <3>2, <4>1, <4>2 DEF Request, Idle
      <4>4. req' = [req EXCEPT ![t] = [q EXCEPT !.pc = "write", !.seen = x]]
        BY <3>4, <4>2 DEF AccountsTypeOK
      <4>. QED BY <4>3, <4>4 DEF AccountsTypeOK
    <3>. QED BY <2>1, <3>3, <3>4 DEF CheckRole
  <2>2. CASE CheckInvitation(t)
    <3>1. q.pc = "check" /\ q.op = "invite"
      BY <2>2 DEF CheckInvitation
    <3>2. q.actor \in User /\ q.of \in User /\ q.to \in Role
      BY <1>0, <3>1, CheckKind
    <3>3. CASE req' = [req EXCEPT ![t] = Idle]
      BY <1>0, <3>3 DEF AccountsTypeOK
    <3>4. ASSUME NEW x \in PendingOf(q.of) \union {Null},
                 req' = [req EXCEPT ![t].pc = "write", ![t].seen = x]
          PROVE  req' \in [Thread -> Request]
      <4>1. x \in Nat \union {Null}
        BY DEF PendingOf, AccountsTypeOK
      <4>2. [q EXCEPT !.pc = "write", !.seen = x] \in Request
        BY <1>0, <3>1, <3>2, <4>1 DEF Request, Idle
      <4>3. req' = [req EXCEPT ![t] = [q EXCEPT !.pc = "write", !.seen = x]]
        BY <3>4 DEF AccountsTypeOK
      <4>. QED BY <4>2, <4>3 DEF AccountsTypeOK
    <3>. QED BY <2>2, <3>3, <3>4 DEF CheckInvitation
  <2>3. CASE CheckStatus(t)
    <3>1. q.pc = "check" /\ q.op \in {"revoke", "list"}
      BY <2>3 DEF CheckStatus
    <3>4. Closing(q) \in SUBSET Nat
      BY DEF Closing, AccountsTypeOK
    <3>5. PICK S : S = Closing(q)
      OBVIOUS
    <3>6. [q EXCEPT !.pc = "write", !.of = S] \in Request
      BY <1>0, <3>1, <3>5, <3>4, ClosingKind
    <3>7. \/ req' = [req EXCEPT ![t] = Idle]
          \/ req' = [req EXCEPT ![t] = [q EXCEPT !.pc = "write", !.of = S]]
      BY <2>3, <3>5 DEF CheckStatus
    <3>. QED BY <1>0, <3>6, <3>7 DEF AccountsTypeOK
  <2>. QED BY <2>1, <2>2, <2>3
<1>3. AccountsTypeOK'
  BY <1>1, <1>2 DEF AccountsTypeOK, rows, histories
<1>4. Stay
  BY <1>1 DEF Stay, HasAccount, Member, rows
<1>5. RowsRefer'
  BY <1>1 DEF RowsRefer, HasAccount, Member, rows
<1>. QED BY <1>3, <1>4, <1>5

LEMMA TeamStays ==
  ASSUME AccountsTypeOK, RowsRefer, NEW t \in Thread, Refers(req[t]), WriteRole(t) \/ UpdateStatus(t)
  PROVE  AccountsTypeOK' /\ Stay /\ RowsRefer'
<1>. DEFINE q == req[t]
<1>1. q \in Request
  BY DEF AccountsTypeOK
<1>2. req' \in [Thread -> Request] /\ requests' \in Nat
  BY Ending DEF WriteRole, UpdateStatus
<1>3. CASE WriteRole(t)
  <2>1. q.of \in User /\ q.to \in Role /\ Member(q.of)
    BY <1>1, <1>3, WriteKind DEF WriteRole, Refers
  <2>2. PICK r : r = IF q.to = q.seen THEN role[q.of] ELSE q.to
    OBVIOUS
  <2>3. r \in Role /\ role' = [role EXCEPT ![q.of] = r]
    BY <1>3, <2>1, <2>2 DEF WriteRole, Member, AccountsTypeOK
  <2>4. UNCHANGED <<account, invite, session, token, failures, past, members, clobbered, doubled, late>> /\ overlapped' \in BOOLEAN
    BY <1>3 DEF WriteRole, AccountsTypeOK
  <2>5. role' \in [User -> Role \union {Null}] /\ \A u \in User : Member(u) <=> role'[u] # Null
    BY <2>1, <2>3, AccountsAssumption DEF Member, AccountsTypeOK
  <2>6. AccountsTypeOK'
    BY <1>2, <2>4, <2>5 DEF AccountsTypeOK
  <2>7. Stay
    BY <2>4, <2>5 DEF Stay, HasAccount
  <2>8. RowsRefer'
    BY <2>4, <2>5 DEF RowsRefer, HasAccount, Member
  <2>. QED BY <2>6, <2>7, <2>8
<1>4. CASE UpdateStatus(t)
  <2>1. q.of \in User
    BY <1>1, <1>4, CheckKind DEF UpdateStatus
  <2>2. \/ Member(q.of) /\ account' = [account EXCEPT ![q.of].active = (q.to = "active")]
        \/ UNCHANGED account
    BY <1>4 DEF UpdateStatus
  <2>3. UNCHANGED <<role, invite, session, token, failures, past, histories>>
    BY <1>4 DEF UpdateStatus
  <2>4. account' \in [User -> Account \union {Null}] /\ \A u \in User : HasAccount(u) <=> account'[u] # Null
    <3>1. CASE UNCHANGED account
      BY <3>1 DEF HasAccount, AccountsTypeOK
    <3>2. CASE Member(q.of) /\ account' = [account EXCEPT ![q.of].active = (q.to = "active")]
      <4>1. account[q.of] \in Account
        BY <2>1, <3>2 DEF RowsRefer, HasAccount, AccountsTypeOK
      <4>2. PICK x \in BOOLEAN : x = (q.to = "active")
        OBVIOUS
      <4>3. PICK a : a = [account[q.of] EXCEPT !.active = x]
        OBVIOUS
      <4>4. a \in Account
        BY <4>1, <4>2, <4>3 DEF Account
      <4>5. account' = [account EXCEPT ![q.of] = a]
        BY <3>2, <4>2, <4>3
      <4>. QED BY <2>1, <4>1, <4>4, <4>5, AccountsAssumption DEF HasAccount, AccountsTypeOK
    <3>. QED BY <2>2, <3>1, <3>2
  <2>5. AccountsTypeOK'
    BY <1>2, <2>3, <2>4 DEF AccountsTypeOK, histories
  <2>6. Stay
    BY <2>3, <2>4 DEF Stay, Member
  <2>7. RowsRefer'
    <3>1. \A u \in User : Member(u)' \/ failures'[u] > 0 => HasAccount(u)'
      BY <2>3, <2>4 DEF RowsRefer, HasAccount, Member
    <3>2. \A s \in DOMAIN session' : HasAccount(session[s].user)'
      BY <2>3, <2>4, Typed DEF RowsRefer, HasAccount
    <3>3. \A k \in DOMAIN token' : HasAccount(token[k].user)'
      BY <2>3, <2>4, Typed DEF RowsRefer, HasAccount
    <3>. QED BY <3>1, <3>2, <3>3 DEF RowsRefer
  <2>. QED BY <2>5, <2>6, <2>7
<1>. QED BY <1>3, <1>4

\* The statuses of invitations change in place, and the rows stay.
LEMMA StatusWritten ==
  ASSUME AccountsTypeOK, NEW S \in SUBSET (DOMAIN invite), NEW v \in {"accepted", "revoked", "expired"}
  PROVE  LET f == [i \in DOMAIN invite |-> IF i \in S THEN [invite[i] EXCEPT !.status = v] ELSE invite[i]] IN
         /\ f \in [DOMAIN invite -> InviteRow]
         /\ \A i \in DOMAIN invite : /\ f[i].email = invite[i].email /\ f[i].role = invite[i].role
                                     /\ f[i].status = IF i \in S THEN v ELSE invite[i].status
<1>1. \A i \in DOMAIN invite : invite[i] \in InviteRow
  BY DEF AccountsTypeOK
<1>2. \A i \in DOMAIN invite :
        LET x == [invite[i] EXCEPT !.status = v] IN
        x \in InviteRow /\ x.email = invite[i].email /\ x.role = invite[i].role /\ x.status = v
  BY <1>1 DEF InviteRow
<1>. QED BY <1>1, <1>2

LEMMA InviteStays ==
  ASSUME AccountsTypeOK, RowsRefer, NEW t \in Thread, Refers(req[t]), WriteInvitation(t) \/ WriteStatus(t)
  PROVE  AccountsTypeOK' /\ Stay /\ RowsRefer'
<1>. DEFINE q == req[t]
<1>1. q \in Request
  BY DEF AccountsTypeOK
<1>2. req' \in [Thread -> Request] /\ requests' \in Nat
  BY Ending DEF WriteInvitation, WriteStatus
<1>3. UNCHANGED <<account, role, session, token, failures, past, members, overlapped, late>>
  BY DEF WriteInvitation, WriteStatus
<1>4. /\ invite' \in Seq(InviteRow) /\ clobbered' \subseteq Nat /\ doubled' \subseteq User
      /\ \A i \in DOMAIN invite : i \in DOMAIN invite' /\ invite'[i].email = invite[i].email
  <2>1. CASE WriteInvitation(t)
    <3>1. q.of \in User /\ q.to \in Role /\ q.seen \in DOMAIN invite \union {Null}
      BY <1>1, <2>1, WriteKind DEF WriteInvitation, Refers
    <3>2. PICK S \in SUBSET (DOMAIN invite) : S = {i \in DOMAIN invite : i = q.seen}
      OBVIOUS
    <3>3. PICK f : f = [i \in DOMAIN invite |-> IF i \in S THEN [invite[i] EXCEPT !.status = "revoked"] ELSE invite[i]]
      OBVIOUS
    <3>4. f \in [DOMAIN invite -> InviteRow] /\ \A i \in DOMAIN invite : f[i].email = invite[i].email
      BY <3>3, StatusWritten
    <3>5. PICK x : x = [email |-> q.of, role |-> q.to, status |-> "pending", past |-> FALSE]
      OBVIOUS
    <3>6. x \in InviteRow
      BY <3>1, <3>5 DEF InviteRow
    <3>7. invite' = Append(f, x)
      <4>1. f = [i \in DOMAIN invite |-> IF i = q.seen THEN [invite[i] EXCEPT !.status = "revoked"] ELSE invite[i]]
        BY <3>2, <3>3
      <4>. QED BY <2>1, <3>5, <4>1 DEF WriteInvitation
    <3>8. invite \in Seq(InviteRow)
      BY DEF AccountsTypeOK
    <3>9. /\ invite' \in Seq(InviteRow)
          /\ \A i \in DOMAIN invite : i \in DOMAIN invite' /\ invite'[i] = f[i]
      BY <3>4, <3>6, <3>7, <3>8, Extended
    <3>10. clobbered' \subseteq Nat
      <4>1. clobbered' = clobbered \/ (q.seen \in DOMAIN invite /\ clobbered' = clobbered \union {q.seen})
        <5>1. IF q.seen = Null THEN UNCHANGED clobbered ELSE Clobber(q.seen, "pending")
          BY <2>1 DEF WriteInvitation
        <5>. QED BY <3>1, <5>1 DEF Clobber
      <4>2. clobbered \subseteq Nat /\ \A i \in DOMAIN invite : i \in Nat
        BY Typed DEF AccountsTypeOK
      <4>. QED BY <4>1, <4>2
    <3>11. doubled' \subseteq User
      BY <2>1, <3>1 DEF WriteInvitation, AccountsTypeOK
    <3>. QED BY <3>4, <3>9, <3>10, <3>11
  <2>2. CASE WriteStatus(t)
    <3>1. q.of \in SUBSET Nat
      BY <1>1, <2>2, WriteKind DEF WriteStatus
    <3>2. PICK v : v = IF q.op = "revoke" THEN "revoked" ELSE "expired"
      OBVIOUS
    <3>3. PICK S \in SUBSET (DOMAIN invite) : S = {i \in DOMAIN invite : i \in q.of}
      OBVIOUS
    <3>4. invite' = [i \in DOMAIN invite |-> IF i \in S THEN [invite[i] EXCEPT !.status = v] ELSE invite[i]]
      BY <2>2, <3>2, <3>3 DEF WriteStatus
    <3>5. v \in {"accepted", "revoked", "expired"}
      BY <3>2
    <3>6. invite' \in [DOMAIN invite -> InviteRow] /\ \A i \in DOMAIN invite : invite'[i].email = invite[i].email
      BY <3>4, <3>5, StatusWritten
    <3>7. invite' \in Seq(InviteRow)
      BY <3>6 DEF AccountsTypeOK
    <3>8. clobbered' \subseteq Nat /\ doubled' \subseteq User
      BY <2>2, <3>1 DEF WriteStatus, AccountsTypeOK
    <3>. QED BY <3>6, <3>7, <3>8
  <2>. QED BY <2>1, <2>2
<1>5. AccountsTypeOK'
  BY <1>2, <1>3, <1>4 DEF AccountsTypeOK
<1>6. Stay
  BY <1>3, <1>4 DEF Stay, HasAccount, Member
<1>7. RowsRefer'
  BY <1>3 DEF RowsRefer, HasAccount, Member
<1>. QED BY <1>5, <1>6, <1>7

LEMMA NewRows ==
  /\ NewAccount \in Account /\ NewAccount # Null
  /\ \A u \in User, p \in Nat : NewSession(u, p) \in SessionRow
<1>1. NewAccount \in Account
  BY DEF NewAccount, Account
<1>2. \A u \in User, p \in Nat : NewSession(u, p) \in SessionRow
  BY DEF NewSession, SessionRow
<1>. QED BY <1>1, <1>2, AccountsAssumption

LEMMA AcceptStays ==
  ASSUME AccountsTypeOK, RowsRefer, NEW t \in Thread, Refers(req[t]), Accept(t)
  PROVE  AccountsTypeOK' /\ Stay /\ RowsRefer'
<1>. DEFINE q == req[t]
<1>1. q \in Request /\ q.pc = "write" /\ q.op = "accept"
  BY DEF AccountsTypeOK, Accept
<1>2. q.of \in DOMAIN invite /\ q.seen \in {"member", "stranger", "user"}
  BY <1>1, WriteKind DEF Refers
<1>3. PICK i \in DOMAIN invite : i = q.of
  BY <1>2
<1>4. PICK u \in User, r \in Role : u = invite[i].email /\ r = invite[i].role
  BY Typed
<1>5. /\ q.seen = "user" => HasAccount(u)
      /\ q.seen = "member" => Member(u)
  BY <1>1, <1>3, <1>4 DEF Refers
<1>6. req' \in [Thread -> Request] /\ requests' \in Nat
  BY Ending DEF Accept
<1>7. UNCHANGED <<session, token, failures, past, members, overlapped, doubled, late>>
  BY DEF Accept
<1>8. CASE UNCHANGED <<role, account, invite, clobbered>>
  <2>1. AccountsTypeOK'
    BY <1>6, <1>7, <1>8 DEF AccountsTypeOK
  <2>2. Stay
    BY <1>7, <1>8 DEF Stay, HasAccount, Member
  <2>3. RowsRefer'
    BY <1>7, <1>8 DEF RowsRefer, HasAccount, Member
  <2>. QED BY <2>1, <2>2, <2>3
<1>9. CASE /\ q.seen = "member" \/ ~Member(u)
           /\ q.seen = "stranger" => account[u] = Null
           /\ role' = [role EXCEPT ![u] = IF q.seen = "member" THEN @ ELSE r]
           /\ account' = IF q.seen # "stranger" THEN account ELSE [account EXCEPT ![u] = NewAccount]
           /\ invite' = Accepted(i)
           /\ Clobber(i, "pending")
  <2>1. /\ role' \in [User -> Role \union {Null}]
        /\ \A x \in User : Member(x) => role'[x] # Null
        /\ \A x \in User : role'[x] # Null => Member(x) \/ x = u
    BY <1>4, <1>9, AccountsAssumption DEF AccountsTypeOK, Member
  <2>2. /\ account' \in [User -> Account \union {Null}]
        /\ \A x \in User : HasAccount(x) => account'[x] # Null
    <3>1. CASE q.seen # "stranger"
      BY <1>9, <3>1 DEF AccountsTypeOK, HasAccount
    <3>2. CASE q.seen = "stranger"
      BY <1>4, <1>9, <3>2, NewRows DEF AccountsTypeOK, HasAccount
    <3>. QED BY <3>1, <3>2
  <2>3. account'[u] # Null
    <3>1. CASE q.seen = "stranger"
      BY <1>4, <1>9, <3>1, NewRows DEF AccountsTypeOK
    <3>2. HasAccount(u) => account'[u] # Null
      BY <2>2, <1>4
    <3>. QED BY <1>2, <1>4, <1>5, <3>1, <3>2 DEF RowsRefer
  <2>4. /\ invite' \in Seq(InviteRow)
        /\ \A x \in DOMAIN invite : x \in DOMAIN invite' /\ invite'[x].email = invite[x].email
    <3>1. invite' = [x \in DOMAIN invite |-> IF x \in {i} THEN [invite[x] EXCEPT !.status = "accepted"] ELSE invite[x]]
      BY <1>3, <1>9 DEF Accepted, AccountsTypeOK
    <3>2. {i} \in SUBSET (DOMAIN invite) /\ "accepted" \in {"accepted", "revoked", "expired"}
      BY <1>3
    <3>3. invite' \in [DOMAIN invite -> InviteRow] /\ \A x \in DOMAIN invite : invite'[x].email = invite[x].email
      BY <3>1, <3>2, StatusWritten
    <3>. QED BY <3>3 DEF AccountsTypeOK
  <2>5. clobbered' \subseteq Nat
    <3>1. clobbered \subseteq Nat /\ i \in Nat
      BY <1>3, Typed DEF AccountsTypeOK
    <3>. QED BY <1>9, <3>1 DEF Clobber
  <2>6. AccountsTypeOK'
    BY <1>6, <1>7, <2>1, <2>2, <2>4, <2>5 DEF AccountsTypeOK
  <2>7. Stay
    BY <1>7, <2>1, <2>2, <2>4 DEF Stay
  <2>8. RowsRefer'
    <3>1. \A x \in User : role'[x] # Null \/ failures'[x] > 0 => account'[x] # Null
      BY <1>4, <1>7, <2>1, <2>2, <2>3 DEF RowsRefer
    <3>2. \A s \in DOMAIN session' : account'[session'[s].user] # Null
      BY <1>7, <2>2, Typed DEF RowsRefer
    <3>3. \A k \in DOMAIN token' : account'[token'[k].user] # Null
      BY <1>7, <2>2, Typed DEF RowsRefer
    <3>. QED BY <3>1, <3>2, <3>3 DEF RowsRefer, HasAccount, Member
  <2>. QED BY <2>6, <2>7, <2>8
<1>. QED BY <1>3, <1>4, <1>8, <1>9 DEF Accept

\* One account is written, or made.
LEMMA AccountWritten ==
  ASSUME AccountsTypeOK, NEW u \in User, NEW a \in Account, account' = [account EXCEPT ![u] = a]
  PROVE  /\ account' \in [User -> Account \union {Null}]
         /\ \A x \in User : HasAccount(x) \/ x = u => account'[x] # Null
  BY AccountsAssumption DEF AccountsTypeOK, HasAccount

\* Sessions change state or expire in place, and one may be added.
LEMMA SessionsWritten ==
  ASSUME AccountsTypeOK, NEW v \in {"revoked", "deleted"}, NEW S \in SUBSET (DOMAIN session)
  PROVE  LET f == [s \in DOMAIN session |-> IF s \in S THEN [session[s] EXCEPT !.state = v] ELSE session[s]] IN
         /\ f \in [DOMAIN session -> SessionRow]
         /\ \A s \in DOMAIN session : /\ f[s].user = session[s].user /\ f[s].password = session[s].password
                                      /\ f[s].state = IF s \in S THEN v ELSE session[s].state
<1>1. \A s \in DOMAIN session : session[s] \in SessionRow
  BY Typed
<1>2. \A s \in DOMAIN session :
        LET x == [session[s] EXCEPT !.state = v] IN
        x \in SessionRow /\ x.user = session[s].user /\ x.password = session[s].password /\ x.state = v
  BY <1>1 DEF SessionRow
<1>. QED BY <1>1, <1>2

LEMMA SessionCreated ==
  ASSUME AccountsTypeOK, NEW u \in User, NEW p \in Nat, session' = Created(u, p)
  PROVE  /\ session' \in Seq(SessionRow)
         /\ DOMAIN session' = DOMAIN session \union {Len(session) + 1}
         /\ Len(session) + 1 \in Nat \ DOMAIN session
         /\ session'[Len(session) + 1] = NewSession(u, p)
         /\ \A s \in DOMAIN session : /\ session'[s].user = session[s].user /\ session'[s].password = session[s].password
                                      /\ session'[s].state = "live" => session[s].state = "live"
<1>1. PICK S \in SUBSET (DOMAIN session) : S = {s \in DOMAIN session : session[s].past}
  OBVIOUS
<1>2. PICK f : f = [s \in DOMAIN session |-> IF s \in S THEN [session[s] EXCEPT !.state = "deleted"] ELSE session[s]]
  OBVIOUS
<1>3. /\ f \in [DOMAIN session -> SessionRow]
      /\ \A s \in DOMAIN session : /\ f[s].user = session[s].user /\ f[s].password = session[s].password
                                   /\ f[s].state = IF s \in S THEN "deleted" ELSE session[s].state
  BY <1>2, SessionsWritten
<1>4. session' = Append(f, NewSession(u, p))
  <2>1. f = [s \in DOMAIN session |-> IF session[s].past THEN [session[s] EXCEPT !.state = "deleted"] ELSE session[s]]
    BY <1>1, <1>2
  <2>. QED BY <2>1 DEF Created
<1>5. session \in Seq(SessionRow) /\ NewSession(u, p) \in SessionRow
  BY NewRows DEF AccountsTypeOK
<1>6. /\ session' \in Seq(SessionRow)
      /\ DOMAIN session' = DOMAIN session \union {Len(session) + 1}
      /\ Len(session) + 1 \in Nat \ DOMAIN session
      /\ session'[Len(session) + 1] = NewSession(u, p)
      /\ \A s \in DOMAIN session : session'[s] = f[s]
  BY <1>3, <1>4, <1>5, Extended
<1>. QED BY <1>3, <1>6

\* What RowsRefer needs when accounts only grow: members, failures, sessions and
\* tokens are of users who have one.
LEMMA ReferKept ==
  ASSUME AccountsTypeOK, RowsRefer,
         \A x \in User : HasAccount(x) => account'[x] # Null,
         \A x \in User : role'[x] # Null \/ failures'[x] > 0 => role[x] # Null \/ failures[x] > 0 \/ account'[x] # Null,
         \A s \in DOMAIN session' : \/ s \in DOMAIN session /\ session'[s].user = session[s].user
                                    \/ account'[session'[s].user] # Null,
         \A k \in DOMAIN token' : \/ k \in DOMAIN token /\ token'[k].user = token[k].user
                                  \/ account'[token'[k].user] # Null
  PROVE  RowsRefer'
<1>1. \A x \in User : role'[x] # Null \/ failures'[x] > 0 => account'[x] # Null
  BY DEF RowsRefer, Member
<1>2. \A s \in DOMAIN session' : account'[session'[s].user] # Null
  BY Typed DEF RowsRefer
<1>3. \A k \in DOMAIN token' : account'[token'[k].user] # Null
  BY Typed DEF RowsRefer
<1>. QED BY <1>1, <1>2, <1>3 DEF RowsRefer, HasAccount, Member

LEMMA LoginStays ==
  ASSUME AccountsTypeOK, RowsRefer, NEW t \in Thread, Refers(req[t]), FailLogin(t) \/ EnterSession(t)
  PROVE  AccountsTypeOK' /\ Stay /\ RowsRefer'
<1>. DEFINE q == req[t]
<1>1. q.pc \in {"enter", "fail"} /\ q \in Request
  BY DEF FailLogin, EnterSession, AccountsTypeOK
<1>2. q.of \in User /\ q.to \in Nat /\ q.seen \in Nat /\ HasAccount(q.of)
  BY <1>1, LoginKind DEF Refers
<1>3. PICK u \in User : u = q.of
  BY <1>2
<1>4. account[u] \in Account
  BY <1>2, <1>3, Typed
<1>5. req' \in [Thread -> Request] /\ requests' \in Nat
  BY Ending DEF FailLogin, EnterSession
<1>6. UNCHANGED <<role, invite, token, past, members, overlapped, clobbered, doubled>>
  BY DEF FailLogin, EnterSession, histories
<1>7. CASE FailLogin(t)
  <2>1. PICK b \in BOOLEAN : b = (account[u].locked \/ q.seen + 1 >= MaxAttempts)
    OBVIOUS
  <2>2. PICK a : a = [account[u] EXCEPT !.locked = b]
    OBVIOUS
  <2>3. a \in Account
    BY <1>4, <2>1, <2>2 DEF Account
  <2>4. account' = [account EXCEPT ![u] = a]
    BY <1>3, <1>7, <2>1, <2>2 DEF FailLogin
  <2>5. /\ account' \in [User -> Account \union {Null}]
        /\ \A x \in User : HasAccount(x) \/ x = u => account'[x] # Null
    BY <2>3, <2>4, AccountWritten
  <2>6. failures' = [failures EXCEPT ![u] = @ + 1] /\ UNCHANGED <<session, late>>
    BY <1>3, <1>7 DEF FailLogin, histories
  <2>7. failures' \in [User -> Nat] /\ \A x \in User : failures'[x] > 0 => failures[x] > 0 \/ x = u
    BY <1>3, <2>6 DEF AccountsTypeOK
  <2>8. AccountsTypeOK'
    BY <1>5, <1>6, <2>5, <2>6, <2>7 DEF AccountsTypeOK
  <2>9. Stay
    BY <1>6, <2>5 DEF Stay, HasAccount, Member
  <2>10. RowsRefer'
    BY <1>6, <2>5, <2>6, <2>7, ReferKept
  <2>. QED BY <2>8, <2>9, <2>10
<1>8. CASE EnterSession(t)
  <2>1. PICK a : a = [account[u] EXCEPT !.locked = FALSE]
    OBVIOUS
  <2>2. a \in Account
    BY <1>4, <2>1 DEF Account
  <2>3. account' = [account EXCEPT ![u] = a]
    BY <1>3, <1>8, <2>1 DEF EnterSession
  <2>4. /\ account' \in [User -> Account \union {Null}]
        /\ \A x \in User : HasAccount(x) \/ x = u => account'[x] # Null
    BY <2>2, <2>3, AccountWritten
  <2>5. PICK p \in Nat : p = q.to
    BY <1>2
  <2>6. session' = Created(u, p) /\ UNCHANGED failures
    BY <1>3, <1>8, <2>5 DEF EnterSession
  <2>7. /\ session' \in Seq(SessionRow)
        /\ DOMAIN session' = DOMAIN session \union {Len(session) + 1}
        /\ Len(session) + 1 \in Nat
        /\ session'[Len(session) + 1].user = u
        /\ \A s \in DOMAIN session : session'[s].user = session[s].user
    <3>1. session' = Created(u, p)
      BY <2>6
    <3>2. /\ session' \in Seq(SessionRow)
          /\ DOMAIN session' = DOMAIN session \union {Len(session) + 1}
          /\ Len(session) + 1 \in Nat \ DOMAIN session
          /\ session'[Len(session) + 1] = NewSession(u, p)
          /\ \A s \in DOMAIN session : /\ session'[s].user = session[s].user /\ session'[s].password = session[s].password
                                       /\ session'[s].state = "live" => session[s].state = "live"
      BY <3>1, SessionCreated
    <3>3. NewSession(u, p).user = u
      BY DEF NewSession
    <3>4. session'[Len(session) + 1].user = u
      BY <3>2, <3>3
    <3>5. Len(session) + 1 \in Nat
      BY <3>2
    <3>6. \A s \in DOMAIN session : session'[s].user = session[s].user
      BY <3>2
    <3>. QED BY <3>2, <3>4, <3>5, <3>6
  <2>8. late' \subseteq Nat
    BY <1>8, <2>7 DEF EnterSession, AccountsTypeOK
  <2>9. AccountsTypeOK'
    BY <1>5, <1>6, <2>4, <2>6, <2>7, <2>8 DEF AccountsTypeOK
  <2>10. Stay
    BY <1>6, <2>4 DEF Stay, HasAccount, Member
  <2>11. RowsRefer'
    <3>1. \A s \in DOMAIN session' : \/ s \in DOMAIN session /\ session'[s].user = session[s].user
                                     \/ account'[session'[s].user] # Null
      BY <2>4, <2>7
    <3>. QED BY <1>6, <2>4, <2>6, <3>1, ReferKept
  <2>. QED BY <2>9, <2>10, <2>11
<1>. QED BY <1>7, <1>8

LEMMA ResetStays ==
  ASSUME AccountsTypeOK, RowsRefer, NEW t \in Thread, Refers(req[t]), ConfirmReset(t)
  PROVE  AccountsTypeOK' /\ Stay /\ RowsRefer'
<1>1. req[t].of \in DOMAIN token
  BY DEF ConfirmReset, Refers
<1>2. PICK k \in DOMAIN token : k = req[t].of
  BY <1>1
<1>3. PICK u \in User : u = token[k].user
  BY Typed
<1>4. account[u] \in Account
  BY <1>3, Typed DEF RowsRefer
<1>5. req' \in [Thread -> Request] /\ requests' \in Nat
  BY Ending DEF ConfirmReset
<1>6. UNCHANGED <<role, invite, failures, past, histories>>
  BY DEF ConfirmReset
<1>7. CASE UNCHANGED <<account, token, session>>
  <2>1. AccountsTypeOK'
    BY <1>5, <1>6, <1>7 DEF AccountsTypeOK, histories
  <2>2. Stay
    BY <1>6, <1>7 DEF Stay, HasAccount, Member
  <2>3. RowsRefer'
    BY <1>6, <1>7 DEF RowsRefer, HasAccount, Member
  <2>. QED BY <2>1, <2>2, <2>3
<1>8. CASE /\ account' = [account EXCEPT ![u] = [active |-> @.active, password |-> @.password + 1, locked |-> FALSE]]
           /\ token' = [token EXCEPT ![k].state = "used"]
           /\ session' = EndSessions(u)
  <2>1. PICK a : a = [active |-> account[u].active, password |-> account[u].password + 1, locked |-> FALSE]
    OBVIOUS
  <2>2. a \in Account
    BY <1>4, <2>1 DEF Account
  <2>3. account' = [account EXCEPT ![u] = a]
    BY <1>3, <1>8, <2>1 DEF AccountsTypeOK
  <2>4. /\ account' \in [User -> Account \union {Null}]
        /\ \A x \in User : HasAccount(x) \/ x = u => account'[x] # Null
    BY <2>2, <2>3, AccountWritten
  <2>5. /\ token' \in Seq(TokenRow) /\ DOMAIN token' = DOMAIN token
        /\ \A x \in DOMAIN token : token'[x].user = token[x].user
    <3>1. [token[k] EXCEPT !.state = "used"] \in TokenRow /\ [token[k] EXCEPT !.state = "used"].user = token[k].user
      BY Typed DEF TokenRow
    <3>2. PICK y \in TokenRow : y = [token[k] EXCEPT !.state = "used"]
      BY <3>1
    <3>3. token' = [token EXCEPT ![k] = y] /\ token \in Seq(TokenRow)
      BY <1>8, <3>2 DEF AccountsTypeOK
    <3>. QED BY <3>1, <3>2, <3>3
  <2>6. /\ session' \in Seq(SessionRow) /\ DOMAIN session' = DOMAIN session
        /\ \A s \in DOMAIN session : session'[s].user = session[s].user
    <3>1. PICK S \in SUBSET (DOMAIN session) : S = {s \in DOMAIN session : session[s].user = u}
      OBVIOUS
    <3>2. session' = [s \in DOMAIN session |-> IF s \in S THEN [session[s] EXCEPT !.state = "deleted"] ELSE session[s]]
      BY <1>8, <3>1 DEF EndSessions
    <3>3. session' \in [DOMAIN session -> SessionRow] /\ \A s \in DOMAIN session : session'[s].user = session[s].user
      BY <3>2, SessionsWritten
    <3>. QED BY <3>3 DEF AccountsTypeOK
  <2>7. AccountsTypeOK'
    BY <1>5, <1>6, <2>4, <2>5, <2>6 DEF AccountsTypeOK, histories
  <2>8. Stay
    BY <1>6, <2>4, <2>5 DEF Stay, HasAccount, Member
  <2>9. RowsRefer'
    BY <1>6, <2>4, <2>5, <2>6, ReferKept
  <2>. QED BY <2>7, <2>8, <2>9
<1>. QED BY <1>2, <1>3, <1>7, <1>8 DEF ConfirmReset

LEMMA RegisterStays ==
  ASSUME AccountsTypeOK, RowsRefer, NEW u \in User, Register(u)
  PROVE  AccountsTypeOK' /\ Stay /\ RowsRefer'
<1>1. UNCHANGED <<role, invite, token, failures, req, past, histories>> /\ requests' = requests + 1
  BY DEF Register
<1>2. PICK a \in Account : a = NewAccount
  BY NewRows
<1>3. /\ account' \in [User -> Account \union {Null}]
      /\ \A x \in User : HasAccount(x) \/ x = u => account'[x] # Null
  BY <1>2, AccountWritten DEF Register
<1>4. PICK p \in Nat : p = NewAccount.password
  BY DEF NewAccount
<1>5. session' = Created(u, p)
  BY <1>4 DEF Register
<1>6. /\ session' \in Seq(SessionRow)
      /\ DOMAIN session' = DOMAIN session \union {Len(session) + 1}
      /\ Len(session) + 1 \in Nat \ DOMAIN session
      /\ session'[Len(session) + 1] = NewSession(u, p)
      /\ \A s \in DOMAIN session : /\ session'[s].user = session[s].user /\ session'[s].password = session[s].password
                                   /\ session'[s].state = "live" => session[s].state = "live"
  BY <1>5, SessionCreated
<1>7. NewSession(u, p).user = u
  BY DEF NewSession
<1>8. AccountsTypeOK'
  BY <1>1, <1>3, <1>6 DEF AccountsTypeOK, histories
<1>9. Stay
  BY <1>1, <1>3 DEF Stay, HasAccount, Member
<1>10. \A s \in DOMAIN session' : \/ s \in DOMAIN session /\ session'[s].user = session[s].user
                                  \/ account'[session'[s].user] # Null
  BY <1>3, <1>6, <1>7
<1>11. RowsRefer'
  BY <1>1, <1>3, <1>10, ReferKept
<1>. QED BY <1>8, <1>9, <1>11

LEMMA ResetRequestStays ==
  ASSUME AccountsTypeOK, RowsRefer, NEW u \in User, RequestReset(u)
  PROVE  AccountsTypeOK' /\ Stay /\ RowsRefer'
<1>1. UNCHANGED <<account, role, invite, session, failures, req, past, histories>> /\ requests' = requests + 1
  BY DEF RequestReset
<1>2. PICK x \in TokenRow : x = [user |-> u, state |-> "unused", past |-> FALSE]
  BY DEF TokenRow
<1>3. PICK f : f = [k \in DOMAIN token |-> IF token[k].user = u /\ token[k].state = "unused"
                                         THEN [token[k] EXCEPT !.state = "deleted"] ELSE token[k]]
  OBVIOUS
<1>4. \A k \in DOMAIN token : [token[k] EXCEPT !.state = "deleted"] \in TokenRow
                            /\ [token[k] EXCEPT !.state = "deleted"].user = token[k].user
  BY Typed DEF TokenRow
<1>5. f \in [DOMAIN token -> TokenRow] /\ \A k \in DOMAIN token : f[k].user = token[k].user
  BY <1>3, <1>4, Typed
<1>6. token' = Append(f, x) /\ token \in Seq(TokenRow)
  BY <1>2, <1>3 DEF RequestReset, Issued, AccountsTypeOK
<1>7. /\ Append(f, x) \in Seq(TokenRow)
      /\ DOMAIN Append(f, x) = DOMAIN token \union {Len(token) + 1}
      /\ \A k \in DOMAIN token : Append(f, x)[k] = f[k]
      /\ Append(f, x)[Len(token) + 1] = x
  BY <1>5, <1>6, Extended
<1>8. x.user = u /\ account[u] # Null
  BY <1>2 DEF RequestReset
<1>9. AccountsTypeOK'
  BY <1>1, <1>6, <1>7 DEF AccountsTypeOK, histories
<1>10. Stay
  BY <1>1, <1>5, <1>6, <1>7 DEF Stay, HasAccount, Member
<1>11. \A k \in DOMAIN token' : \/ k \in DOMAIN token /\ token'[k].user = token[k].user
                                \/ account'[token'[k].user] # Null
  BY <1>1, <1>5, <1>6, <1>7, <1>8
<1>12. RowsRefer'
  BY <1>1, <1>11, ReferKept DEF HasAccount
<1>. QED BY <1>9, <1>10, <1>12

LEMMA FailuresStay ==
  ASSUME AccountsTypeOK, RowsRefer, NEW u \in User, ExpireFailures(u)
  PROVE  AccountsTypeOK' /\ Stay /\ RowsRefer'
<1>1. UNCHANGED <<role, invite, session, token, req, requests, histories>> /\ past' \in Nat
  BY DEF ExpireFailures, CountPast, AccountsTypeOK
<1>2. failures' = [failures EXCEPT ![u] = 0] /\ account[u] \in Account
  BY Typed DEF ExpireFailures, RowsRefer
<1>3. PICK a : a = [account[u] EXCEPT !.locked = FALSE]
  OBVIOUS
<1>4. a \in Account
  BY <1>2, <1>3 DEF Account
<1>5. account' = [account EXCEPT ![u] = a]
  BY <1>3 DEF ExpireFailures
<1>6. /\ account' \in [User -> Account \union {Null}]
      /\ \A x \in User : HasAccount(x) \/ x = u => account'[x] # Null
  BY <1>4, <1>5, AccountWritten
<1>7. failures' \in [User -> Nat] /\ \A x \in User : failures'[x] > 0 => failures[x] > 0
  BY <1>2 DEF AccountsTypeOK
<1>8. AccountsTypeOK'
  BY <1>1, <1>6, <1>7 DEF AccountsTypeOK, histories
<1>9. Stay
  BY <1>1, <1>6 DEF Stay, HasAccount, Member
<1>10. RowsRefer'
  BY <1>1, <1>6, <1>7, ReferKept
<1>. QED BY <1>8, <1>9, <1>10

\* Sessions are revoked or expire in place.
LEMMA SessionsStay ==
  ASSUME AccountsTypeOK, NEW s \in DOMAIN session, NEW all \in BOOLEAN,
         ExpireSession(s) \/ RevokeSessions(s, all)
  PROVE  /\ session' \in Seq(SessionRow) /\ DOMAIN session' = DOMAIN session
         /\ \A x \in DOMAIN session : /\ session'[x].user = session[x].user /\ session'[x].password = session[x].password
                                      /\ session'[x].state = "live" => session[x].state = "live"
         /\ UNCHANGED <<account, role, invite, token, failures, req, histories>>
         /\ requests' \in Nat /\ past' \in Nat
<1>1. /\ UNCHANGED <<account, role, invite, token, failures, req, histories>>
      /\ requests' \in Nat /\ past' \in Nat
  BY DEF ExpireSession, RevokeSessions, CountPast, AccountsTypeOK
<1>2. CASE ExpireSession(s)
  <2>1. PICK y : y = [session[s] EXCEPT !.past = TRUE]
    OBVIOUS
  <2>2. /\ y \in SessionRow /\ y.user = session[s].user /\ y.password = session[s].password /\ y.state = session[s].state
    BY <2>1, Typed DEF SessionRow
  <2>3. session' = [session EXCEPT ![s] = y] /\ session \in Seq(SessionRow)
    BY <1>2, <2>1 DEF ExpireSession, AccountsTypeOK
  <2>. QED BY <1>1, <2>2, <2>3
<1>3. CASE RevokeSessions(s, all)
  <2>1. PICK X : X = IF all THEN {x \in DOMAIN session : session[x].user = session[s].user} ELSE {s}
    OBVIOUS
  <2>2. PICK S \in SUBSET (DOMAIN session) : S = {x \in DOMAIN session : x \in X /\ session[x].state = "live"}
    OBVIOUS
  <2>3. session' = [x \in DOMAIN session |-> IF x \in S THEN [session[x] EXCEPT !.state = "revoked"] ELSE session[x]]
    BY <1>3, <2>1, <2>2 DEF RevokeSessions, Revoke
  <2>4. /\ session' \in [DOMAIN session -> SessionRow]
        /\ \A x \in DOMAIN session : /\ session'[x].user = session[x].user /\ session'[x].password = session[x].password
                                     /\ session'[x].state = IF x \in S THEN "revoked" ELSE session[x].state
    BY <2>3, SessionsWritten
  <2>5. session' \in Seq(SessionRow) /\ DOMAIN session' = DOMAIN session
    BY <2>4 DEF AccountsTypeOK
  <2>. QED BY <1>1, <2>4, <2>5
<1>. QED BY <1>2, <1>3

LEMMA ExpiryStays ==
  ASSUME AccountsTypeOK, RowsRefer,
         \/ \E i \in DOMAIN invite : ExpireInvitation(i)
         \/ \E k \in DOMAIN token : ExpireToken(k)
  PROVE  AccountsTypeOK' /\ Stay /\ RowsRefer'
<1>1. UNCHANGED <<account, role, session, failures, req, requests, histories>> /\ past' \in Nat
  BY DEF ExpireInvitation, ExpireToken, CountPast, AccountsTypeOK
<1>2. ASSUME NEW i \in DOMAIN invite, ExpireInvitation(i)
      PROVE  AccountsTypeOK' /\ Stay /\ RowsRefer'
  <2>1. PICK y : y = [invite[i] EXCEPT !.past = TRUE]
    OBVIOUS
  <2>2. y \in InviteRow /\ y.email = invite[i].email
    BY <2>1, Typed DEF InviteRow
  <2>3. invite' = [invite EXCEPT ![i] = y] /\ invite \in Seq(InviteRow) /\ UNCHANGED token
    BY <1>2, <2>1 DEF ExpireInvitation, AccountsTypeOK
  <2>4. /\ invite' \in Seq(InviteRow)
        /\ \A x \in DOMAIN invite : x \in DOMAIN invite' /\ invite'[x].email = invite[x].email
    BY <2>2, <2>3
  <2>5. AccountsTypeOK'
    BY <1>1, <2>3, <2>4 DEF AccountsTypeOK, histories
  <2>6. Stay
    BY <1>1, <2>3, <2>4 DEF Stay, HasAccount, Member
  <2>7. RowsRefer'
    BY <1>1, <2>3 DEF RowsRefer, HasAccount, Member
  <2>. QED BY <2>5, <2>6, <2>7
<1>3. ASSUME NEW k \in DOMAIN token, ExpireToken(k)
      PROVE  AccountsTypeOK' /\ Stay /\ RowsRefer'
  <2>1. PICK y : y = [token[k] EXCEPT !.past = TRUE]
    OBVIOUS
  <2>2. y \in TokenRow /\ y.user = token[k].user
    BY <2>1, Typed DEF TokenRow
  <2>3. token' = [token EXCEPT ![k] = y] /\ token \in Seq(TokenRow) /\ UNCHANGED invite
    BY <1>3, <2>1 DEF ExpireToken, AccountsTypeOK
  <2>4. /\ token' \in Seq(TokenRow) /\ DOMAIN token' = DOMAIN token
        /\ \A x \in DOMAIN token : token'[x].user = token[x].user
    BY <2>2, <2>3
  <2>5. AccountsTypeOK'
    BY <1>1, <2>3, <2>4 DEF AccountsTypeOK, histories
  <2>6. Stay
    BY <1>1, <2>3, <2>4 DEF Stay, HasAccount, Member
  <2>7. RowsRefer'
    BY <1>1, <2>4, ReferKept DEF HasAccount
  <2>. QED BY <2>5, <2>6, <2>7
<1>. QED BY <1>2, <1>3

LEMMA ApartStays ==
  ASSUME AccountsTypeOK, RowsRefer, Apart
  PROVE  AccountsTypeOK' /\ Stay /\ RowsRefer'
<1>1. ASSUME NEW s \in DOMAIN session, NEW all \in BOOLEAN, ExpireSession(s) \/ RevokeSessions(s, all)
      PROVE  AccountsTypeOK' /\ Stay /\ RowsRefer'
  <2>1. /\ session' \in Seq(SessionRow) /\ DOMAIN session' = DOMAIN session
        /\ \A x \in DOMAIN session : /\ session'[x].user = session[x].user /\ session'[x].password = session[x].password
                                     /\ session'[x].state = "live" => session[x].state = "live"
        /\ UNCHANGED <<account, role, invite, token, failures, req, histories>>
        /\ requests' \in Nat /\ past' \in Nat
    BY <1>1, SessionsStay
  <2>2. AccountsTypeOK'
    BY <2>1 DEF AccountsTypeOK, histories
  <2>3. Stay
    BY <2>1 DEF Stay, HasAccount, Member
  <2>4. RowsRefer'
    BY <2>1, ReferKept DEF HasAccount
  <2>. QED BY <2>2, <2>3, <2>4
<1>. QED BY <1>1, RegisterStays, ResetRequestStays, FailuresStay, ExpiryStays DEF Apart

\* The type, the rows that are referred to, and what stays of the rows.
LEMMA RowsStep ==
  ASSUME AccountsTypeOK, RowsRefer, \A t \in Thread : Refers(req[t]), Next
  PROVE  AccountsTypeOK' /\ Stay /\ RowsRefer'
BY Steps, RowsBegin, CheckStays, TeamStays, InviteStays, AcceptStays, LoginStays, ResetStays, ApartStays DEF GoesOn

-----------------------------------------------------------------------------
(* What a step does to the requests: one begins, is checked, or ends.      *)

Checked(q, r) ==
  /\ q.pc = "check" /\ r.pc = "write" /\ r.op = q.op
  /\ q.op = "role" => /\ r.of = q.of /\ r.to = q.to /\ Member(q.of)
                     /\ AdminGuard(q.seen, q.of, q.to) /\ OwnerGuard(q.actor, q.of, q.to)
  /\ q.op = "invite" => \/ PendingOf(r.of) = {} /\ r.seen = Null
                       \/ r.seen \in PendingOf(r.of)
  /\ q.op \in {"role", "invite", "revoke", "list"}

Turned(t, r) ==
  /\ req' = [req EXCEPT ![t] = r]
  /\ \/ r = Idle
     \/ (Begun(r) \/ Checked(req[t], r)) /\ UNCHANGED <<rows, histories>>

LEMMA RoleChecked ==
  ASSUME AccountsTypeOK, NEW t \in Thread, CheckRole(t)
  PROVE  \E r \in Request : Turned(t, r)
<1>. DEFINE q == req[t]
<1>1. q \in Request /\ q.pc = "check" /\ q.op = "role" /\ UNCHANGED <<rows, histories>>
  BY DEF CheckRole, AccountsTypeOK
<1>2. q.actor \in User /\ q.of \in User /\ q.to \in Role
  BY <1>1, CheckKind
<1>3. CASE req' = [req EXCEPT ![t] = Idle]
  BY <1>3 DEF Turned, Request
<1>4. CASE /\ Member(q.of) /\ AdminGuard(q.seen, q.of, q.to) /\ OwnerGuard(q.actor, q.of, q.to)
           /\ req' = [req EXCEPT ![t].pc = "write", ![t].seen = role[q.of]]
  <2>1. PICK x \in Role : x = role[q.of]
    BY <1>2, <1>4 DEF Member, AccountsTypeOK
  <2>. DEFINE from == [pc: {"check"}, op: {"role", "invite"}, actor: User, of: User, to: Role, seen: Managers]
  <2>2. q \in from
    BY <1>1 DEF Request, Idle
  <2>3. PICK r : r = [q EXCEPT !.pc = "write", !.seen = x]
    OBVIOUS
  <2>4. r.pc = "write" /\ r.op = q.op /\ r.of = q.of /\ r.to = q.to /\ r.seen = x
    BY <2>2, <2>3
  <2>5. req' = [req EXCEPT ![t] = r]
    BY <1>4, <2>1, <2>3 DEF AccountsTypeOK
  <2>6. r \in Request
    BY <1>1, <1>2, <2>1, <2>3 DEF Request, Idle
  <2>7. Checked(q, r)
    BY <1>1, <1>4, <2>4 DEF Checked
  <2>. QED BY <1>1, <2>5, <2>6, <2>7 DEF Turned
<1>. QED BY <1>3, <1>4 DEF CheckRole

LEMMA InvitationChecked ==
  ASSUME AccountsTypeOK, NEW t \in Thread, CheckInvitation(t)
  PROVE  \E r \in Request : Turned(t, r)
<1>. DEFINE q == req[t]
<1>1. q \in Request /\ q.pc = "check" /\ q.op = "invite" /\ UNCHANGED <<rows, histories>>
  BY DEF CheckInvitation, AccountsTypeOK
<1>2. q.actor \in User /\ q.of \in User /\ q.to \in Role
  BY <1>1, CheckKind
<1>3. CASE req' = [req EXCEPT ![t] = Idle]
  BY <1>3 DEF Turned, Request
<1>4. ASSUME NEW x, (PendingOf(q.of) = {} /\ x = Null) \/ x \in PendingOf(q.of),
             req' = [req EXCEPT ![t].pc = "write", ![t].seen = x]
      PROVE  \E r \in Request : Turned(t, r)
  <2>1. x \in Nat \union {Null}
    BY <1>4, Typed DEF PendingOf
  <2>. DEFINE from == [pc: {"check"}, op: {"role", "invite"}, actor: User, of: User, to: Role, seen: Managers]
  <2>2. q \in from
    BY <1>1 DEF Request, Idle
  <2>3. PICK r : r = [q EXCEPT !.pc = "write", !.seen = x]
    OBVIOUS
  <2>4. r.pc = "write" /\ r.op = q.op /\ r.of = q.of /\ r.to = q.to /\ r.seen = x
    BY <2>2, <2>3
  <2>5. req' = [req EXCEPT ![t] = r]
    BY <1>4, <2>3 DEF AccountsTypeOK
  <2>6. r \in Request
    BY <1>1, <1>2, <2>1, <2>3 DEF Request, Idle
  <2>7. Checked(q, r)
    BY <1>1, <1>4, <2>4 DEF Checked
  <2>. QED BY <1>1, <2>5, <2>6, <2>7 DEF Turned
<1>. QED BY <1>3, <1>4 DEF CheckInvitation

LEMMA StatusChecked ==
  ASSUME AccountsTypeOK, NEW t \in Thread, CheckStatus(t)
  PROVE  \E r \in Request : Turned(t, r)
<1>. DEFINE q == req[t]
<1>1. q \in Request /\ q.pc = "check" /\ q.op \in {"revoke", "list"} /\ UNCHANGED <<rows, histories>>
  BY DEF CheckStatus, AccountsTypeOK
<1>2. CASE req' = [req EXCEPT ![t] = Idle]
  BY <1>2 DEF Turned, Request
<1>3. PICK S \in SUBSET Nat : S = Closing(q)
  BY Typed DEF Closing
<1>4. CASE req' = [req EXCEPT ![t] = [q EXCEPT !.pc = "write", !.of = S]]
  <2>1. PICK r \in Request : r = [q EXCEPT !.pc = "write", !.of = S]
    BY <1>1, ClosingKind
  <2>. DEFINE from == [pc: {"check"}, op: {"revoke", "list"}, actor: User, of: {Null} \union Nat, to: {Null}, seen: Managers]
  <2>2. q \in from
    BY <1>1 DEF Request, Idle
  <2>3. r.pc = "write" /\ r.op = q.op
    BY <2>1, <2>2
  <2>4. Checked(q, r)
    BY <1>1, <2>3 DEF Checked
  <2>. QED BY <1>1, <1>4, <2>1, <2>4 DEF Turned
<1>. QED BY <1>2, <1>3, <1>4 DEF CheckStatus

LEMMA Turns ==
  ASSUME AccountsTypeOK, Next
  PROVE  \/ \E t \in Thread, r \in Request : Turned(t, r)
         \/ UNCHANGED req /\ Apart
<1>1. ASSUME NEW t \in Thread, Begins(t) PROVE \E r \in Request : Turned(t, r)
  BY <1>1 DEF Begins, Turned
<1>2. ASSUME NEW t \in Thread, Done(t) PROVE \E r \in Request : Turned(t, r)
  BY <1>2 DEF Done, Turned, Request
<1>3. ASSUME NEW t \in Thread, GoesOn(t) PROVE \E r \in Request : Turned(t, r)
  BY <1>2, <1>3, RoleChecked, InvitationChecked, StatusChecked
     DEF GoesOn, WriteRole, UpdateStatus, WriteInvitation, WriteStatus, Accept, FailLogin, EnterSession, ConfirmReset
<1>4. ASSUME Apart PROVE UNCHANGED req
  BY <1>4 DEF Apart, Register, RequestReset, ExpireFailures, ExpireSession, RevokeSessions, ExpireInvitation, ExpireToken
<1>. QED BY <1>1, <1>3, <1>4, Steps

\* What holds of each request: of those that stay, and of the one that turned.
LEMMA ReferStep ==
  ASSUME AccountsTypeOK, RowsRefer, \A t \in Thread : Refers(req[t]), Next
  PROVE  \A t \in Thread : Refers(req[t])'
<1>1. AccountsTypeOK' /\ Stay
  BY RowsStep
<1>2. ASSUME NEW r \in Request, Refers(r) PROVE Refers(r)'
  <2>1. r.pc = "write" /\ r.op = "role" => r.of \in User
    BY WriteKind
  <2>2. r.pc \in {"enter", "fail"} => r.of \in User
    BY LoginKind
  <2>. QED BY <1>1, <1>2, <2>1, <2>2, Typed DEF Refers, Stay, HasAccount, Member
<1>3. ASSUME NEW t \in Thread, NEW r \in Request, Turned(t, r)
      PROVE  \A x \in Thread : Refers(req[x])'
  <2>1. Refers(r)'
    <3>1. CASE r = Idle
      BY <3>1 DEF Refers, Idle
    <3>2. CASE Begun(r)
      <4>1. Refers(r)
        BY <3>2 DEF Begun, Refers
      <4>. QED BY <1>2, <4>1
    <3>3. CASE Checked(req[t], r)
      <4>1. Refers(r)
        BY <3>3 DEF Checked, Refers, PendingOf
      <4>. QED BY <1>2, <4>1
    <3>. QED BY <1>3, <3>1, <3>2, <3>3 DEF Turned
  <2>2. ASSUME NEW x \in Thread PROVE Refers(req[x])'
    <3>1. PICK p \in Request : p = req[x]
      BY DEF AccountsTypeOK
    <3>2. Refers(p)'
      BY <1>2, <3>1
    <3>3. req'[x] = p \/ req'[x] = r
      BY <1>3, <3>1 DEF Turned, AccountsTypeOK
    <3>. QED BY <2>1, <3>2, <3>3 DEF Refers, HasAccount, Member
  <2>. QED BY <2>2
<1>4. ASSUME UNCHANGED req PROVE \A x \in Thread : Refers(req[x])'
  <2>1. ASSUME NEW x \in Thread PROVE Refers(req[x])'
    <3>1. PICK p \in Request : p = req[x]
      BY DEF AccountsTypeOK
    <3>2. Refers(p)' /\ req'[x] = p
      BY <1>2, <1>4, <3>1
    <3>. QED BY <3>2 DEF Refers, HasAccount, Member
  <2>. QED BY <2>1
<1>. QED BY <1>3, <1>4, Turns

-----------------------------------------------------------------------------
(* Owners remain.                                                          *)

\* Only WriteRole changes the role of a member.
LEMMA RolesStay ==
  ASSUME AccountsTypeOK, Next
  PROVE  \/ \E t \in Thread : WriteRole(t)
         \/ /\ \A u \in User : Member(u) => role'[u] = role[u]
            /\ UNCHANGED overlapped
<1>1. ASSUME NEW t \in Thread, Begins(t) PROVE UNCHANGED <<role, overlapped>>
  BY <1>1 DEF Begins, rows, histories
<1>2. ASSUME NEW t \in Thread, Accept(t)
      PROVE  (\A u \in User : Member(u) => role'[u] = role[u]) /\ UNCHANGED overlapped
  BY <1>2 DEF Accept, Member, AccountsTypeOK
<1>3. ASSUME NEW t \in Thread, GoesOn(t), ~WriteRole(t), ~Accept(t) PROVE UNCHANGED <<role, overlapped>>
  BY <1>3 DEF GoesOn, CheckRole, UpdateStatus, CheckInvitation, WriteInvitation, CheckStatus, WriteStatus,
              FailLogin, EnterSession, ConfirmReset, rows, histories
<1>4. ASSUME Apart PROVE UNCHANGED <<role, overlapped>>
  BY <1>4 DEF Apart, Register, RequestReset, ExpireFailures, ExpireSession, RevokeSessions, ExpireInvitation,
              ExpireToken, histories
<1>. QED BY <1>1, <1>2, <1>3, <1>4, Steps

\* A checked change of an owner's role leaves another owner.
LEMMA CheckedLeavesOwner ==
  ASSUME AccountsTypeOK, NEW q \in Request, NEW r \in Request, LeavesOwner(q), Checked(q, r)
  PROVE  LeavesOwner(r)
<1>. SUFFICES ASSUME ~overlapped, r.op = "role", r.to # "owner", role[r.of] = "owner"
              PROVE  \E u \in User \ {r.of} : role[u] = "owner"
  BY DEF LeavesOwner, Checked
<1>1. /\ q.pc = "check" /\ q.op = "role" /\ r.of = q.of /\ r.to = q.to
      /\ AdminGuard(q.seen, q.of, q.to) /\ OwnerGuard(q.actor, q.of, q.to)
  BY DEF Checked
<1>2. q.actor \in User /\ q.of \in User /\ q.seen \in Managers
  BY <1>1, CheckKind
<1>3. q.seen = "owner"
  BY <1>1, <1>2 DEF AdminGuard, Managers
<1>4. role[q.actor] = "owner"
  BY <1>1, <1>3 DEF LeavesOwner
<1>5. CASE q.actor # q.of
  BY <1>1, <1>2, <1>4, <1>5
<1>6. CASE q.actor = q.of
  <2>1. Cardinality(Owners) > 1
    BY <1>1, <1>6 DEF OwnerGuard
  <2>2. PICK O \in SUBSET User : O = Owners
    BY DEF Owners
  <2>3. O # {q.of}
    <3>1. Cardinality({q.of}) = 1
      BY FS_Singleton
    <3>. QED BY <2>1, <2>2, <3>1
  <2>4. q.of \in O
    BY <1>1, <1>2, <2>2 DEF Owners
  <2>5. PICK u \in O : u # q.of
    BY <2>3, <2>4
  <2>. QED BY <1>1, <2>2, <2>5 DEF Owners
<1>. QED BY <1>5, <1>6

LEMMA OwnersStep ==
  ASSUME AccountsTypeOK, \A t \in Thread : Refers(req[t]) /\ LeavesOwner(req[t]), OwnerRemains, Next
  PROVE  OwnerRemains' /\ \A t \in Thread : LeavesOwner(req[t])'
<1>1. CASE \E t \in Thread : WriteRole(t)
  <2>1. PICK t \in Thread : WriteRole(t)
    BY <1>1
  <2>2. PICK q \in Request : q = req[t]
    BY DEF AccountsTypeOK
  <2>3. q.pc = "write" /\ q.op = "role" /\ q.of \in User
    BY <2>1, <2>2, WriteKind DEF WriteRole
  <2>4. CASE overlapped'
    BY <2>4 DEF OwnerRemains, LeavesOwner
  <2>5. CASE ~overlapped'
    <3>1. ~overlapped /\ \A x \in Thread \ {t} : req[x].op # "role"
      BY <2>1, <2>5 DEF WriteRole
    <3>2. role' = [role EXCEPT ![q.of] = IF q.to = q.seen THEN @ ELSE q.to]
      BY <2>1, <2>2 DEF WriteRole
    <3>3. PICK o \in User : role[o] = "owner"
      BY <3>1 DEF OwnerRemains, Owners
    <3>4. q.to # "owner" /\ role[q.of] = "owner" => \E u \in User \ {q.of} : role[u] = "owner"
      BY <2>2, <2>3, <3>1 DEF LeavesOwner
    <3>5. \E u \in User : role'[u] = "owner"
      <4>1. CASE q.to = q.seen
        BY <3>2, <3>3, <4>1 DEF AccountsTypeOK
      <4>2. CASE q.to = "owner"
        BY <2>3, <3>2, <3>3, <4>2 DEF AccountsTypeOK
      <4>3. CASE q.to # q.seen /\ q.to # "owner"
        BY <3>2, <3>3, <3>4, <4>3 DEF AccountsTypeOK
      <4>. QED BY <4>1, <4>2, <4>3
    <3>6. \A x \in Thread : req'[x].pc = "idle" \/ req'[x].op # "role"
      BY <2>1, <3>1 DEF WriteRole, Done, Idle, AccountsTypeOK
    <3>. QED BY <3>5, <3>6 DEF OwnerRemains, Owners, LeavesOwner
  <2>. QED BY <2>4, <2>5
<1>2. CASE (\A u \in User : Member(u) => role'[u] = role[u]) /\ UNCHANGED overlapped
  <2>1. ASSUME NEW r \in Request, Refers(r), LeavesOwner(r) PROVE LeavesOwner(r)'
    <3>1. r.pc = "check" => r.actor \in User
      BY CheckKind
    <3>2. r.pc = "write" /\ r.op = "role" => r.of \in User
      BY WriteKind
    <3>3. \A u \in User : role[u] = "owner" => role'[u] = "owner"
      BY <1>2, AccountsAssumption DEF Member, Managers
    <3>4. CASE overlapped
      BY <1>2, <3>4 DEF LeavesOwner
    <3>5. CASE ~overlapped
      <4>1. r.pc = "check" /\ r.op = "role" => role'[r.actor] # Null /\ (r.seen = "owner" => role'[r.actor] = "owner")
        BY <1>2, <2>1, <3>1, <3>3, <3>5 DEF LeavesOwner, Member
      <4>2. r.pc = "write" /\ r.op = "role" => role'[r.of] = role[r.of]
        BY <1>2, <2>1, <3>2 DEF Refers
      <4>3. r.pc = "write" /\ r.op = "role" /\ r.to # "owner" /\ role'[r.of] = "owner" =>
              \E u \in User \ {r.of} : role'[u] = "owner"
        BY <2>1, <3>3, <3>5, <4>2 DEF LeavesOwner
      <4>. QED BY <4>1, <4>3 DEF LeavesOwner, Member
    <3>. QED BY <3>4, <3>5
  <2>2. OwnerRemains'
    BY <1>2, AccountsAssumption DEF OwnerRemains, Owners, Member, Managers
  <2>3. ASSUME NEW t \in Thread, NEW r \in Request, Turned(t, r)
        PROVE  \A x \in Thread : LeavesOwner(req[x])'
    <3>1. LeavesOwner(r)'
      <4>1. CASE r = Idle
        BY <4>1 DEF LeavesOwner, Idle
      <4>2. CASE Begun(r)
        <5>1. LeavesOwner(r) /\ Refers(r)
          BY <4>2 DEF Begun, LeavesOwner, Refers
        <5>. QED BY <2>1, <5>1
      <4>3. CASE Checked(req[t], r)
        <5>1. PICK q \in Request : q = req[t]
          BY DEF AccountsTypeOK
        <5>2. LeavesOwner(r)
          BY <4>3, <5>1, CheckedLeavesOwner
        <5>3. Refers(r)
          BY <4>3 DEF Checked, Refers, PendingOf
        <5>. QED BY <2>1, <5>2, <5>3
      <4>. QED BY <2>3, <4>1, <4>2, <4>3 DEF Turned
    <3>2. ASSUME NEW x \in Thread PROVE LeavesOwner(req[x])'
      <4>1. PICK p \in Request : p = req[x]
        BY DEF AccountsTypeOK
      <4>2. LeavesOwner(p)'
        BY <2>1, <4>1
      <4>3. req'[x] = p \/ req'[x] = r
        BY <2>3, <4>1 DEF Turned, AccountsTypeOK
      <4>. QED BY <3>1, <4>2, <4>3 DEF LeavesOwner, Member
    <3>. QED BY <3>2
  <2>4. ASSUME UNCHANGED req PROVE \A x \in Thread : LeavesOwner(req[x])'
    <3>1. ASSUME NEW x \in Thread PROVE LeavesOwner(req[x])'
      <4>1. PICK p \in Request : p = req[x]
        BY DEF AccountsTypeOK
      <4>2. LeavesOwner(p)' /\ req'[x] = p
        BY <2>1, <2>4, <4>1
      <4>. QED BY <4>2 DEF LeavesOwner, Member
    <3>. QED BY <3>1
  <2>. QED BY <2>2, <2>3, <2>4, Turns
<1>. QED BY <1>1, <1>2, RolesStay

-----------------------------------------------------------------------------
(* At most one invitation of an email is pending.                          *)

Unique == \A u \in User : \A i, j \in PendingOf(u) : i = j \/ u \in doubled

LEMMA UniqueEmails == AccountsTypeOK => (PendingUnique <=> Unique)
<1>. SUFFICES ASSUME AccountsTypeOK PROVE PendingUnique <=> Unique
  OBVIOUS
<1>1. ASSUME PendingUnique PROVE Unique
  BY <1>1 DEF PendingUnique, Unique, PendingOf
<1>2. ASSUME Unique PROVE PendingUnique
  <2>1. ASSUME NEW i \in DOMAIN invite, NEW j \in DOMAIN invite,
               invite[i].status = "pending" /\ invite[j].status = "pending" /\ invite[i].email = invite[j].email
        PROVE  i = j \/ invite[i].email \in doubled
    <3>1. PICK u \in User : u = invite[i].email
      BY Typed
    <3>2. i \in PendingOf(u) /\ j \in PendingOf(u)
      BY <2>1, <3>1 DEF PendingOf
    <3>. QED BY <1>2, <3>1, <3>2 DEF Unique
  <2>. QED BY <2>1 DEF PendingUnique
<1>. QED BY <1>1, <1>2

\* But for WriteInvitation, no step makes an invitation pending.
Closes ==
  /\ \A i \in DOMAIN invite' : /\ i \in DOMAIN invite /\ invite'[i].email = invite[i].email
                               /\ invite'[i].status = "pending" => invite[i].status = "pending"
  /\ UNCHANGED doubled

LEMMA InvitationsClose ==
  ASSUME AccountsTypeOK, \A t \in Thread : Refers(req[t]), Next
  PROVE  (\E t \in Thread : WriteInvitation(t)) \/ Closes
<1>1. ASSUME UNCHANGED <<invite, doubled>> PROVE Closes
  BY <1>1 DEF Closes
<1>2. ASSUME NEW t \in Thread, Begins(t) PROVE UNCHANGED <<invite, doubled>>
  BY <1>2 DEF Begins, rows, histories
<1>3. ASSUME NEW t \in Thread, WriteStatus(t) PROVE Closes
  <2>1. PICK v : v = IF req[t].op = "revoke" THEN "revoked" ELSE "expired"
    OBVIOUS
  <2>2. PICK S \in SUBSET (DOMAIN invite) : S = {i \in DOMAIN invite : i \in req[t].of}
    OBVIOUS
  <2>3. invite' = [i \in DOMAIN invite |-> IF i \in S THEN [invite[i] EXCEPT !.status = v] ELSE invite[i]]
    BY <1>3, <2>1, <2>2 DEF WriteStatus
  <2>4. v \in {"accepted", "revoked", "expired"} /\ v # "pending"
    BY <2>1
  <2>5. \A i \in DOMAIN invite : /\ invite'[i].email = invite[i].email
                                 /\ invite'[i].status = IF i \in S THEN v ELSE invite[i].status
    BY <2>3, <2>4, StatusWritten
  <2>6. DOMAIN invite' = DOMAIN invite /\ UNCHANGED doubled
    BY <1>3, <2>3 DEF WriteStatus
  <2>. QED BY <2>4, <2>5, <2>6 DEF Closes
<1>4. ASSUME NEW t \in Thread, Accept(t) PROVE Closes
  <2>1. UNCHANGED doubled
    BY <1>4 DEF Accept
  <2>2. CASE UNCHANGED invite
    BY <1>1, <2>1, <2>2
  <2>3. CASE invite' = Accepted(req[t].of)
    <3>1. PICK i \in DOMAIN invite : i = req[t].of
      BY <1>4 DEF Accept, Refers
    <3>2. invite' = [x \in DOMAIN invite |-> IF x \in {i} THEN [invite[x] EXCEPT !.status = "accepted"] ELSE invite[x]]
      BY <2>3, <3>1 DEF Accepted, AccountsTypeOK
    <3>3. {i} \in SUBSET (DOMAIN invite) /\ "accepted" \in {"accepted", "revoked", "expired"}
      BY <3>1
    <3>4. \A x \in DOMAIN invite : /\ invite'[x].email = invite[x].email
                                   /\ invite'[x].status = IF x \in {i} THEN "accepted" ELSE invite[x].status
      BY <3>2, <3>3, StatusWritten
    <3>5. DOMAIN invite' = DOMAIN invite
      BY <3>2
    <3>. QED BY <2>1, <3>4, <3>5 DEF Closes
  <2>. QED BY <1>4, <2>2, <2>3 DEF Accept
<1>5. ASSUME NEW t \in Thread, GoesOn(t), ~WriteInvitation(t), ~WriteStatus(t), ~Accept(t)
      PROVE  UNCHANGED <<invite, doubled>>
  BY <1>5 DEF GoesOn, CheckRole, WriteRole, UpdateStatus, CheckInvitation, CheckStatus,
              FailLogin, EnterSession, ConfirmReset, rows, histories
<1>6. ASSUME NEW i \in DOMAIN invite, ExpireInvitation(i) PROVE Closes
  <2>1. PICK y : y = [invite[i] EXCEPT !.past = TRUE]
    OBVIOUS
  <2>2. y.email = invite[i].email /\ y.status = invite[i].status
    BY <2>1, Typed DEF InviteRow
  <2>3. invite' = [invite EXCEPT ![i] = y] /\ invite \in Seq(InviteRow) /\ UNCHANGED doubled
    BY <1>6, <2>1 DEF ExpireInvitation, AccountsTypeOK, histories
  <2>. QED BY <2>2, <2>3 DEF Closes
<1>7. ASSUME Apart, ~\E i \in DOMAIN invite : ExpireInvitation(i) PROVE UNCHANGED <<invite, doubled>>
  BY <1>7 DEF Apart, Register, RequestReset, ExpireFailures, ExpireSession, RevokeSessions, ExpireToken, histories
<1>. QED BY <1>1, <1>2, <1>3, <1>4, <1>5, <1>6, <1>7, Steps

LEMMA InvitationWritten ==
  ASSUME AccountsTypeOK, NEW t \in Thread, Refers(req[t]), WriteInvitation(t)
  PROVE  /\ DOMAIN invite' = DOMAIN invite \union {Len(invite) + 1}
         /\ Len(invite) + 1 \notin DOMAIN invite
         /\ invite'[Len(invite) + 1].email = req[t].of
         /\ \A i \in DOMAIN invite :
              /\ invite'[i].email = invite[i].email
              /\ invite'[i].status = IF i = req[t].seen THEN "revoked" ELSE invite[i].status
<1>. DEFINE q == req[t]
<1>1. q.of \in User /\ q.to \in Role
  BY WriteKind DEF WriteInvitation, AccountsTypeOK
<1>2. PICK S \in SUBSET (DOMAIN invite) : S = {i \in DOMAIN invite : i = q.seen}
  OBVIOUS
<1>3. PICK f : f = [i \in DOMAIN invite |-> IF i \in S THEN [invite[i] EXCEPT !.status = "revoked"] ELSE invite[i]]
  OBVIOUS
<1>4. /\ f \in [DOMAIN invite -> InviteRow]
      /\ \A i \in DOMAIN invite : /\ f[i].email = invite[i].email
                                  /\ f[i].status = IF i \in S THEN "revoked" ELSE invite[i].status
  BY <1>3, StatusWritten
<1>5. PICK x \in InviteRow : x = [email |-> q.of, role |-> q.to, status |-> "pending", past |-> FALSE]
  BY <1>1 DEF InviteRow
<1>6. f = [i \in DOMAIN invite |-> IF i = q.seen THEN [invite[i] EXCEPT !.status = "revoked"] ELSE invite[i]]
  BY <1>2, <1>3
<1>7. invite' = Append(f, x) /\ invite \in Seq(InviteRow)
  BY <1>5, <1>6 DEF WriteInvitation, AccountsTypeOK
<1>8. /\ DOMAIN Append(f, x) = DOMAIN invite \union {Len(invite) + 1}
      /\ Len(invite) + 1 \in Nat \ DOMAIN invite
      /\ \A i \in DOMAIN invite : Append(f, x)[i] = f[i]
      /\ Append(f, x)[Len(invite) + 1] = x
  BY <1>4, <1>7, Extended
<1>9. x.email = q.of
  BY <1>5
<1>10. \A i \in DOMAIN invite : /\ invite'[i].email = invite[i].email
                                /\ invite'[i].status = IF i = q.seen THEN "revoked" ELSE invite[i].status
  BY <1>2, <1>4, <1>7, <1>8
<1>. QED BY <1>7, <1>8, <1>9, <1>10

LEMMA PendingStep ==
  ASSUME AccountsTypeOK, \A t \in Thread : Refers(req[t]) /\ ReadPending(req[t]), Unique, Next
  PROVE  Unique' /\ \A t \in Thread : ReadPending(req[t])'
<1>1. CASE \E t \in Thread : WriteInvitation(t)
  <2>1. PICK t \in Thread : WriteInvitation(t)
    BY <1>1
  <2>2. PICK q \in Request : q = req[t]
    BY DEF AccountsTypeOK
  <2>3. q.pc = "write" /\ q.op = "invite" /\ q.of \in User
    BY <2>1, <2>2, WriteKind DEF WriteInvitation
  <2>4. PICK n : n = Len(invite) + 1
    OBVIOUS
  <2>5. /\ DOMAIN invite' = DOMAIN invite \union {n} /\ n \notin DOMAIN invite
        /\ invite'[n].email = q.of
        /\ \A i \in DOMAIN invite :
             /\ invite'[i].email = invite[i].email
             /\ invite'[i].status = IF i = q.seen THEN "revoked" ELSE invite[i].status
    BY <2>1, <2>2, <2>4, InvitationWritten
  <2>6. /\ doubled \subseteq doubled'
        /\ \A x \in Thread \ {t} : req[x].op = "invite" /\ req[x].of = q.of => q.of \in doubled'
    BY <2>1, <2>2 DEF WriteInvitation
  <2>7. PendingOf(q.of) \subseteq {q.seen} \/ q.of \in doubled
    BY <2>2, <2>3 DEF ReadPending
  <2>8. ASSUME NEW u \in User
        PROVE  /\ u # q.of => PendingOf(u)' \subseteq PendingOf(u)
               /\ u = q.of => PendingOf(u)' \subseteq {n} \/ u \in doubled'
    <3>1. PendingOf(u)' = {i \in DOMAIN invite' : invite'[i].status = "pending" /\ invite'[i].email = u}
      BY DEF PendingOf
    <3>2. u # q.of => PendingOf(u)' \subseteq PendingOf(u)
      BY <2>5, <3>1 DEF PendingOf
    <3>3. u = q.of /\ PendingOf(u) \subseteq {q.seen} => PendingOf(u)' \subseteq {n}
      BY <2>5, <3>1 DEF PendingOf
    <3>. QED BY <2>6, <2>7, <3>2, <3>3
  <2>9. Unique'
    <3>1. ASSUME NEW u \in User, NEW i, NEW j, i \in PendingOf(u)', j \in PendingOf(u)'
          PROVE  i = j \/ u \in doubled'
      <4>1. CASE u = q.of
        BY <2>8, <3>1, <4>1
      <4>2. CASE u # q.of
        BY <2>6, <2>8, <3>1, <4>2 DEF Unique
      <4>. QED BY <4>1, <4>2
    <3>. QED BY <3>1 DEF Unique
  <2>10. ASSUME NEW x \in Thread PROVE ReadPending(req[x])'
    <3>1. CASE x = t
      <4>1. req'[x] = Idle
        BY <2>1, <3>1 DEF WriteInvitation, Done, AccountsTypeOK
      <4>. QED BY <4>1 DEF ReadPending, Idle
    <3>2. CASE x # t
      <4>1. PICK p \in Request : p = req[x]
        BY DEF AccountsTypeOK
      <4>2. req'[x] = p
        BY <2>1, <3>2, <4>1 DEF WriteInvitation, Done, AccountsTypeOK
      <4>3. p.pc = "write" /\ p.op = "invite" => PendingOf(p.of)' \subseteq {p.seen} \/ p.of \in doubled'
        <5>1. SUFFICES ASSUME p.pc = "write", p.op = "invite"
                       PROVE  PendingOf(p.of)' \subseteq {p.seen} \/ p.of \in doubled'
          OBVIOUS
        <5>2. p.of \in User
          BY <5>1, WriteKind
        <5>3. CASE p.of = q.of
          BY <2>6, <3>2, <4>1, <5>1, <5>3
        <5>4. CASE p.of # q.of
          <6>1. PendingOf(p.of) \subseteq {p.seen} \/ p.of \in doubled
            BY <4>1, <5>1 DEF ReadPending
          <6>. QED BY <2>6, <2>8, <5>2, <5>4, <6>1
        <5>. QED BY <5>3, <5>4
      <4>. QED BY <4>2, <4>3 DEF ReadPending, PendingOf
    <3>. QED BY <3>1, <3>2
  <2>. QED BY <2>9, <2>10
<1>2. CASE Closes
  <2>1. UNCHANGED doubled /\ \A u : PendingOf(u)' \subseteq PendingOf(u)
    BY <1>2 DEF Closes, PendingOf
  <2>2. Unique'
    BY <2>1 DEF Unique
  <2>3. ASSUME NEW r, ReadPending(r) PROVE ReadPending(r)'
    BY <2>1, <2>3 DEF ReadPending
  <2>4. ASSUME NEW t \in Thread, NEW r \in Request, Turned(t, r)
        PROVE  \A x \in Thread : ReadPending(req[x])'
    <3>1. ReadPending(r)'
      <4>1. CASE r = Idle
        BY <4>1 DEF ReadPending, Idle
      <4>2. CASE Begun(r)
        BY <2>3, <4>2 DEF Begun, ReadPending
      <4>3. CASE Checked(req[t], r)
        <5>1. r.pc = "write" /\ r.op = "invite" => r.of \in User
          BY WriteKind
        <5>2. ReadPending(r)
          BY <4>3, <5>1 DEF Checked, ReadPending, Unique
        <5>. QED BY <2>3, <5>2
      <4>. QED BY <2>4, <4>1, <4>2, <4>3 DEF Turned
    <3>2. ASSUME NEW x \in Thread PROVE ReadPending(req[x])'
      <4>1. PICK p : p = req[x]
        OBVIOUS
      <4>2. ReadPending(p)'
        BY <2>3, <4>1
      <4>3. req'[x] = p \/ req'[x] = r
        BY <2>4, <4>1 DEF Turned, AccountsTypeOK
      <4>. QED BY <3>1, <4>2, <4>3 DEF ReadPending, PendingOf
    <3>. QED BY <3>2
  <2>5. ASSUME UNCHANGED req PROVE \A x \in Thread : ReadPending(req[x])'
    <3>1. ASSUME NEW x \in Thread PROVE ReadPending(req[x])'
      <4>1. PICK p : p = req[x]
        OBVIOUS
      <4>2. ReadPending(p)' /\ req'[x] = p
        BY <2>3, <2>5, <4>1
      <4>. QED BY <4>2 DEF ReadPending, PendingOf
    <3>. QED BY <3>1
  <2>. QED BY <2>2, <2>4, <2>5, Turns
<1>. QED BY <1>1, <1>2, InvitationsClose

-----------------------------------------------------------------------------
(* Members were invited.                                                   *)

\* No step takes back that an invitation was accepted, or loses it unnoticed.
Invites(i) == invite[i].status = "accepted" \/ i \in clobbered
Trusts == \A i \in DOMAIN invite : /\ i \in DOMAIN invite' /\ invite'[i].email = invite[i].email
                                   /\ Invites(i) => invite'[i].status = "accepted" \/ i \in clobbered'

LEMMA StatusesTrusted ==
  ASSUME AccountsTypeOK, NEW t \in Thread, WriteStatus(t)
  PROVE  Trusts
<1>1. PICK v : v = IF req[t].op = "revoke" THEN "revoked" ELSE "expired"
  OBVIOUS
<1>2. PICK S \in SUBSET (DOMAIN invite) : S = {i \in DOMAIN invite : i \in req[t].of}
  OBVIOUS
<1>3. invite' = [i \in DOMAIN invite |-> IF i \in S THEN [invite[i] EXCEPT !.status = v] ELSE invite[i]]
  BY <1>1, <1>2 DEF WriteStatus
<1>4. v \in {"accepted", "revoked", "expired"}
  BY <1>1
<1>5. \A i \in DOMAIN invite : /\ invite'[i].email = invite[i].email
                               /\ invite'[i].status = IF i \in S THEN v ELSE invite[i].status
  BY <1>3, <1>4, StatusWritten
<1>6. DOMAIN invite' = DOMAIN invite
  BY <1>3
<1>7. clobbered' = clobbered \union {i \in req[t].of : invite[i].status # "pending"}
  BY DEF WriteStatus
<1>8. \A i \in S : invite[i].status = "accepted" => i \in clobbered'
  BY <1>2, <1>7
<1>. QED BY <1>5, <1>6, <1>7, <1>8 DEF Trusts, Invites

\* Who becomes a member is the invited of an invitation that is accepted.
LEMMA AcceptTrusted ==
  ASSUME AccountsTypeOK, NEW t \in Thread, Refers(req[t]), Accept(t)
  PROVE  /\ Trusts
         /\ \A u \in User : role'[u] # Null => \/ Member(u)
                                               \/ \E i \in DOMAIN invite' : invite'[i].email = u /\ invite'[i].status = "accepted"
<1>1. PICK i \in DOMAIN invite : i = req[t].of
  BY DEF Accept, Refers
<1>2. CASE UNCHANGED <<role, invite, clobbered>>
  BY <1>2 DEF Trusts, Invites, Member
<1>3. CASE /\ role' = [role EXCEPT ![invite[i].email] = IF req[t].seen = "member" THEN @ ELSE invite[i].role]
           /\ invite' = Accepted(i) /\ Clobber(i, "pending")
  <2>2. invite' = [x \in DOMAIN invite |-> IF x \in {i} THEN [invite[x] EXCEPT !.status = "accepted"] ELSE invite[x]]
    BY <1>1, <1>3 DEF Accepted, AccountsTypeOK
  <2>3. {i} \in SUBSET (DOMAIN invite) /\ "accepted" \in {"accepted", "revoked", "expired"}
    BY <1>1
  <2>4. \A x \in DOMAIN invite : /\ invite'[x].email = invite[x].email
                                 /\ invite'[x].status = IF x \in {i} THEN "accepted" ELSE invite[x].status
    BY <2>2, <2>3, StatusWritten
  <2>5. DOMAIN invite' = DOMAIN invite /\ clobbered \subseteq clobbered'
    BY <1>3, <2>2 DEF Clobber
  <2>6. Trusts
    BY <2>4, <2>5 DEF Trusts, Invites
  <2>7. \A u \in User : role'[u] # Null => Member(u) \/ u = invite[i].email
    BY <1>3 DEF Member, AccountsTypeOK
  <2>. QED BY <2>4, <2>5, <2>6, <2>7
<1>. QED BY <1>1, <1>2, <1>3 DEF Accept

LEMMA MembersStep ==
  ASSUME AccountsTypeOK, \A t \in Thread : Refers(req[t]), MembershipInvited, Next
  PROVE  MembershipInvited'
<1>1. ASSUME UNCHANGED <<invite, clobbered>> PROVE Trusts
  BY <1>1 DEF Trusts, Invites
<1>. DEFINE Same == members' = members /\ \A u \in User : role'[u] # Null => Member(u)
            Joins == /\ members' = members
                     /\ \A u \in User : role'[u] # Null => \/ Member(u)
                                                          \/ \E i \in DOMAIN invite' : invite'[i].email = u /\ invite'[i].status = "accepted"
<1>2. ASSUME UNCHANGED <<role, members>> PROVE Same
  BY <1>2 DEF Member
<1>3. ASSUME NEW t \in Thread, Begins(t) PROVE Trusts /\ Same
  BY <1>1, <1>2, <1>3 DEF Begins, rows, histories
<1>4. ASSUME NEW t \in Thread, WriteInvitation(t) PROVE Trusts /\ Same
  <2>1. UNCHANGED <<role, members>>
    BY <1>4 DEF WriteInvitation
  <2>2. /\ DOMAIN invite' = DOMAIN invite \union {Len(invite) + 1}
        /\ \A i \in DOMAIN invite :
             /\ invite'[i].email = invite[i].email
             /\ invite'[i].status = IF i = req[t].seen THEN "revoked" ELSE invite[i].status
    BY <1>4, InvitationWritten
  <2>3. \A i \in DOMAIN invite : i # Null
    BY Typed, AccountsAssumption
  <2>4. clobbered \subseteq clobbered' /\ \A i \in DOMAIN invite : i = req[t].seen /\ invite[i].status = "accepted" => i \in clobbered'
    <3>1. IF req[t].seen = Null THEN UNCHANGED clobbered ELSE Clobber(req[t].seen, "pending")
      BY <1>4 DEF WriteInvitation
    <3>. QED BY <2>3, <3>1 DEF Clobber
  <2>. QED BY <1>2, <2>1, <2>2, <2>4 DEF Trusts, Invites
<1>5. ASSUME NEW t \in Thread, WriteStatus(t) PROVE Trusts /\ Same
  BY <1>2, <1>5, StatusesTrusted DEF WriteStatus
<1>6. ASSUME NEW t \in Thread, Accept(t) PROVE Trusts /\ Joins
  BY <1>6, AcceptTrusted DEF Accept
<1>7. ASSUME NEW t \in Thread, WriteRole(t) PROVE Trusts /\ Same
  <2>1. Member(req[t].of)
    BY <1>7 DEF WriteRole, Refers
  <2>. QED BY <1>1, <1>7, <2>1 DEF WriteRole, Member, AccountsTypeOK
<1>8. ASSUME NEW t \in Thread, GoesOn(t), ~WriteInvitation(t), ~WriteStatus(t), ~Accept(t), ~WriteRole(t)
      PROVE  Trusts /\ Same
  <2>1. UNCHANGED <<invite, clobbered, role, members>>
    BY <1>8 DEF GoesOn, CheckRole, UpdateStatus, CheckInvitation, CheckStatus, FailLogin, EnterSession, ConfirmReset,
                rows, histories
  <2>. QED BY <1>1, <1>2, <2>1
<1>9. ASSUME NEW i \in DOMAIN invite, ExpireInvitation(i) PROVE Trusts /\ Same
  <2>1. PICK y : y = [invite[i] EXCEPT !.past = TRUE]
    OBVIOUS
  <2>2. y.email = invite[i].email /\ y.status = invite[i].status
    BY <2>1, Typed DEF InviteRow
  <2>3. invite' = [invite EXCEPT ![i] = y] /\ invite \in Seq(InviteRow) /\ UNCHANGED <<role, members, clobbered>>
    BY <1>9, <2>1 DEF ExpireInvitation, AccountsTypeOK, histories
  <2>4. Trusts
    BY <2>2, <2>3 DEF Trusts, Invites
  <2>. QED BY <1>2, <2>3, <2>4
<1>10. ASSUME Apart, ~\E i \in DOMAIN invite : ExpireInvitation(i) PROVE Trusts /\ Same
  <2>1. UNCHANGED <<invite, clobbered, role, members>>
    BY <1>10 DEF Apart, Register, RequestReset, ExpireFailures, ExpireSession, RevokeSessions, ExpireToken, histories
  <2>. QED BY <1>1, <1>2, <2>1
<1>11. Trusts /\ Joins
  BY <1>3, <1>4, <1>5, <1>6, <1>7, <1>8, <1>9, <1>10, Steps
<1>12. ASSUME NEW u \in User \ members, role'[u] # Null
       PROVE  \E i \in DOMAIN invite' : invite'[i].email = u /\ (invite'[i].status = "accepted" \/ i \in clobbered')
  <2>1. CASE Member(u)
    <3>1. PICK i \in DOMAIN invite : invite[i].email = u /\ Invites(i)
      BY <1>12, <2>1 DEF MembershipInvited, Invites
    <3>. QED BY <1>11, <3>1 DEF Trusts
  <2>. QED BY <1>11, <1>12, <2>1
<1>. QED BY <1>11, <1>12 DEF MembershipInvited, Member

-----------------------------------------------------------------------------
(* A reset ends sessions.                                                  *)

\* But for ConfirmReset, passwords stay, and a session is new with its user's
\* password, or late, or it stays too.
PasswordsStay == \A u \in User : HasAccount(u) => account'[u].password = account[u].password
SessionsFollow ==
  /\ late \subseteq late'
  /\ \A s \in DOMAIN session' :
      \/ /\ s \in DOMAIN session /\ session'[s].user = session[s].user /\ session'[s].password = session[s].password
         /\ session'[s].state = "live" => session[s].state = "live"
      \/ s \in late'
      \/ session'[s].password = account'[session'[s].user].password

LEMMA SessionsKept ==
  ASSUME AccountsTypeOK, RowsRefer, PasswordsStay, SessionsFollow, ResetEndsSessions
  PROVE  ResetEndsSessions'
<1>1. ASSUME NEW s \in (DOMAIN session') \ late', session'[s].state = "live"
      PROVE  session'[s].password = account'[session'[s].user].password
  <2>1. CASE /\ s \in DOMAIN session /\ session'[s].user = session[s].user /\ session'[s].password = session[s].password
             /\ session[s].state = "live"
    <3>1. s \notin late
      BY <1>1 DEF SessionsFollow
    <3>2. session[s].password = account[session[s].user].password
      BY <2>1, <3>1 DEF ResetEndsSessions
    <3>3. session[s].user \in User /\ HasAccount(session[s].user)
      BY <2>1, Typed DEF RowsRefer
    <3>. QED BY <2>1, <3>2, <3>3 DEF PasswordsStay
  <2>. QED BY <1>1, <2>1 DEF SessionsFollow
<1>. QED BY <1>1 DEF ResetEndsSessions

LEMMA LockKept ==
  ASSUME AccountsTypeOK, NEW u \in User, HasAccount(u), NEW b,
         \/ account' = [account EXCEPT ![u].locked = b]
         \/ account' = [account EXCEPT ![u].active = b]
  PROVE  PasswordsStay
<1>1. account[u] \in Account
  BY Typed
<1>2. PICK a : /\ account' = [account EXCEPT ![u] = a]
               /\ a = [account[u] EXCEPT !.locked = b] \/ a = [account[u] EXCEPT !.active = b]
  OBVIOUS
<1>3. a.password = account[u].password
  BY <1>1, <1>2 DEF Account
<1>. QED BY <1>2, <1>3 DEF PasswordsStay, AccountsTypeOK

LEMMA ResetConfirmed ==
  ASSUME AccountsTypeOK, RowsRefer, NEW t \in Thread, Refers(req[t]), ConfirmReset(t), ResetEndsSessions
  PROVE  ResetEndsSessions'
<1>1. PICK k \in DOMAIN token : k = req[t].of
  BY DEF ConfirmReset, Refers
<1>2. PICK u \in User : u = token[k].user
  BY Typed
<1>3. UNCHANGED late
  BY DEF ConfirmReset, histories
<1>4. CASE UNCHANGED <<account, token, session>>
  BY <1>3, <1>4 DEF ResetEndsSessions
<1>5. CASE /\ account' = [account EXCEPT ![u] = [active |-> @.active, password |-> @.password + 1, locked |-> FALSE]]
           /\ session' = EndSessions(u)
  <2>1. PICK S \in SUBSET (DOMAIN session) : S = {s \in DOMAIN session : session[s].user = u}
    OBVIOUS
  <2>2. session' = [s \in DOMAIN session |-> IF s \in S THEN [session[s] EXCEPT !.state = "deleted"] ELSE session[s]]
    BY <1>5, <2>1 DEF EndSessions
  <2>3. \A s \in DOMAIN session : /\ session'[s].user = session[s].user /\ session'[s].password = session[s].password
                                  /\ session'[s].state = IF s \in S THEN "deleted" ELSE session[s].state
    BY <2>2, SessionsWritten
  <2>4. DOMAIN session' = DOMAIN session
    BY <2>2
  <2>5. \A x \in User \ {u} : account'[x] = account[x]
    BY <1>5 DEF AccountsTypeOK
  <2>6. ASSUME NEW s \in (DOMAIN session) \ late, session'[s].state = "live"
        PROVE  session'[s].password = account'[session'[s].user].password
    <3>1. s \notin S /\ session[s].state = "live"
      BY <2>3, <2>6
    <3>2. session[s].user \in User \ {u}
      BY <2>1, <3>1, Typed
    <3>3. session[s].password = account[session[s].user].password
      BY <2>6, <3>1 DEF ResetEndsSessions
    <3>. QED BY <2>3, <2>5, <3>2, <3>3
  <2>. QED BY <1>3, <2>4, <2>6 DEF ResetEndsSessions
<1>. QED BY <1>1, <1>2, <1>4, <1>5 DEF ConfirmReset

LEMMA SessionsStep ==
  ASSUME AccountsTypeOK, RowsRefer, \A t \in Thread : Refers(req[t]), ResetEndsSessions, Next
  PROVE  ResetEndsSessions'
<1>1. ASSUME UNCHANGED <<session, late>> PROVE SessionsFollow
  BY <1>1 DEF SessionsFollow
<1>2. ASSUME UNCHANGED account PROVE PasswordsStay
  BY <1>2 DEF PasswordsStay
<1>3. ASSUME NEW t \in Thread, Begins(t) PROVE PasswordsStay /\ SessionsFollow
  BY <1>1, <1>2, <1>3 DEF Begins, rows, histories
<1>4. ASSUME NEW t \in Thread, UpdateStatus(t) PROVE PasswordsStay /\ SessionsFollow
  <2>1. req[t] \in Request /\ req[t].pc = "check" /\ req[t].op = "status" /\ UNCHANGED <<session, late>>
    BY <1>4 DEF UpdateStatus, AccountsTypeOK, histories
  <2>2. PICK u \in User : u = req[t].of
    BY <2>1, CheckKind
  <2>3. PICK b : b = (req[t].to = "active")
    OBVIOUS
  <2>4. \/ Member(u) /\ account' = [account EXCEPT ![u].active = b]
        \/ UNCHANGED account
    BY <1>4, <2>2, <2>3 DEF UpdateStatus
  <2>5. CASE Member(u) /\ account' = [account EXCEPT ![u].active = b]
    <3>1. HasAccount(u)
      BY <2>5 DEF RowsRefer
    <3>. QED BY <1>1, <2>1, <2>5, <3>1, LockKept
  <2>. QED BY <1>1, <1>2, <2>1, <2>4, <2>5
<1>5. ASSUME NEW t \in Thread, Accept(t) PROVE PasswordsStay /\ SessionsFollow
  <2>1. UNCHANGED <<session, late>>
    BY <1>5 DEF Accept
  <2>2. PICK u : u = invite[req[t].of].email
    OBVIOUS
  <2>3. \/ UNCHANGED account
        \/ account[u] = Null /\ account' = [account EXCEPT ![u] = NewAccount]
    BY <1>5, <2>2 DEF Accept
  <2>4. PasswordsStay
    BY <2>3 DEF PasswordsStay, HasAccount, AccountsTypeOK
  <2>. QED BY <1>1, <2>1, <2>4
<1>6. ASSUME NEW t \in Thread, FailLogin(t) PROVE PasswordsStay /\ SessionsFollow
  <2>1. req[t] \in Request /\ req[t].pc = "fail" /\ UNCHANGED <<session, late>>
    BY <1>6 DEF FailLogin, AccountsTypeOK, histories
  <2>2. PICK u \in User : u = req[t].of /\ HasAccount(u)
    BY <2>1, LoginKind DEF Refers
  <2>3. PICK b : b = (account[u].locked \/ req[t].seen + 1 >= MaxAttempts)
    OBVIOUS
  <2>4. account' = [account EXCEPT ![u].locked = b]
    BY <1>6, <2>2, <2>3 DEF FailLogin
  <2>. QED BY <1>1, <2>1, <2>2, <2>4, LockKept
<1>7. ASSUME NEW t \in Thread, EnterSession(t) PROVE PasswordsStay /\ SessionsFollow
  <2>1. req[t] \in Request /\ req[t].pc = "enter"
    BY <1>7 DEF EnterSession, AccountsTypeOK
  <2>2. PICK u \in User : u = req[t].of /\ HasAccount(u)
    BY <2>1, LoginKind DEF Refers
  <2>3. PICK p \in Nat : p = req[t].to
    BY <2>1, LoginKind
  <2>4. account' = [account EXCEPT ![u].locked = FALSE]
    BY <1>7, <2>2 DEF EnterSession
  <2>5. PasswordsStay
    BY <2>2, <2>4, LockKept
  <2>6. session' = Created(u, p)
    BY <1>7, <2>2, <2>3 DEF EnterSession
  <2>7. PICK n : n = Len(session) + 1
    OBVIOUS
  <2>8. /\ DOMAIN session' = DOMAIN session \union {n} /\ session'[n] = NewSession(u, p)
        /\ \A s \in DOMAIN session : /\ session'[s].user = session[s].user /\ session'[s].password = session[s].password
                                     /\ session'[s].state = "live" => session[s].state = "live"
    BY <2>6, <2>7, SessionCreated
  <2>9. session'[n].user = u /\ session'[n].password = p
    <3>1. NewSession(u, p).user = u /\ NewSession(u, p).password = p
      BY DEF NewSession
    <3>. QED BY <2>8, <3>1
  <2>10. late \subseteq late' /\ (p # account[u].password => n \in late')
    BY <1>7, <2>2, <2>3, <2>7 DEF EnterSession
  <2>11. p = account[u].password => session'[n].password = account'[session'[n].user].password
    BY <2>2, <2>5, <2>9 DEF PasswordsStay
  <2>12. SessionsFollow
    BY <2>8, <2>10, <2>11 DEF SessionsFollow
  <2>. QED BY <2>5, <2>12
<1>8. ASSUME NEW t \in Thread, GoesOn(t), ~UpdateStatus(t), ~Accept(t), ~FailLogin(t), ~EnterSession(t), ~ConfirmReset(t)
      PROVE  PasswordsStay /\ SessionsFollow
  <2>1. UNCHANGED <<account, session, late>>
    BY <1>8 DEF GoesOn, CheckRole, WriteRole, CheckInvitation, WriteInvitation, CheckStatus, WriteStatus, rows, histories
  <2>. QED BY <1>1, <1>2, <2>1
<1>9. ASSUME NEW u \in User, Register(u) PROVE PasswordsStay /\ SessionsFollow
  <2>1. account[u] = Null /\ account' = [account EXCEPT ![u] = NewAccount] /\ UNCHANGED late
    BY <1>9 DEF Register, histories
  <2>2. PasswordsStay /\ account'[u] = NewAccount
    BY <2>1 DEF PasswordsStay, HasAccount, AccountsTypeOK
  <2>3. PICK p \in Nat : p = NewAccount.password
    BY DEF NewAccount
  <2>4. session' = Created(u, p)
    BY <1>9, <2>3 DEF Register
  <2>5. PICK n : n = Len(session) + 1
    OBVIOUS
  <2>6. /\ DOMAIN session' = DOMAIN session \union {n} /\ session'[n] = NewSession(u, p)
        /\ \A s \in DOMAIN session : /\ session'[s].user = session[s].user /\ session'[s].password = session[s].password
                                     /\ session'[s].state = "live" => session[s].state = "live"
    BY <2>4, <2>5, SessionCreated
  <2>7. session'[n].password = account'[session'[n].user].password
    <3>1. NewSession(u, p).user = u /\ NewSession(u, p).password = p
      BY DEF NewSession
    <3>. QED BY <2>2, <2>3, <2>6, <3>1
  <2>8. SessionsFollow
    BY <2>1, <2>6, <2>7 DEF SessionsFollow
  <2>. QED BY <2>2, <2>8
<1>10. ASSUME NEW u \in User, ExpireFailures(u) PROVE PasswordsStay /\ SessionsFollow
  <2>1. HasAccount(u) /\ account' = [account EXCEPT ![u].locked = FALSE] /\ UNCHANGED <<session, late>>
    BY <1>10 DEF ExpireFailures, RowsRefer, histories
  <2>. QED BY <1>1, <2>1, LockKept
<1>11. ASSUME NEW s \in DOMAIN session, NEW all \in BOOLEAN, ExpireSession(s) \/ RevokeSessions(s, all)
       PROVE  PasswordsStay /\ SessionsFollow
  <2>1. /\ DOMAIN session' = DOMAIN session
        /\ \A x \in DOMAIN session : /\ session'[x].user = session[x].user /\ session'[x].password = session[x].password
                                     /\ session'[x].state = "live" => session[x].state = "live"
        /\ UNCHANGED <<account, role, invite, token, failures, req, histories>>
    BY <1>11, SessionsStay
  <2>2. SessionsFollow
    BY <2>1 DEF SessionsFollow, histories
  <2>. QED BY <1>2, <2>1, <2>2
<1>12. ASSUME NEW u \in User, RequestReset(u) PROVE PasswordsStay /\ SessionsFollow
  BY <1>1, <1>2, <1>12 DEF RequestReset, histories
<1>13. ASSUME NEW i \in DOMAIN invite, ExpireInvitation(i) PROVE PasswordsStay /\ SessionsFollow
  BY <1>1, <1>2, <1>13 DEF ExpireInvitation, histories
<1>14. ASSUME NEW k \in DOMAIN token, ExpireToken(k) PROVE PasswordsStay /\ SessionsFollow
  BY <1>1, <1>2, <1>14 DEF ExpireToken, histories
<1>15. ASSUME Apart PROVE PasswordsStay /\ SessionsFollow
  BY <1>9, <1>10, <1>11, <1>12, <1>13, <1>14, <1>15 DEF Apart
<1>16. (\E t \in Thread : ConfirmReset(t)) \/ (PasswordsStay /\ SessionsFollow)
  BY <1>3, <1>4, <1>5, <1>6, <1>7, <1>8, <1>15, Steps
<1>. QED BY <1>16, SessionsKept, ResetConfirmed

-----------------------------------------------------------------------------
(* Failed logins are bounded.                                              *)

LEMMA SomeThreads ==
  \A S \in SUBSET Thread :
    /\ IsFiniteSet(S) /\ Cardinality(S) \in Nat /\ Cardinality(Thread) \in Nat
    /\ Cardinality(S) <= Cardinality(Thread)
    /\ \A T \in SUBSET S : Cardinality(T) <= Cardinality(S)
    /\ \A t \in S : Cardinality(S \ {t}) = Cardinality(S) - 1
  BY AccountsAssumption, FS_CardinalityType, FS_Subset, FS_RemoveElement

\* Only FailLogin counts a failure.
LEMMA FailuresFall ==
  ASSUME AccountsTypeOK, Next
  PROVE  \/ \E t \in Thread : FailLogin(t)
         \/ \A u \in User : failures'[u] = failures[u] \/ failures'[u] = 0
<1>1. ASSUME NEW t \in Thread, Begins(t) PROVE UNCHANGED failures
  BY <1>1 DEF Begins, rows
<1>2. ASSUME NEW t \in Thread, GoesOn(t), ~FailLogin(t) PROVE UNCHANGED failures
  BY <1>2 DEF GoesOn, CheckRole, WriteRole, UpdateStatus, CheckInvitation, WriteInvitation, CheckStatus, WriteStatus,
              Accept, EnterSession, ConfirmReset, rows
<1>3. ASSUME Apart PROVE UNCHANGED failures \/ \E x \in User : failures' = [failures EXCEPT ![x] = 0]
  BY <1>3 DEF Apart, Register, RequestReset, ExpireFailures, ExpireSession, RevokeSessions, ExpireInvitation, ExpireToken
<1>. QED BY <1>1, <1>2, <1>3, Steps DEF AccountsTypeOK

LEMMA AttemptsStep ==
  ASSUME AccountsTypeOK, AccountsTypeOK', AttemptsCounted, Next
  PROVE  AttemptsCounted'
<1>1. ASSUME NEW u \in User
      PROVE  /\ Failing(u) \in SUBSET Thread /\ Failing(u)' \in SUBSET Thread
             /\ Failing(u)' = {t \in Thread : req'[t].pc = "fail" /\ req'[t].of = u}
             /\ failures[u] \in Nat /\ failures'[u] \in Nat
             /\ failures[u] + Cardinality(Failing(u)) < MaxAttempts + Cardinality(Thread)
  BY DEF Failing, AccountsTypeOK, AttemptsCounted
<1>2. ASSUME NEW u \in User, \/ failures'[u] = failures[u] /\ Failing(u)' \subseteq Failing(u)
                            \/ failures'[u] < MaxAttempts
      PROVE  failures'[u] + Cardinality(Failing(u)') < MaxAttempts + Cardinality(Thread)
  <2>1. PICK F \in SUBSET Thread, G \in SUBSET Thread : F = Failing(u) /\ G = Failing(u)'
    BY <1>1
  <2>2. /\ Cardinality(F) \in Nat /\ Cardinality(G) \in Nat /\ Cardinality(Thread) \in Nat
        /\ Cardinality(G) <= Cardinality(Thread)
        /\ G \subseteq F => Cardinality(G) <= Cardinality(F)
    BY SomeThreads
  <2>3. failures[u] + Cardinality(F) < MaxAttempts + Cardinality(Thread)
    BY <1>1, <2>1
  <2>4. failures'[u] + Cardinality(G) < MaxAttempts + Cardinality(Thread)
    BY <1>1, <1>2, <2>1, <2>2, <2>3, AccountsAssumption
  <2>. QED BY <2>1, <2>4
<1>3. CASE \E t \in Thread : FailLogin(t)
  <2>1. PICK t \in Thread : FailLogin(t)
    BY <1>3
  <2>2. PICK u \in User : u = req[t].of /\ t \in Failing(u)
    <3>1. req[t] \in Request /\ req[t].pc = "fail"
      BY <2>1 DEF FailLogin, AccountsTypeOK
    <3>. QED BY <3>1, LoginKind DEF Failing
  <2>3. failures' = [failures EXCEPT ![u] = @ + 1] /\ req' = [req EXCEPT ![t] = Idle]
    BY <2>1, <2>2 DEF FailLogin, Done
  <2>4. \A x \in Thread : req'[x] = IF x = t THEN Idle ELSE req[x]
    BY <2>3 DEF AccountsTypeOK
  <2>5. Failing(u)' = Failing(u) \ {t}
    BY <1>1, <2>4 DEF Failing, Idle
  <2>6. failures'[u] + Cardinality(Failing(u)') < MaxAttempts + Cardinality(Thread)
    <3>1. PICK F \in SUBSET Thread : F = Failing(u)
      BY <1>1
    <3>2. Cardinality(F \ {t}) = Cardinality(F) - 1 /\ Cardinality(F) \in Nat
      BY <2>2, <3>1, SomeThreads
    <3>3. Cardinality(Failing(u)') = Cardinality(F) - 1
      BY <2>5, <3>1, <3>2
    <3>4. failures'[u] = failures[u] + 1
      BY <2>3 DEF AccountsTypeOK
    <3>5. failures[u] + Cardinality(F) < MaxAttempts + Cardinality(Thread) /\ failures[u] \in Nat
      BY <1>1, <3>1
    <3>6. Cardinality(Thread) \in Nat
      BY SomeThreads
    <3>. QED BY <3>2, <3>3, <3>4, <3>5, <3>6, AccountsAssumption
  <2>7. ASSUME NEW v \in User \ {u} PROVE failures'[v] = failures[v] /\ Failing(v)' \subseteq Failing(v)
    <3>1. failures'[v] = failures[v]
      BY <2>3 DEF AccountsTypeOK
    <3>2. Failing(v)' \subseteq Failing(v)
      BY <1>1, <2>4 DEF Failing, Idle
    <3>. QED BY <3>1, <3>2
  <2>8. ASSUME NEW v \in User PROVE failures'[v] + Cardinality(Failing(v)') < MaxAttempts + Cardinality(Thread)
    BY <1>2, <2>6, <2>7
  <2>. QED BY <2>8 DEF AttemptsCounted, Failing
<1>4. CASE \A u \in User : failures'[u] = failures[u] \/ failures'[u] = 0
  <2>1. ASSUME NEW u \in User, ~(Failing(u)' \subseteq Failing(u))
        PROVE  failures[u] < MaxAttempts
    <3>1. PICK x \in Thread : x \in Failing(u)' /\ x \notin Failing(u)
      BY <1>1, <2>1
    <3>2. req'[x].pc = "fail" /\ req'[x].of = u /\ req'[x] # req[x]
      BY <1>1, <3>1 DEF Failing
    <3>3. PICK t \in Thread, r \in Request : Turned(t, r)
      BY <3>2, Turns
    <3>4. req'[x] = r
      BY <3>2, <3>3 DEF Turned, AccountsTypeOK
    <3>5. r.pc = "fail" /\ r.of = u
      BY <3>2, <3>4
    <3>. QED BY <3>3, <3>5 DEF Turned, Begun, Checked, Idle
  <2>2. ASSUME NEW u \in User PROVE failures'[u] + Cardinality(Failing(u)') < MaxAttempts + Cardinality(Thread)
    <3>1. CASE failures'[u] = 0
      BY <1>2, <3>1, AccountsAssumption
    <3>2. CASE failures'[u] = failures[u]
      BY <1>2, <2>1, <3>2
    <3>. QED BY <1>4, <3>1, <3>2
  <2>. QED BY <2>2 DEF AttemptsCounted, Failing
<1>. QED BY <1>3, <1>4, FailuresFall

-----------------------------------------------------------------------------
(* The invariant, and the theorems.                                        *)

Inv == AccountsTypeOK /\ AccountsInv

LEMMA Members ==
  ASSUME NEW S, IsFiniteSet(S)
  PROVE  /\ Cardinality(S) \in Nat
         /\ SetToSeq(S) \in [1..Cardinality(S) -> S]
<1>1. Cardinality(S) \in Nat /\ ExistsBijection(1..Cardinality(S), S)
  BY FS_CardinalityType
<1>2. \E f \in [1..Cardinality(S) -> S] : IsInjective(f)
  BY <1>1 DEF ExistsBijection, Bijection, Injection
<1>. QED BY <1>1, <1>2 DEF SetToSeq

LEMMA InitInv == Init => Inv
<1>. SUFFICES ASSUME Init PROVE Inv
  OBVIOUS
<1>1. role \in [User -> Role \union {Null}]
  BY AccountsAssumption DEF Init
<1>2. members = {u \in User : Member(u)} /\ account = [u \in User |-> IF Member(u) THEN NewAccount ELSE Null]
  BY DEF Init
<1>3. account \in [User -> Account \union {Null}] /\ \A u \in members : account[u] = NewAccount /\ HasAccount(u)
  BY <1>2, NewRows DEF HasAccount
<1>4. PICK S \in SUBSET User : S = members
  BY <1>2
<1>5. IsFiniteSet(S)
  BY AccountsAssumption, FS_Subset
<1>6. PICK n \in Nat : SetToSeq(S) \in [1..n -> S]
  BY <1>5, Members
<1>. DEFINE in == SetToSeq(S)
<1>7. session = [s \in 1..n |-> NewSession(in[s], 0)]
  BY <1>4, <1>6 DEF Init
<1>8. \A s \in 1..n : NewSession(in[s], 0) \in SessionRow
  BY <1>6, NewRows
<1>9. session \in [1..n -> SessionRow]
  BY <1>7, <1>8
<1>10. session \in Seq(SessionRow) /\ DOMAIN session = 1..n
  BY <1>9
<1>11. \A s \in DOMAIN session : session[s].user \in members /\ session[s].password = 0
  BY <1>4, <1>6, <1>7, <1>10 DEF NewSession
<1>12. /\ invite = <<>> /\ token = <<>> /\ failures = [u \in User |-> 0] /\ req = [t \in Thread |-> Idle]
       /\ requests = 0 /\ past = 0 /\ overlapped = FALSE /\ clobbered = {} /\ doubled = {} /\ late = {}
       /\ Owners # {}
  BY DEF Init
<1>13. AccountsTypeOK
  <2>1. req \in [Thread -> Request] /\ failures \in [User -> Nat]
    BY <1>12 DEF Request
  <2>2. invite \in Seq(InviteRow) /\ token \in Seq(TokenRow)
    BY <1>12
  <2>. QED BY <1>1, <1>2, <1>3, <1>10, <1>12, <2>1, <2>2 DEF AccountsTypeOK
<1>14. RowsRefer
  BY <1>2, <1>3, <1>11, <1>12 DEF RowsRefer
<1>15. \A t \in Thread : Refers(req[t]) /\ LeavesOwner(req[t]) /\ ReadPending(req[t])
  BY <1>12 DEF Refers, LeavesOwner, ReadPending, Idle
<1>16. AttemptsCounted
  <2>1. ASSUME NEW u \in User PROVE failures[u] + Cardinality(Failing(u)) < MaxAttempts + Cardinality(Thread)
    <3>1. Failing(u) = {}
      BY <1>12 DEF Failing, Idle
    <3>2. Cardinality(Failing(u)) = 0
      BY <3>1, FS_EmptySet
    <3>3. Cardinality(Thread) \in Nat
      BY SomeThreads
    <3>. QED BY <1>12, <3>2, <3>3, AccountsAssumption
  <2>. QED BY <2>1 DEF AttemptsCounted
<1>17. OwnerRemains /\ MembershipInvited /\ PendingUnique
  BY <1>2, <1>12 DEF OwnerRemains, MembershipInvited, PendingUnique
<1>18. ResetEndsSessions
  BY <1>3, <1>11 DEF ResetEndsSessions, NewAccount
<1>. QED BY <1>13, <1>14, <1>15, <1>16, <1>17, <1>18 DEF Inv, AccountsInv

LEMMA NextInv == Inv /\ [Next]_accountVars => Inv'
<1>. SUFFICES ASSUME Inv, [Next]_accountVars PROVE Inv'
  OBVIOUS
<1>. USE DEF Inv
<1>1. CASE Next
  <2>1. AccountsTypeOK' /\ RowsRefer'
    BY <1>1, RowsStep DEF AccountsInv
  <2>2. \A t \in Thread : Refers(req[t])'
    BY <1>1, ReferStep DEF AccountsInv
  <2>3. OwnerRemains' /\ \A t \in Thread : LeavesOwner(req[t])'
    BY <1>1, OwnersStep DEF AccountsInv
  <2>4. PendingUnique' /\ \A t \in Thread : ReadPending(req[t])'
    <3>1. Unique
      BY UniqueEmails DEF AccountsInv
    <3>2. Unique' /\ \A t \in Thread : ReadPending(req[t])'
      BY <1>1, <3>1, PendingStep DEF AccountsInv
    <3>3. AccountsTypeOK' => (PendingUnique' <=> Unique')
      BY UniqueEmails, PTL
    <3>. QED BY <2>1, <3>2, <3>3
  <2>5. MembershipInvited'
    BY <1>1, MembersStep DEF AccountsInv
  <2>6. ResetEndsSessions'
    BY <1>1, SessionsStep DEF AccountsInv
  <2>7. AttemptsCounted'
    BY <1>1, <2>1, AttemptsStep DEF AccountsInv
  <2>. QED BY <2>1, <2>2, <2>3, <2>4, <2>5, <2>6, <2>7 DEF AccountsInv
<1>2. CASE UNCHANGED accountVars
  BY <1>2 DEF accountVars, rows, histories, AccountsTypeOK, AccountsInv, RowsRefer, Refers, LeavesOwner, ReadPending,
              PendingOf, AttemptsCounted, Failing, OwnerRemains, Owners, MembershipInvited, PendingUnique,
              ResetEndsSessions, HasAccount, Member
<1>. QED BY <1>1, <1>2

\* Every row and every request is of its type, and refers to what is there.
THEOREM AccountsTypeCorrect == Spec => []AccountsTypeOK
<1>1. Inv => AccountsTypeOK
  BY DEF Inv
<1>. QED BY <1>1, InitInv, NextInv, PTL DEF Spec

\* The invariant that the properties rest on.
THEOREM AccountsInvariant == Spec => []AccountsInv
<1>1. Inv => AccountsInv
  BY DEF Inv
<1>. QED BY <1>1, InitInv, NextInv, PTL DEF Spec

\* update_member_role never leaves the organization without an owner, but for
\* role changes that overlap.
THEOREM OwnersRemain == Spec => []OwnerRemains
<1>1. Inv => OwnerRemains
  BY DEF Inv, AccountsInv
<1>. QED BY <1>1, InitInv, NextInv, PTL DEF Spec

\* Who became a member accepted an invitation (accept_invitation).
THEOREM MembersInvited == Spec => []MembershipInvited
<1>1. Inv => MembershipInvited
  BY DEF Inv, AccountsInv
<1>. QED BY <1>1, InitInv, NextInv, PTL DEF Spec

\* create_invitation leaves one pending invitation of an email, but for requests
\* that invite it at a time.
THEOREM OnePending == Spec => []PendingUnique
<1>1. Inv => PendingUnique
  BY DEF Inv, AccountsInv
<1>. QED BY <1>1, InitInv, NextInv, PTL DEF Spec

\* confirm_password_reset ends the sessions of the older password, but for a login
\* that had checked it.
THEOREM ResetsEnd == Spec => []ResetEndsSessions
<1>1. Inv => ResetEndsSessions
  BY DEF Inv, AccountsInv
<1>. QED BY <1>1, InitInv, NextInv, PTL DEF Spec

\* login admits fewer failures than login_max_attempts and one for each thread.
THEOREM FailuresBound == Spec => []FailuresBounded
<1>1. Inv => FailuresBounded
  <2>1. ASSUME Inv, NEW u \in User PROVE failures[u] < MaxAttempts + Cardinality(Thread)
    <3>1. PICK F \in SUBSET Thread : F = Failing(u)
      BY DEF Failing
    <3>2. Cardinality(F) \in Nat /\ Cardinality(Thread) \in Nat
      BY SomeThreads
    <3>3. failures[u] + Cardinality(F) < MaxAttempts + Cardinality(Thread) /\ failures[u] \in Nat
      BY <2>1, <3>1 DEF Inv, AccountsInv, AttemptsCounted, AccountsTypeOK
    <3>. QED BY <3>2, <3>3, AccountsAssumption
  <2>. QED BY <2>1 DEF FailuresBounded
<1>. QED BY <1>1, InitInv, NextInv, PTL DEF Spec

=============================================================================
