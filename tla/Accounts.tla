------------------------------ MODULE Accounts ------------------------------
(***************************************************************************)
(* One organization: its members and their roles, invitations, sessions,   *)
(* login attempts and password resets (src/app/api/routes/team.py,         *)
(* src/app/api/routes/auth.py, src/app/api/auth_dependencies.py).          *)
(*                                                                         *)
(* A team request has up to three transactions' worth of steps: the        *)
(* dependency require_roles reads the caller's session and role, the       *)
(* handler reads and checks, and its writes are committed.  The others     *)
(* read and commit.  What was read may have changed when it is used.       *)
(*                                                                         *)
(* Expiry is a step of the environment: what it marks "past" is over.      *)
(***************************************************************************)
EXTENDS Integers, Sequences, SequencesExt, FiniteSets

CONSTANTS
  Thread,       \* request threads
  User,         \* people, by email
  Role,         \* owner, admin, analyst, viewer (to these routes the last two are the same)
  MaxAttempts,  \* login_max_attempts
  MaxRequests,  \* bound: requests that begin
  MaxPast,      \* bound: expiries
  Teams,        \* bound: the roles to start from
  Null

Managers == {"owner", "admin"}

\* Rows; password counts the changes of a user's password, locked is locked_until.
Account == [active: BOOLEAN, password: Nat, locked: BOOLEAN]
InviteRow == [email: User, role: Role, status: {"pending", "accepted", "revoked", "expired"}, past: BOOLEAN]
SessionRow == [user: User, password: Nat, state: {"live", "revoked", "deleted"}, past: BOOLEAN]
TokenRow == [user: User, state: {"unused", "used", "deleted"}, past: BOOLEAN]

ASSUME AccountsAssumption ==
  /\ Managers \subseteq Role
  /\ MaxAttempts \in Nat \ {0}
  /\ {MaxRequests, MaxPast} \subseteq Nat
  /\ IsFiniteSet(User) /\ IsFiniteSet(Thread)
  /\ Teams \subseteq [User -> Role \union {Null}]
  /\ Null \notin User \union Role \union Nat \union Account

VARIABLES
  account,     \* account[u]: the row of users, or Null
  role,        \* role[u]: the role in u's membership, or Null
  invite,      \* team_invitations, by id
  session,     \* user_sessions, by id
  token,       \* account_tokens of password resets, by id
  failures,    \* failures[u]: failed attempts within the login window
  req,         \* req[t]: the request that thread t is working on
  requests,    \* requests so far (for the bound)
  past,        \* expiries so far (for the bound)
  members,     \* history: the members at the start
  overlapped,  \* history: whether a role was written under another request's role change
  clobbered,   \* history: invitations whose status was overwritten unread
  doubled,     \* history: emails that two requests invited at a time
  late         \* history: sessions of a login that checked an older password

rows == <<account, role, invite, session, token, failures>>
histories == <<members, overlapped, clobbered, doubled, late>>
accountVars == <<rows, req, requests, past, histories>>

Idle == [pc |-> "idle", op |-> Null, actor |-> Null, of |-> Null, to |-> Null, seen |-> Null]

NewAccount == [active |-> TRUE, password |-> 0, locked |-> FALSE]
NewSession(u, p) == [user |-> u, password |-> p, state |-> "live", past |-> FALSE]
Member(u) == role[u] # Null

\* require_user: a session that is there, not revoked and not expired, of an active user.
Usable(s) == /\ session[s].state = "live" /\ ~session[s].past
             /\ account[session[s].user].active
SignedIn(u) == \E s \in DOMAIN session : Usable(s) /\ session[s].user = u

\* A request without a session.
Anonymous(pc, op, of, to, seen) == [pc |-> pc, op |-> op, actor |-> Null, of |-> of, to |-> to, seen |-> seen]

Enter(t, r) ==
  /\ req[t] = Idle
  /\ requests < MaxRequests
  /\ requests' = requests + 1
  /\ req' = [req EXCEPT ![t] = r]
Done(t) == req' = [req EXCEPT ![t] = Idle] /\ UNCHANGED requests

-----------------------------------------------------------------------------
(* Team requests: the role of the caller is read in a transaction of its own. *)

\* require_roles("owner", "admin"); seen is the caller's membership_role.
Authorize(t, a, op, of, to) ==
  /\ SignedIn(a)
  /\ role[a] \in Managers
  /\ Enter(t, [pc |-> "check", op |-> op, actor |-> a, of |-> of, to |-> to, seen |-> role[a]])
  /\ UNCHANGED <<rows, past, histories>>

Valid(r) == r \in Role

BeginRoleUpdate(t, a, m, r) == Valid(r) /\ Authorize(t, a, "role", m, r)
BeginStatusUpdate(t, a, m, b) == Authorize(t, a, "status", m, b)
BeginInvitation(t, a, u, r) == Valid(r) /\ (a # u) /\ Authorize(t, a, "invite", u, r)
BeginRevocation(t, a, i) == Authorize(t, a, "revoke", i, Null)
BeginListing(t, a) == Authorize(t, a, "list", Null, Null)

\* The last owner stays owner; only the caller's own demotion is counted.
Owners == {u \in User : role[u] = "owner"}
\* Mutant: the last owner may demote himself.
NoOwnerGuard(a, m, r) == TRUE
OwnerGuard(a, m, r) == a = m /\ role[m] = "owner" /\ r # "owner" => Cardinality(Owners) > 1
\* Administrators cannot manage owner roles.
AdminGuard(seen, m, r) == seen = "admin" => (role[m] # "owner" /\ r # "owner")

\* update_member_role reads and checks; seen becomes the role it replaces (one
\* that is set to what it was read as is not written).
CheckRole(t) ==
  LET q == req[t] IN
  /\ q.pc = "check" /\ q.op = "role"
  /\ \/ /\ Member(q.of)
        /\ AdminGuard(q.seen, q.of, q.to)
        /\ OwnerGuard(q.actor, q.of, q.to)
        /\ req' = [req EXCEPT ![t].pc = "write", ![t].seen = role[q.of]]
     \/ /\ ~(Member(q.of) /\ AdminGuard(q.seen, q.of, q.to) /\ OwnerGuard(q.actor, q.of, q.to))
        /\ req' = [req EXCEPT ![t] = Idle]
  /\ UNCHANGED <<rows, requests, past, histories>>

WriteRole(t) ==
  LET q == req[t] IN
  /\ q.pc = "write" /\ q.op = "role"
  /\ role' = [role EXCEPT ![q.of] = IF q.to = q.seen THEN @ ELSE q.to]
  /\ overlapped' = (overlapped \/ \E u \in Thread \ {t} : req[u].op = "role")
  /\ Done(t)
  /\ UNCHANGED <<account, invite, session, token, failures, past, members, clobbered, doubled, late>>

\* update_member_status: nobody deactivates himself, no administrator an owner.
UpdateStatus(t) ==
  LET q == req[t] IN
  /\ q.pc = "check" /\ q.op = "status"
  /\ \/ /\ Member(q.of)
        /\ q.actor = q.of => q.to = "active"
        /\ q.seen = "admin" => role[q.of] # "owner"
        /\ account' = [account EXCEPT ![q.of].active = (q.to = "active")]
     \/ /\ \/ ~Member(q.of)
           \/ q.actor = q.of /\ q.to # "active"
           \/ q.seen = "admin" /\ role[q.of] = "owner"
        /\ UNCHANGED account
  /\ Done(t)
  /\ UNCHANGED <<role, invite, session, token, failures, past, histories>>

\* Mutant: no earlier invitation is looked for.
PendingOfNobody(u) == {}
PendingOf(u) == {i \in DOMAIN invite : invite[i].status = "pending" /\ invite[i].email = u}

\* create_invitation: not for members; a pending one is found and revoked.
CheckInvitation(t) ==
  LET q == req[t]
      pending == PendingOf(q.of) IN
  /\ q.pc = "check" /\ q.op = "invite"
  /\ \/ /\ ~(q.seen = "admin" /\ q.to = "owner") /\ ~Member(q.of)
        /\ \/ pending = {} /\ req' = [req EXCEPT ![t].pc = "write", ![t].seen = Null]
           \/ \E i \in pending : req' = [req EXCEPT ![t].pc = "write", ![t].seen = i]
     \/ /\ (q.seen = "admin" /\ q.to = "owner") \/ Member(q.of)
        /\ req' = [req EXCEPT ![t] = Idle]
  /\ UNCHANGED <<rows, requests, past, histories>>

\* A status that another transaction changed since it was read is lost.
Clobber(i, read) == clobbered' = IF invite[i].status # read THEN clobbered \union {i} ELSE clobbered

WriteInvitation(t) ==
  LET q == req[t]
      new == [email |-> q.of, role |-> q.to, status |-> "pending", past |-> FALSE] IN
  /\ q.pc = "write" /\ q.op = "invite"
  /\ invite' = Append([i \in DOMAIN invite |-> IF i = q.seen THEN [invite[i] EXCEPT !.status = "revoked"]
                                                 ELSE invite[i]], new)
  /\ IF q.seen = Null THEN UNCHANGED clobbered ELSE Clobber(q.seen, "pending")
  /\ doubled' = IF \E u \in Thread \ {t} : req[u].op = "invite" /\ req[u].of = q.of
                  THEN doubled \union {q.of} ELSE doubled
  /\ Done(t)
  /\ UNCHANGED <<account, role, session, token, failures, past, members, overlapped, late>>

\* revoke_invitation and list_invitations read statuses and write others.
Closing(q) == {i \in DOMAIN invite : /\ invite[i].status = "pending"
                                 /\ IF q.op = "revoke" THEN i = q.of ELSE invite[i].past}
CheckStatus(t) ==
  LET q == req[t] IN
  /\ q.pc = "check" /\ q.op \in {"revoke", "list"}
  /\ req' = [req EXCEPT ![t] = IF Closing(q) = {} THEN Idle
                              ELSE [q EXCEPT !.pc = "write", !.of = Closing(q)]]
  /\ UNCHANGED <<rows, requests, past, histories>>

WriteStatus(t) ==
  LET q == req[t] IN
  /\ q.pc = "write" /\ q.op \in {"revoke", "list"}
  /\ invite' = [i \in DOMAIN invite |-> IF i \notin q.of THEN invite[i]
       ELSE [invite[i] EXCEPT !.status = IF q.op = "revoke" THEN "revoked" ELSE "expired"]]
  /\ clobbered' = clobbered \union {i \in q.of : invite[i].status # "pending"}
  /\ Done(t)
  /\ UNCHANGED <<account, role, session, token, failures, past, members, overlapped, doubled, late>>

\* Mutant: the invitation stays pending.
AcceptedStill(i) == invite
Accepted(i) == [invite EXCEPT ![i].status = "accepted"]

\* accept_invitation, without a session: a pending one that is not past.  (An
\* expired one is answered with an error, which rolls its new status back.)
BeginAcceptance(t, i) ==
  /\ invite[i].status = "pending" /\ ~invite[i].past
  /\ Enter(t, Anonymous("write", "accept", i, Null,
       IF Member(invite[i].email) THEN "member"
       ELSE IF account[invite[i].email] = Null THEN "stranger" ELSE "user"))
  /\ UNCHANGED <<rows, past, histories>>

\* The unique email and the unique membership refuse what another inserted meanwhile.
Accept(t) ==
  LET q == req[t]
      u == invite[q.of].email
      r == invite[q.of].role IN
  /\ q.pc = "write" /\ q.op = "accept"
  /\ \/ /\ q.seen = "member" \/ ~Member(u)
        /\ q.seen = "stranger" => account[u] = Null
        /\ role' = [role EXCEPT ![u] = IF q.seen = "member" THEN @ ELSE r]
        /\ account' = IF q.seen # "stranger" THEN account
             ELSE [account EXCEPT ![u] = NewAccount]
        /\ invite' = Accepted(q.of)
        /\ Clobber(q.of, "pending")
     \/ /\ \/ q.seen # "member" /\ Member(u)
           \/ q.seen = "stranger" /\ account[u] # Null
        /\ UNCHANGED <<role, account, invite, clobbered>>
  /\ Done(t)
  /\ UNCHANGED <<session, token, failures, past, members, overlapped, doubled, late>>

-----------------------------------------------------------------------------
(* Signing up and in, sessions, password resets.                           *)

\* _create_session inserts a session and deletes every expired one.
Created(u, p) == Append([s \in DOMAIN session |->
  IF session[s].past THEN [session[s] EXCEPT !.state = "deleted"] ELSE session[s]], NewSession(u, p))
\* register: another organization's owner, signed in; the unique email refuses a second.
Register(u) ==
  /\ requests < MaxRequests /\ requests' = requests + 1
  /\ account[u] = Null
  /\ account' = [account EXCEPT ![u] = NewAccount]
  /\ session' = Created(u, NewAccount.password)
  /\ UNCHANGED <<role, invite, token, failures, req, past, histories>>

\* Mutant: nobody is blocked.
NeverBlocked(u) == FALSE
Blocked(u) == failures[u] >= MaxAttempts \/ account[u].locked

\* login counts the recent failures and reads the user; knows says whether the
\* password that was given is the user's.
BeginLogin(t, u, knows) ==
  LET a == account[u] IN
  /\ a # Null
  /\ ~Blocked(u)
  /\ Enter(t, Anonymous(IF knows /\ a.active THEN "enter" ELSE "fail", "login", u, a.password, failures[u]))
  /\ UNCHANGED <<rows, past, histories>>

FailLogin(t) ==
  LET u == req[t].of IN
  /\ req[t].pc = "fail"
  /\ failures' = [failures EXCEPT ![u] = @ + 1]
  /\ account' = [account EXCEPT ![u].locked = @ \/ req[t].seen + 1 >= MaxAttempts]
  /\ Done(t)
  /\ UNCHANGED <<role, invite, session, token, past, histories>>

EnterSession(t) ==
  LET u == req[t].of IN
  /\ req[t].pc = "enter"
  /\ account' = [account EXCEPT ![u].locked = FALSE]
  /\ session' = Created(u, req[t].to)
  /\ late' = IF req[t].to # account[u].password THEN late \union {Len(session) + 1} ELSE late
  /\ Done(t)
  /\ UNCHANGED <<role, invite, token, failures, past, members, overlapped, clobbered, doubled>>

\* logout, revoke_session and revoke_all_sessions: an own session, or all.
Revoke(S) == session' = [s \in DOMAIN session |-> IF s \in S /\ session[s].state = "live"
                                            THEN [session[s] EXCEPT !.state = "revoked"] ELSE session[s]]
RevokeSessions(s, all) ==
  /\ requests < MaxRequests /\ requests' = requests + 1
  /\ Usable(s)
  /\ Revoke(IF all THEN {x \in DOMAIN session : session[x].user = session[s].user} ELSE {s})
  /\ UNCHANGED <<account, role, invite, token, failures, req, past, histories>>

\* _issue_account_token: unused tokens are deleted, a new one is issued.
Issued(u) == Append([k \in DOMAIN token |->
  IF token[k].user = u /\ token[k].state = "unused" THEN [token[k] EXCEPT !.state = "deleted"] ELSE token[k]],
  [user |-> u, state |-> "unused", past |-> FALSE])
\* request_password_reset
RequestReset(u) ==
  /\ requests < MaxRequests /\ requests' = requests + 1
  /\ account[u] # Null /\ account[u].active
  /\ token' = Issued(u)
  /\ UNCHANGED <<account, role, invite, session, failures, req, past, histories>>

\* confirm_password_reset: the token is read, and used with the new password; the
\* update of a token that was deleted meanwhile fails, and all with it.
BeginReset(t, k) ==
  /\ token[k].state = "unused" /\ ~token[k].past
  /\ Enter(t, Anonymous("reset", "reset", k, Null, Null))
  /\ UNCHANGED <<rows, past, histories>>

\* Mutant: only expired sessions are deleted.
EndPastSessions(u) == [s \in DOMAIN session |-> IF session[s].user = u /\ session[s].past
                                           THEN [session[s] EXCEPT !.state = "deleted"] ELSE session[s]]
EndSessions(u) == [s \in DOMAIN session |-> IF session[s].user = u
                                       THEN [session[s] EXCEPT !.state = "deleted"] ELSE session[s]]
ConfirmReset(t) ==
  LET k == req[t].of
      u == token[k].user IN
  /\ req[t].pc = "reset"
  /\ \/ /\ token[k].state # "deleted"
        /\ account' = [account EXCEPT ![u] = [active |-> @.active, password |-> @.password + 1, locked |-> FALSE]]
        /\ token' = [token EXCEPT ![k].state = "used"]
        /\ session' = EndSessions(u)
     \/ token[k].state = "deleted" /\ UNCHANGED <<account, token, session>>
  /\ Done(t)
  /\ UNCHANGED <<role, invite, failures, past, histories>>

-----------------------------------------------------------------------------
(* The clock: the login window moves on, and what has a time limit expires. *)

CountPast == past < MaxPast /\ past' = past + 1
ExpireInvitation(i) ==
  /\ CountPast /\ invite[i].status = "pending" /\ ~invite[i].past
  /\ invite' = [invite EXCEPT ![i].past = TRUE]
  /\ UNCHANGED <<account, role, session, token, failures, req, requests, histories>>
ExpireSession(s) ==
  /\ CountPast /\ ~session[s].past
  /\ session' = [session EXCEPT ![s].past = TRUE]
  /\ UNCHANGED <<account, role, invite, token, failures, req, requests, histories>>
ExpireToken(k) ==
  /\ CountPast /\ ~token[k].past
  /\ token' = [token EXCEPT ![k].past = TRUE]
  /\ UNCHANGED <<account, role, invite, session, failures, req, requests, histories>>
ExpireFailures(u) ==
  /\ CountPast /\ failures[u] > 0
  /\ failures' = [failures EXCEPT ![u] = 0]
  /\ account' = [account EXCEPT ![u].locked = FALSE]
  /\ UNCHANGED <<role, invite, session, token, req, requests, histories>>

\* An organization at work: its members joined earlier, and each is signed in.
Init ==
  /\ role \in Teams /\ Owners # {}
  /\ members = {u \in User : Member(u)}
  /\ account = [u \in User |-> IF Member(u) THEN NewAccount ELSE Null]
  /\ session = LET in == SetToSeq(members) IN [s \in DOMAIN in |-> NewSession(in[s], 0)]
  /\ invite = <<>> /\ token = <<>>
  /\ failures = [u \in User |-> 0]
  /\ req = [t \in Thread |-> Idle]
  /\ requests = 0 /\ past = 0
  /\ overlapped = FALSE
  /\ clobbered = {} /\ doubled = {} /\ late = {}

Next ==
  \/ \E t \in Thread :
       \/ \E a \in User :
            \/ \E m \in User : \/ \E r \in Role \union {"member"} : BeginRoleUpdate(t, a, m, r) \/ BeginInvitation(t, a, m, r)
                              \/ \E b \in {"active", "inactive"} : BeginStatusUpdate(t, a, m, b)
            \/ \E i \in DOMAIN invite : BeginRevocation(t, a, i)
            \/ BeginListing(t, a)
       \/ \E i \in DOMAIN invite : BeginAcceptance(t, i)
       \/ \E u \in User, knows \in BOOLEAN : BeginLogin(t, u, knows)
       \/ \E k \in DOMAIN token : BeginReset(t, k)
       \/ CheckRole(t) \/ WriteRole(t) \/ UpdateStatus(t)
       \/ CheckInvitation(t) \/ WriteInvitation(t) \/ CheckStatus(t) \/ WriteStatus(t)
       \/ Accept(t) \/ FailLogin(t) \/ EnterSession(t) \/ ConfirmReset(t)
  \/ \E u \in User : Register(u) \/ RequestReset(u) \/ ExpireFailures(u)
  \/ \E s \in DOMAIN session : ExpireSession(s) \/ \E all \in BOOLEAN : RevokeSessions(s, all)
  \/ \E i \in DOMAIN invite : ExpireInvitation(i)
  \/ \E k \in DOMAIN token : ExpireToken(k)

Spec == Init /\ [][Next]_accountVars

-----------------------------------------------------------------------------
(* Properties                                                              *)

\* update_member_role leaves the organization an owner, unless a role was written
\* while another role change was under way: each such request counts the owners
\* and checks its caller's role before the other writes.
OwnerRemains == Owners # {} \/ overlapped

\* A member who was not there at the start came by an invitation that ended
\* "accepted", or whose status a request that had read it as pending overwrote.
MembershipInvited ==
  \A u \in User \ members : Member(u) =>
    \E i \in DOMAIN invite : invite[i].email = u
                         /\ (invite[i].status = "accepted" \/ i \in clobbered)

\* create_invitation revokes the email's pending invitation, so that one link at
\* most is good, unless two requests invited the email at a time.
PendingUnique ==
  \A i, j \in DOMAIN invite :
    invite[i].status = "pending" /\ invite[j].status = "pending" /\ invite[i].email = invite[j].email
      => i = j \/ invite[i].email \in doubled

\* confirm_password_reset answers "Sign in again on all devices.": no session that
\* an older password opened is live, but for one of a login that had checked the
\* older password and enters its session after the reset.
ResetEndsSessions ==
  \A s \in (DOMAIN session) \ late :
    session[s].state = "live" => session[s].password = account[session[s].user].password

\* Failed logins in a window are fewer than login_max_attempts and one for each
\* other request that had counted them by then.
FailuresBounded == \A u \in User : failures[u] < MaxAttempts + Cardinality(Thread)

\* What a request may be: of is a user, an invitation, a set of them or a token.
Request ==
  {Idle}
    \union [pc: {"check"}, op: {"role", "invite"}, actor: User, of: User, to: Role, seen: Managers]
    \union [pc: {"check"}, op: {"status"}, actor: User, of: User, to: {"active", "inactive"}, seen: Managers]
    \union [pc: {"check"}, op: {"revoke", "list"}, actor: User, of: {Null} \union Nat, to: {Null}, seen: Managers]
    \union [pc: {"write"}, op: {"role"}, actor: User, of: User, to: Role, seen: Role]
    \union [pc: {"write"}, op: {"invite"}, actor: User, of: User, to: Role, seen: Nat \union {Null}]
    \union [pc: {"write"}, op: {"revoke", "list"}, actor: User, of: SUBSET Nat, to: {Null}, seen: Managers]
    \union [pc: {"write"}, op: {"accept"}, actor: {Null}, of: Nat, to: {Null}, seen: {"member", "stranger", "user"}]
    \union [pc: {"enter", "fail"}, op: {"login"}, actor: {Null}, of: User, to: Nat, seen: Nat]
    \union [pc: {"reset"}, op: {"reset"}, actor: {Null}, of: Nat, to: {Null}, seen: {Null}]

AccountsTypeOK ==
  /\ account \in [User -> Account \union {Null}]
  /\ role \in [User -> Role \union {Null}]
  /\ invite \in Seq(InviteRow) /\ session \in Seq(SessionRow) /\ token \in Seq(TokenRow)
  /\ failures \in [User -> Nat]
  /\ req \in [Thread -> Request]
  /\ requests \in Nat /\ past \in Nat
  /\ members \subseteq User /\ overlapped \in BOOLEAN
  /\ clobbered \subseteq Nat /\ doubled \subseteq User /\ late \subseteq Nat

\* The invariant behind the properties.  Rows that are referred to are there.
HasAccount(u) == account[u] # Null
RowsRefer ==
  /\ \A u \in User : Member(u) \/ failures[u] > 0 => HasAccount(u)
  /\ \A s \in DOMAIN session : HasAccount(session[s].user)
  /\ \A k \in DOMAIN token : HasAccount(token[k].user)
Refers(r) ==
  /\ r.pc = "write" /\ r.op = "role" => Member(r.of)
  /\ r.pc = "write" /\ r.op = "invite" => r.seen \in (DOMAIN invite) \union {Null}
  /\ r.pc = "write" /\ r.op = "accept" =>
       /\ r.of \in DOMAIN invite
       /\ r.seen = "user" => HasAccount(invite[r.of].email)
       /\ r.seen = "member" => Member(invite[r.of].email)
  /\ r.pc \in {"enter", "fail"} => HasAccount(r.of)
  /\ r.pc = "reset" => r.of \in DOMAIN token

\* A role change has checked that another owner stays, as a caller who was an owner
\* still is, unless another change overtook it.
LeavesOwner(r) ==
  \/ overlapped
  \/ /\ r.pc = "check" /\ r.op = "role" =>
          Member(r.actor) /\ (r.seen = "owner" => role[r.actor] = "owner")
     /\ r.pc = "write" /\ r.op = "role" /\ r.to # "owner" /\ role[r.of] = "owner" =>
          \E u \in User \ {r.of} : role[u] = "owner"
\* An invitation that is to be written has read all pending ones of its email.
ReadPending(r) ==
  r.pc = "write" /\ r.op = "invite" => PendingOf(r.of) \subseteq {r.seen} \/ r.of \in doubled
\* The attempts that are yet to fail were counted below the limit.
Failing(u) == {t \in Thread : req[t].pc = "fail" /\ req[t].of = u}
AttemptsCounted ==
  \A u \in User : failures[u] + Cardinality(Failing(u)) < MaxAttempts + Cardinality(Thread)

AccountsInv ==
  /\ RowsRefer
  /\ \A t \in Thread : Refers(req[t]) /\ LeavesOwner(req[t]) /\ ReadPending(req[t])
  /\ AttemptsCounted
  /\ OwnerRemains /\ MembershipInvited /\ PendingUnique /\ ResetEndsSessions
=============================================================================
