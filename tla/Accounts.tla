------------------------------ MODULE Accounts ------------------------------
(***************************************************************************)
(* Who may use the service, and how an account comes to be: start-up and   *)
(* the admin bootstrap (main.py, auth/bootstrap.py), password accounts     *)
(* (auth/register.py, login.py, verify.py, forgot_password.py,             *)
(* reset_password.py), OIDC login (auth/oidc*.py), and the vault of API    *)
(* keys (credentials/).  RateLimit holds the windows in front of them.     *)
(*                                                                         *)
(* Replicas of the application share one database.  A step is one SELECT   *)
(* with the checks on what it found, or one flush with its commit: an      *)
(* operation looks rows up in one step and writes in a later one, and does *)
(* not see what other replicas commit in between.  Behind the lookups      *)
(* stand the unique constraints, and UPDATE ... WHERE id = ..., which      *)
(* writes the columns that were assigned and no others.                    *)
(*                                                                         *)
(* An account keeps its address: PATCH and DELETE under /users, which      *)
(* fastapi-users serves, are left out.                                     *)
(***************************************************************************)
EXTENDS Naturals, Sequences, FiniteSets, RateLimit

CONSTANTS
  Replicas,   \* application processes, each serving one request at a time
  Enabled,    \* the flows that the settings switch on
  Emails,     \* spellings of addresses
  Mailbox,    \* the lower-case form of a spelling, which the lookups compare
  Normal,     \* the spelling EmailStr makes of it (a lower-case domain)
  NoEmail,
  AdminEmail, \* AUTH_ADMIN_EMAIL, or NoEmail when it or the password is not set
  Claims,     \* what the identity provider may assert in an id_token
  NoSub,
  Flows,      \* OIDC logins: each has a state, a nonce and a PKCE verifier
  NoFlow,
  MaxRequests \* bound: how many requests are served and replicas die in all

Subs == {c.sub : c \in Claims}
NoClaim == [sub |-> NoSub, email |-> NoEmail, vouched |-> FALSE]

\* At the identity provider a subject has one mailbox, spelled in several
\* ways; a mailbox may have belonged to several subjects.
ASSUME ConstantsOK ==
  /\ Enabled \subseteq {"signup", "password_reset", "email_verify", "oidc"}
  /\ NoEmail \notin Emails /\ NoSub \notin Subs /\ NoFlow \notin Flows
  /\ Mailbox \in [Emails -> Emails] /\ Normal \in [Emails -> Emails]
  /\ AdminEmail \in Emails \cup {NoEmail}
  /\ Claims \subseteq [sub : Subs, email : Emails, vouched : BOOLEAN]
  /\ \A c, d \in Claims : c.sub = d.sub => Mailbox[c.email] = Mailbox[d.email]
  /\ MaxRequests \in Nat

VARIABLES
  users,     \* the users table: rows in the order of their insertion
  sessions,  \* the users with an access token
  vault,     \* the credentials of one plugin: which user has rows
  mail,      \* the tokens that were mailed to the address of their user
  flows,     \* OIDC logins: for whom the provider gave a code, and its use
  pc,        \* what each replica is about to do; "down" when it is not running
  job,       \* what the operation it serves has found out so far
  opened,    \* history: SSO sessions, with the login and the subject they are for
  proved,    \* history: mailboxes somebody was shown to own, by mail or by the provider
  requests

tables == <<users, sessions, vault>>
vars == <<tables, mail, flows, pc, job, opened, proved, requests, windows>>

\* The hash changes at every assignment; SSO assigns one of a random password.
Row == [email: Emails, sub: Subs \cup {NoSub}, verified: BOOLEAN,
        hash: Nat, typed: BOOLEAN]

NoJob == [op |-> "none", email |-> NoEmail, user |-> 0, row |-> <<>>,
          claim |-> NoClaim, flow |-> NoFlow]

Ids == DOMAIN users

\* get_by_email and _find_by_email_ci; both raise when they match two rows.
ByEmail(e) == {u \in Ids : Mailbox[users[u].email] = Mailbox[e]}
Found(e) == {u \in Ids : ByEmail(e) = {u}}

\* _find_by_sub
BySub(s) == {u \in Ids : users[u].sub = s}

\* Mutation of Taken: without the unique index on oidc_sub.
TakenByEmail(row) == \E u \in Ids : users[u].email = row.email

\* The unique indexes of the users table.
Taken(row) == \E u \in Ids : \/ users[u].email = row.email
                             \/ row.sub # NoSub /\ users[u].sub = row.sub

Begin(r) == pc[r] = "idle" /\ requests < MaxRequests /\ requests' = requests + 1

\* The next step of the operation; its answer, whatever the status.
Step(r, label, j) == pc' = [pc EXCEPT ![r] = label] /\ job' = [job EXCEPT ![r] = j]
Answer(r) == Step(r, "idle", NoJob)

\* An exception ends a request with a 500, and start-up with the process.
Raise(r) == Step(r, IF job[r].op = "bootstrap" THEN "down" ELSE "idle", NoJob)

-----------------------------------------------------------------------------
Init ==
  /\ users = <<>> /\ sessions = {} /\ vault = {} /\ mail = {}
  /\ flows = [f \in Flows |-> [claim |-> NoClaim, spent |-> FALSE]]
  /\ pc = [r \in Replicas |-> "down"]
  /\ job = [r \in Replicas |-> NoJob]
  /\ opened = {} /\ proved = {}
  /\ requests = 0
  /\ WindowsInit

-----------------------------------------------------------------------------
(* Start-up: lifespan awaits bootstrap_admin before the first request       *)

\* Mutation of BootstrapAdmin: serve at once and leave the rest for later.
ServeAtOnce(r) ==
  /\ pc[r] = "down"
  /\ Answer(r)
  /\ UNCHANGED <<tables, mail, flows, opened, proved, requests>>

\* Nothing to do: no admin is configured, or the address has a row, compared as
\* the environment spells it.
AdminKnown == AdminEmail = NoEmail \/ \E u \in Ids : users[u].email = AdminEmail

BootstrapAdmin(r) ==
  /\ pc[r] = "down"
  /\ \/ AdminKnown /\ Answer(r)
     \/ ~AdminKnown /\ Step(r, "check", [NoJob EXCEPT !.op = "bootstrap",
                                                      !.email = Normal[AdminEmail]])
  /\ UNCHANGED <<tables, mail, flows, opened, proved, requests>>

-----------------------------------------------------------------------------
(* Password accounts.  Where a window is checked, it is before the lookup.  *)

Register(r) ==
  /\ "signup" \in Enabled
  /\ Begin(r) /\ PassIp("register")
  /\ \E e \in Emails : Step(r, "check", [NoJob EXCEPT !.op = "register", !.email = Normal[e]])
  /\ UNCHANGED <<tables, mail, flows, opened, proved>>

\* UserManager.create, first its lookup, then its insert.
CheckEmail(r) ==
  /\ pc[r] = "check"
  /\ \/ ByEmail(job[r].email) = {} /\ Step(r, "insert", job[r])
     \/ ByEmail(job[r].email) # {} /\ Raise(r)
  /\ UNCHANGED <<tables, mail, flows, opened, proved, requests>>

InsertUser(r) ==
  /\ pc[r] = "insert"
  /\ LET row == [email |-> job[r].email, sub |-> NoSub, verified |-> job[r].op = "bootstrap",
                 hash |-> 1, typed |-> TRUE]
     IN  \/ Taken(row) /\ Raise(r) /\ UNCHANGED users
         \/ ~Taken(row) /\ Answer(r) /\ users' = Append(users, row)
  /\ UNCHANGED <<sessions, vault, mail, flows, opened, proved, requests>>

\* Mutation of BodyKey: every spelling of an address has a window of its own.
BodyKeyAsTyped(e) == e

\* The key of a body window: the address in lower case.
BodyKey(e) == Mailbox[e]

\* A request about an address: the windows, then the handler.
Attempt(r, route, e) == Begin(r) /\ PassBoth(route, BodyKey(e), Found(e))

\* The right password; a wrong one, an unknown user or two are answered at once.
Login(r) ==
  /\ \E e \in Emails :
       /\ Attempt(r, "login", e)
       /\ \/ \E u \in Found(e) : /\ users[u].typed
                                 /\ Step(r, "token", [NoJob EXCEPT !.op = "login", !.user = u])
          \/ UNCHANGED <<pc, job>>
  /\ UNCHANGED <<tables, mail, flows, opened, proved>>

\* A reset token carries a fingerprint of the password hash.
ForgotPassword(r) ==
  /\ "password_reset" \in Enabled
  /\ \E e \in Emails :
       /\ Attempt(r, "forgot", e)
       /\ mail' = mail \cup {[kind |-> "reset", user |-> u, hash |-> users[u].hash] : u \in Found(e)}
  /\ UNCHANGED <<tables, flows, pc, job, opened, proved>>

\* The owner of the mailbox sends the token back; one that does not match the
\* hash any more is refused, but counted.
ResetPassword(r) ==
  /\ Begin(r)
  /\ \E t \in mail :
       /\ t.kind = "reset" /\ PassBoth("reset", t, {})
       /\ \/ /\ users[t.user].hash = t.hash
             /\ Step(r, "reset", [NoJob EXCEPT !.op = "reset", !.user = t.user,
                                               !.row = users[t.user]])
          \/ users[t.user].hash # t.hash /\ UNCHANGED <<pc, job>>
  /\ UNCHANGED <<tables, mail, flows, opened, proved>>

\* Mutation of SetPassword: write back every column of the row as loaded.
SetWholeRow(r) ==
  /\ pc[r] = "reset"
  /\ users' = [users EXCEPT ![job[r].user] =
                 [job[r].row EXCEPT !.hash = users[job[r].user].hash + 1, !.typed = TRUE]]
  /\ Answer(r)
  /\ UNCHANGED <<sessions, vault, mail, flows, opened, proved, requests>>

SetPassword(r) ==
  /\ pc[r] = "reset"
  /\ LET u == job[r].user
     IN  users' = [users EXCEPT ![u] = [users[u] EXCEPT !.hash = users[u].hash + 1,
                                                        !.typed = TRUE]]
  /\ Answer(r)
  /\ UNCHANGED <<sessions, vault, mail, flows, opened, proved, requests>>

RequestVerify(r) ==
  /\ "email_verify" \in Enabled
  /\ \E e \in Emails :
       /\ Attempt(r, "request_verify", e)
       /\ mail' = mail \cup {[kind |-> "verify", user |-> u, hash |-> 0] :
                               u \in {v \in Found(e) : ~users[v].verified}}
  /\ UNCHANGED <<tables, flows, pc, job, opened, proved>>

Verify(r) ==
  /\ Begin(r)
  /\ \E t \in mail :
       /\ t.kind = "verify" /\ ~users[t.user].verified
       /\ t.user \in Found(users[t.user].email)
       /\ Step(r, "verify", [NoJob EXCEPT !.op = "verify", !.user = t.user])
       /\ proved' = proved \cup {Mailbox[users[t.user].email]}
  /\ UNCHANGED <<tables, mail, flows, opened>>

SetVerified(r) ==
  /\ pc[r] = "verify"
  /\ users' = [users EXCEPT ![job[r].user].verified = TRUE]
  /\ Answer(r)
  /\ UNCHANGED <<sessions, vault, mail, flows, opened, proved, requests>>

\* A request that the handler's own window refuses.
TooManyRequests(r) ==
  /\ Begin(r)
  /\ \/ \E e \in Emails, route \in {"login", "forgot", "request_verify"} :
          RefusedByKey(route, BodyKey(e))
     \/ \E t \in mail : t.kind = "reset" /\ RefusedByKey("reset", t)
  /\ UNCHANGED <<tables, mail, flows, pc, job, opened, proved>>

-----------------------------------------------------------------------------
(* OIDC login                                                               *)

\* decode_state accepts what a login signed; the state is stored nowhere.
Begun(f) == flows[f].claim # NoClaim

\* The browser comes back from the provider with a code for the identity that
\* was authenticated there.
OidcLogin(f) ==
  /\ "oidc" \in Enabled /\ ~Begun(f)
  /\ \E c \in Claims :
       /\ flows' = [flows EXCEPT ![f].claim = c]
       /\ proved' = IF c.vouched THEN proved \cup {Mailbox[c.email]} ELSE proved
  /\ UNCHANGED <<tables, mail, pc, job, opened, requests>>

\* Mutation of NonceMatches: accept any valid id_token.
AnyNonce(f, g) == f \in Flows /\ g \in Flows

\* The nonce in the id_token of g's code is the one that the state of f holds.
NonceMatches(f, g) == f = g

\* A callback with the state of f and the code of g, which the exchange spends;
\* a provider that enforced PKCE would already refuse to exchange a mix.
OidcCallback(r) ==
  /\ Begin(r) /\ PassIp("callback")
  /\ \E f, g \in Flows :
       /\ Begun(f) /\ Begun(g) /\ ~flows[g].spent
       /\ flows' = [flows EXCEPT ![g].spent = TRUE]
       /\ \/ /\ NonceMatches(f, g)
             /\ Step(r, "find_sub", [NoJob EXCEPT !.op = "oidc", !.claim = flows[g].claim,
                                                  !.flow = f])
          \/ UNCHANGED <<pc, job>>
  /\ UNCHANGED <<tables, mail, opened, proved>>

FindBySub(r) ==
  /\ pc[r] = "find_sub"
  /\ \/ BySub(job[r].claim.sub) = {} /\ Step(r, "find_email", job[r])
     \/ \E u \in BySub(job[r].claim.sub) : Step(r, "token", [job[r] EXCEPT !.user = u])
  /\ UNCHANGED <<tables, mail, flows, opened, proved, requests>>

\* Mutation of MayLink: link whatever the provider says of the address.
LinksAll(u, c) == users[u].sub = NoSub /\ c \in Claims

\* Policy 2: the address has an account without a subject.
MayLink(u, c) == users[u].sub = NoSub /\ c.vouched

\* Policies 2 to 5 of resolve_oidc_user.
FindByEmail(r) ==
  /\ pc[r] = "find_email"
  /\ LET c     == job[r].claim
         found == ByEmail(c.email)
     IN  \/ Cardinality(found) > 1 /\ Raise(r)
         \/ \E u \in found :
              /\ found = {u}
              /\ \/ users[u].sub = c.sub /\ Step(r, "token", [job[r] EXCEPT !.user = u])
                 \/ MayLink(u, c) /\ Step(r, "link", [job[r] EXCEPT !.user = u])
                 \/ users[u].sub # c.sub /\ ~MayLink(u, c) /\ Answer(r)
         \/ found = {} /\ "signup" \in Enabled /\ c.vouched /\ Step(r, "provision", job[r])
         \/ found = {} /\ ~("signup" \in Enabled /\ c.vouched) /\ Answer(r)
  /\ UNCHANGED <<tables, mail, flows, opened, proved, requests>>

LinkAccount(r) ==
  /\ pc[r] = "link"
  /\ LET u == job[r].user
         s == job[r].claim.sub
     IN  \/ BySub(s) \ {u} # {} /\ Raise(r) /\ UNCHANGED users
         \/ /\ BySub(s) \subseteq {u}
            /\ users' = [users EXCEPT ![u] = [users[u] EXCEPT !.sub = s, !.verified = TRUE,
                                                 !.hash = users[u].hash + 1, !.typed = FALSE]]
            /\ Step(r, "token", job[r])
  /\ UNCHANGED <<sessions, vault, mail, flows, opened, proved, requests>>

\* Mutation of ProvisionAccount: go on with a user that has no id yet.
ProvisionUnflushed(r) ==
  /\ pc[r] = "provision"
  /\ LET c   == job[r].claim
         row == [email |-> c.email, sub |-> c.sub, verified |-> TRUE, hash |-> 1, typed |-> FALSE]
     IN  \/ Taken(row) /\ Raise(r) /\ UNCHANGED users
         \/ ~Taken(row) /\ users' = Append(users, row) /\ Step(r, "token", job[r])
  /\ UNCHANGED <<sessions, vault, mail, flows, opened, proved, requests>>

ProvisionAccount(r) ==
  /\ pc[r] = "provision"
  /\ LET c   == job[r].claim
         row == [email |-> c.email, sub |-> c.sub, verified |-> TRUE, hash |-> 1, typed |-> FALSE]
     IN  \/ Taken(row) /\ Raise(r) /\ UNCHANGED users
         \/ /\ ~Taken(row)
            /\ users' = Append(users, row)
            /\ Step(r, "token", [job[r] EXCEPT !.user = Len(users) + 1])
  /\ UNCHANGED <<sessions, vault, mail, flows, opened, proved, requests>>

\* The access token is a row and a commit of its own.
WriteToken(r) ==
  /\ pc[r] = "token"
  /\ sessions' = sessions \cup {job[r].user}
  /\ opened' = opened \cup {[flow |-> f, sub |-> job[r].claim.sub, user |-> job[r].user] :
                              f \in {job[r].flow} \cap Flows}
  /\ Answer(r)
  /\ UNCHANGED <<users, vault, mail, flows, proved, requests>>

-----------------------------------------------------------------------------
(* The vault: store_credential looks for a row of the user and the plugin,  *)
(* and inserts one if there is none.  Replacing the key of a row leaves the *)
(* rows as they are.                                                        *)

Keys(u) == {k \in vault : k.user = u}

StoreCredential(r) ==
  /\ Begin(r)
  /\ \E u \in sessions :
       Keys(u) = {} /\ Step(r, "add_key", [NoJob EXCEPT !.op = "store", !.user = u])
  /\ UNCHANGED <<tables, mail, flows, opened, proved>>

\* UniqueConstraint("user_id", "plugin_name")
KeyTaken(u) == Keys(u) # {}

AddKey(r) ==
  /\ pc[r] = "add_key"
  /\ LET u == job[r].user
     IN  \/ KeyTaken(u) /\ Raise(r) /\ UNCHANGED vault
         \/ /\ ~KeyTaken(u)
            /\ vault' = vault \cup {[user |-> u, row |-> Cardinality(Keys(u)) + 1]}
            /\ Answer(r)
  /\ UNCHANGED <<users, sessions, mail, flows, opened, proved, requests>>

DeleteCredential(r) ==
  /\ Begin(r)
  /\ \E u \in sessions : Keys(u) # {} /\ vault' = vault \ Keys(u)
  /\ UNCHANGED <<users, sessions, mail, flows, pc, job, opened, proved>>

-----------------------------------------------------------------------------
\* The process dies, between any two steps; whoever runs it starts it again.
Crash(r) ==
  /\ pc[r] # "down" /\ requests < MaxRequests
  /\ requests' = requests + 1
  /\ Step(r, "down", NoJob)
  /\ UNCHANGED <<tables, mail, flows, opened, proved>>

\* What the rate limiters guard.
Limited(r) ==
  \/ Register(r) \/ Login(r) \/ ForgotPassword(r) \/ RequestVerify(r)
  \/ ResetPassword(r) \/ OidcCallback(r) \/ TooManyRequests(r)

Unlimited(r) ==
  \/ BootstrapAdmin(r) \/ CheckEmail(r) \/ InsertUser(r)
  \/ SetPassword(r) \/ Verify(r) \/ SetVerified(r)
  \/ FindBySub(r) \/ FindByEmail(r) \/ LinkAccount(r) \/ ProvisionAccount(r) \/ WriteToken(r)
  \/ StoreCredential(r) \/ AddKey(r) \/ DeleteCredential(r)
  \/ Crash(r)

Next ==
  \/ \E r \in Replicas : Limited(r)
  \/ /\ \/ \E r \in Replicas : Unlimited(r)
        \/ \E f \in Flows : OidcLogin(f)
     /\ UNCHANGED windows
  \/ /\ WindowPasses
     /\ UNCHANGED <<tables, mail, flows, pc, job, opened, proved, requests>>

Spec == Init /\ [][Next]_vars

-----------------------------------------------------------------------------
(* Properties                                                               *)

TypeOK ==
  /\ users \in Seq(Row)
  /\ sessions \subseteq Ids
  /\ \A k \in vault : k.user \in Ids
  /\ \A t \in mail : t.user \in Ids
  /\ \A f \in Flows : flows[f].claim \in Claims \cup {NoClaim}
  /\ DOMAIN pc = Replicas
  /\ \A r \in Replicas :
       /\ pc[r] \in {"reset", "verify", "link", "token", "add_key"} => job[r].user \in Ids
       /\ job[r].claim \in Claims \cup {NoClaim}

\* A subject that shares its mailbox with no other signs in to one account for
\* ever, whichever spelling of its address the provider sends and however its
\* first logins interleave: a login that lost the race fails.
Exclusive(s) ==
  \A c, d \in Claims : c.sub = s /\ Mailbox[c.email] = Mailbox[d.email] => d.sub = s
SubjectIsStable ==
  \A o, p \in opened : o.sub = p.sub /\ Exclusive(o.sub) => o.user = p.user

\* A login opens at most one session, for the subject that was authenticated in
\* it: a callback that mixes two logins is refused.
LoginIsOwn ==
  \A o, p \in opened : /\ o.sub = flows[o.flow].claim.sub
                       /\ o.flow = p.flow => o = p

\* The row that start-up makes for the configured address, as EmailStr spells it.
AdminRow(u) == AdminEmail # NoEmail /\ users[u].email = Normal[AdminEmail]

\* An account other than the admin's is verified only when somebody was shown
\* to own its mailbox: by the mailed token, or by the provider's claim.
VerifiedWasProved ==
  \A u \in Ids : users[u].verified => AdminRow(u) \/ Mailbox[users[u].email] \in proved

\* Overlapping operations on one account do not undo each other: a reset, a
\* verification or a link that loaded the row earlier takes neither a
\* verification nor a link away, and no row disappears.
NothingUndone ==
  [][\A u \in Ids : /\ u \in DOMAIN users'
                    /\ users'[u].email = users[u].email
                    /\ users[u].verified => users'[u].verified
                    /\ users[u].sub # NoSub => users'[u].sub # NoSub]_vars

\* Where an admin is configured, no request is served before its row exists, and
\* nobody takes the address first, in whatever spelling: replicas that start,
\* die and race make the one row, and a row that is not theirs is never there
\* before it.
AdminFirst ==
  \/ AdminEmail = NoEmail
  \/ \E u \in Ids : AdminRow(u)
  \/ /\ users = <<>>
     /\ \A r \in Replicas : pc[r] = "down" \/ job[r].op = "bootstrap"

\* Nobody tries one account more often than its window admits, on each route:
\* however the address is spelled, from however many addresses the requests
\* come or say they come, and whatever accounts appear in between
\* (username_rate_limit_hit: "credential-stuffing one account from many IPs
\* still trips a 429").
AttemptsBounded ==
  \A u \in Ids, route \in {"login", "forgot", "request_verify"} :
    Count(tried, route, u) <= KeyLimit
=============================================================================
