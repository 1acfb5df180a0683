--------------------------- MODULE AccountsProofs ---------------------------
(***************************************************************************)
(* Proofs about Accounts, for any replicas, spellings, claims, logins and  *)
(* limits, and for any number of requests.                                 *)
(***************************************************************************)
EXTENDS Accounts, TLAPS, SequenceTheorems, FiniteSetTheorems

Ops == {"none", "bootstrap", "register", "login", "reset", "verify", "oidc", "store"}
Labels == {"down", "idle", "check", "insert", "reset", "verify", "find_sub", "find_email",
           "link", "provision", "token", "add_key"}
Job == [op : Ops, email : Emails \cup {NoEmail}, user : Nat, row : Row \cup {<<>>},
        claim : Claims \cup {NoClaim}, flow : Flows \cup {NoFlow}]

\* The types that a step relies on and TypeOK need not list.
Typed ==
  /\ users \in Seq(Row)
  /\ sessions \subseteq Ids
  /\ \A k \in vault : k.user \in Ids
  /\ \A t \in mail : t.user \in Ids
  /\ flows \in [Flows -> [claim : Claims \cup {NoClaim}, spent : BOOLEAN]]
  /\ pc \in [Replicas -> Labels]
  /\ job \in [Replicas -> Job]

\* The address of the configured admin, as it is stored.
ForAdmin(email) == AdminEmail # NoEmail /\ email = Normal[AdminEmail]

\* What the operation of a replica knows where it stands.
JobFits(r) ==
  /\ pc[r] \in {"down", "idle"} => job[r] = NoJob
  /\ pc[r] \in {"check", "insert"} => job[r].email \in Emails /\ job[r].flow = NoFlow
  /\ pc[r] \in {"reset", "verify", "add_key"} => job[r].user \in Ids /\ job[r].flow = NoFlow
  /\ pc[r] \in {"find_sub", "find_email", "link", "provision"} =>
       job[r].claim \in Claims /\ job[r].flow \in Flows
  /\ pc[r] \in {"link", "token"} => job[r].user \in Ids
  /\ job[r].flow \in Flows => job[r].claim \in Claims
  /\ job[r].op = "bootstrap" => pc[r] \in {"check", "insert"} /\ ForAdmin(job[r].email)

Shape == Typed /\ \A r \in Replicas : JobFits(r)

\* What no step takes away from a row.
Kept == \A u \in Ids : /\ u \in DOMAIN users'
                       /\ users'[u].email = users[u].email
                       /\ users[u].verified => users'[u].verified
                       /\ users[u].sub # NoSub => users'[u].sub # NoSub

-----------------------------------------------------------------------------
(* Who writes what                                                          *)

LEMMA UsersChange ==
  ASSUME [Next]_vars
  PROVE  \/ UNCHANGED users
         \/ \E r \in Replicas : \/ InsertUser(r) \/ SetPassword(r) \/ SetVerified(r)
                                \/ LinkAccount(r) \/ ProvisionAccount(r)
<1>1. CASE UNCHANGED vars
  BY <1>1 DEF vars, tables
<1>2. ASSUME NEW r \in Replicas, Limited(r)
      PROVE  UNCHANGED users
  BY <1>2 DEF Limited, Register, Login, ForgotPassword, RequestVerify, ResetPassword,
              OidcCallback, TooManyRequests, tables
<1>3. ASSUME NEW r \in Replicas, Unlimited(r)
      PROVE  \/ UNCHANGED users
             \/ InsertUser(r) \/ SetPassword(r) \/ SetVerified(r)
             \/ LinkAccount(r) \/ ProvisionAccount(r)
  BY <1>3 DEF Unlimited, BootstrapAdmin, CheckEmail, Verify, FindBySub, FindByEmail,
              WriteToken, StoreCredential, AddKey, DeleteCredential, Crash, tables
<1>4. ASSUME NEW f \in Flows, OidcLogin(f)
      PROVE  UNCHANGED users
  BY <1>4 DEF OidcLogin, tables
<1>5. CASE WindowPasses /\ UNCHANGED <<tables, mail, flows, pc, job, opened, proved, requests>>
  BY <1>5 DEF tables
<1> QED
  BY <1>1, <1>2, <1>3, <1>4, <1>5 DEF Next

\* A step of a replica leaves what the others stand before.
LEMMA OthersStay ==
  ASSUME Typed, NEW r \in Replicas, Limited(r) \/ Unlimited(r)
  PROVE  \A q \in Replicas \ {r} : pc'[q] = pc[q] /\ job'[q] = job[q]
<1>1. CASE Limited(r)
  BY <1>1 DEF Limited, Register, Login, ForgotPassword, RequestVerify, ResetPassword,
              OidcCallback, TooManyRequests, Step, Typed
<1>2. CASE Unlimited(r)
  BY <1>2 DEF Unlimited, BootstrapAdmin, CheckEmail, InsertUser, SetPassword, Verify,
              SetVerified, FindBySub, FindByEmail, LinkAccount, ProvisionAccount,
              WriteToken, StoreCredential, AddKey, DeleteCredential, Crash,
              Step, Answer, Raise, Typed
<1> QED
  BY <1>1, <1>2

-----------------------------------------------------------------------------
(* The rows of the users table                                              *)

\* One column set of one row, or a row more.
LEMMA RowReplaced ==
  ASSUME Typed, NEW u \in Ids, NEW row \in Row, users' = [users EXCEPT ![u] = row],
         row.email = users[u].email,
         users[u].verified => row.verified,
         users[u].sub # NoSub => row.sub # NoSub
  PROVE  users' \in Seq(Row) /\ DOMAIN users' = Ids /\ Kept
<1>1. Ids = 1 .. Len(users)
  BY LenProperties DEF Typed, Ids
<1>2. users' \in Seq(Row) /\ Len(users') = Len(users)
  BY <1>1, ExceptSeq DEF Typed
<1>3. DOMAIN users' = Ids
  BY <1>1, <1>2, LenProperties
<1>4. \A v \in Ids : users'[v] = IF v = u THEN row ELSE users[v]
  BY <1>1, ExceptSeq DEF Typed
<1> QED
  BY <1>2, <1>3, <1>4 DEF Kept

LEMMA RowAdded ==
  ASSUME Typed, NEW row \in Row, users' = Append(users, row)
  PROVE  /\ users' \in Seq(Row)
         /\ DOMAIN users' = Ids \cup {Len(users) + 1}
         /\ Len(users) + 1 \in Nat /\ Len(users) + 1 \notin Ids
         /\ \A u \in Ids : users'[u] = users[u]
         /\ users'[Len(users) + 1] = row
         /\ Kept
<1>1. Ids = 1 .. Len(users) /\ Len(users) \in Nat
  BY LenProperties DEF Typed, Ids
<1>2. /\ users' \in Seq(Row) /\ Len(users') = Len(users) + 1
      /\ \A u \in Ids : users'[u] = users[u]
      /\ users'[Len(users) + 1] = row
  BY <1>1, AppendProperties DEF Typed
<1>3. DOMAIN users' = 1 .. Len(users')
  BY <1>2, LenProperties
<1> QED
  BY <1>1, <1>2, <1>3 DEF Kept

\* users[u] is a row, field by field.
LEMMA RowTyped ==
  ASSUME Typed, NEW u \in Ids
  PROVE  /\ users[u] \in Row
         /\ users[u] = [email |-> users[u].email, sub |-> users[u].sub,
                        verified |-> users[u].verified, hash |-> users[u].hash,
                        typed |-> users[u].typed]
<1>1. users[u] \in Row
  BY ElementOfSeq, LenProperties DEF Typed, Ids
<1> QED
  BY <1>1 DEF Row

\* What the assignments of the handlers make of a row.
LEMMA PasswordAssigned ==
  ASSUME NEW row \in Row, NEW new, new = [row EXCEPT !.hash = row.hash + 1, !.typed = TRUE]
  PROVE  /\ new \in Row /\ new.email = row.email /\ new.sub = row.sub
         /\ new.verified = row.verified
<1>1. new = [email |-> row.email, sub |-> row.sub, verified |-> row.verified,
             hash |-> row.hash + 1, typed |-> TRUE]
  BY DEF Row
<1>2. /\ row.email \in Emails /\ row.sub \in Subs \cup {NoSub}
      /\ row.verified \in BOOLEAN /\ row.hash + 1 \in Nat
  BY DEF Row
<1>3. new \in Row
  BY <1>1, <1>2 DEF Row
<1> QED
  BY <1>1, <1>3

LEMMA LinkAssigned ==
  ASSUME NEW row \in Row, NEW s \in Subs, NEW new,
         new = [row EXCEPT !.sub = s, !.verified = TRUE, !.hash = row.hash + 1, !.typed = FALSE]
  PROVE  new \in Row /\ new.email = row.email /\ new.sub = s /\ new.verified
<1>1. new = [email |-> row.email, sub |-> s, verified |-> TRUE,
             hash |-> row.hash + 1, typed |-> FALSE]
  BY DEF Row
<1>2. row.email \in Emails /\ row.hash + 1 \in Nat
  BY DEF Row
<1>3. new \in Row
  BY <1>1, <1>2 DEF Row
<1> QED
  BY <1>1, <1>3

\* Each write of the table, whose row it is and what it leaves of it.
LEMMA InsertUserRow ==
  ASSUME Shape, NEW r \in Replicas, InsertUser(r), ~UNCHANGED users
  PROVE  \E row \in Row : /\ users' = Append(users, row) /\ ~Taken(row)
                          /\ row.email = job[r].email /\ row.sub = NoSub
                          /\ row.verified = (job[r].op = "bootstrap")
<1> DEFINE row == [email |-> job[r].email, sub |-> NoSub, verified |-> job[r].op = "bootstrap",
                   hash |-> 1, typed |-> TRUE]
<1>1. row \in Row
  BY DEF Shape, JobFits, InsertUser, Row
<1>2. users' = Append(users, row) /\ ~Taken(row)
  BY DEF InsertUser
<1> QED
  BY <1>1, <1>2

LEMMA SetPasswordRow ==
  ASSUME Shape, NEW r \in Replicas, SetPassword(r)
  PROVE  \E row \in Row : /\ users' = [users EXCEPT ![job[r].user] = row]
                          /\ job[r].user \in Ids
                          /\ row.email = users[job[r].user].email
                          /\ row.sub = users[job[r].user].sub
                          /\ row.verified = users[job[r].user].verified
<1> DEFINE u == job[r].user
           row == [users[u] EXCEPT !.hash = users[u].hash + 1, !.typed = TRUE]
<1>1. u \in Ids
  BY DEF Shape, JobFits, SetPassword
<1>2. row \in Row /\ row.email = users[u].email /\ row.sub = users[u].sub
      /\ row.verified = users[u].verified
  BY <1>1, RowTyped, PasswordAssigned DEF Shape
<1>3. users' = [users EXCEPT ![u] = row]
  BY DEF SetPassword
<1> QED
  BY <1>1, <1>2, <1>3

LEMMA SetVerifiedRow ==
  ASSUME Shape, NEW r \in Replicas, SetVerified(r)
  PROVE  \E row \in Row : /\ users' = [users EXCEPT ![job[r].user] = row]
                          /\ job[r].user \in Ids
                          /\ row.email = users[job[r].user].email
                          /\ row.sub = users[job[r].user].sub
                          /\ row.verified
<1> DEFINE u == job[r].user
           row == [users[u] EXCEPT !.verified = TRUE]
<1>1. u \in Ids
  BY DEF Shape, JobFits, SetVerified
<1>2. row \in Row /\ row.email = users[u].email /\ row.sub = users[u].sub /\ row.verified
  BY <1>1, RowTyped DEF Shape, Row
<1>3. users' = [users EXCEPT ![u] = row]
  BY DEF SetVerified
<1> QED
  BY <1>1, <1>2, <1>3

LEMMA LinkAccountRow ==
  ASSUME Shape, NEW r \in Replicas, LinkAccount(r), ~UNCHANGED users
  PROVE  \E row \in Row : /\ users' = [users EXCEPT ![job[r].user] = row]
                          /\ job[r].user \in Ids
                          /\ row.email = users[job[r].user].email
                          /\ row.sub = job[r].claim.sub /\ row.sub \in Subs
                          /\ row.sub # NoSub
                          /\ row.verified
                          /\ BySub(row.sub) \subseteq {job[r].user}
<1> DEFINE u == job[r].user
           s == job[r].claim.sub
           row == [users[u] EXCEPT !.sub = s, !.verified = TRUE, !.hash = users[u].hash + 1, !.typed = FALSE]
<1>1. u \in Ids /\ job[r].claim \in Claims
  BY DEF Shape, JobFits, LinkAccount
<1>2. s \in Subs /\ s # NoSub
  BY <1>1, ConstantsOK DEF Subs
<1>3. row \in Row /\ row.email = users[u].email /\ row.sub = s /\ row.verified
  BY <1>1, <1>2, RowTyped, LinkAssigned DEF Shape
<1>4. users' = [users EXCEPT ![u] = row] /\ BySub(s) \subseteq {u}
  BY DEF LinkAccount
<1> QED
  BY <1>1, <1>2, <1>3, <1>4

LEMMA ProvisionAccountRow ==
  ASSUME Shape, NEW r \in Replicas, ProvisionAccount(r), ~UNCHANGED users
  PROVE  \E row \in Row : /\ users' = Append(users, row) /\ ~Taken(row)
                          /\ job[r].claim \in Claims
                          /\ row.email = job[r].claim.email
                          /\ row.sub = job[r].claim.sub /\ row.sub # NoSub
                          /\ row.verified
<1> DEFINE c == job[r].claim
           row == [email |-> c.email, sub |-> c.sub, verified |-> TRUE, hash |-> 1,
                   typed |-> FALSE]
<1>1. c \in Claims
  BY DEF Shape, JobFits, ProvisionAccount
<1>2. c.email \in Emails /\ c.sub \in Subs /\ c.sub # NoSub
  BY <1>1, ConstantsOK DEF Subs
<1>3. row \in Row
  BY <1>2 DEF Row
<1>4. users' = Append(users, row) /\ ~Taken(row)
  BY DEF ProvisionAccount
<1> QED
  BY <1>1, <1>2, <1>3, <1>4

\* No step of the program loses a row or undoes what another wrote to it.
LEMMA RowsKept ==
  ASSUME Shape, [Next]_vars
  PROVE  users' \in Seq(Row) /\ Kept
<1>1. CASE UNCHANGED users
  BY <1>1 DEF Shape, Typed, Kept, Ids
<1>2. ASSUME NEW r \in Replicas, InsertUser(r), ~UNCHANGED users
      PROVE  users' \in Seq(Row) /\ Kept
  BY <1>2, InsertUserRow, RowAdded DEF Shape
<1>3. ASSUME NEW r \in Replicas, SetPassword(r)
      PROVE  users' \in Seq(Row) /\ Kept
  BY <1>3, SetPasswordRow, RowReplaced DEF Shape
<1>4. ASSUME NEW r \in Replicas, SetVerified(r)
      PROVE  users' \in Seq(Row) /\ Kept
  BY <1>4, SetVerifiedRow, RowReplaced DEF Shape
<1>5. ASSUME NEW r \in Replicas, LinkAccount(r), ~UNCHANGED users
      PROVE  users' \in Seq(Row) /\ Kept
  BY <1>5, LinkAccountRow, RowReplaced DEF Shape
<1>6. ASSUME NEW r \in Replicas, ProvisionAccount(r), ~UNCHANGED users
      PROVE  users' \in Seq(Row) /\ Kept
  BY <1>6, ProvisionAccountRow, RowAdded DEF Shape
<1> QED
  BY <1>1, <1>2, <1>3, <1>4, <1>5, <1>6, UsersChange

-----------------------------------------------------------------------------
(* The operation of a replica                                               *)

\* The next step of an operation, as a typed one.
LEMMA StepTyped ==
  ASSUME Typed, NEW r \in Replicas, NEW label \in Labels, NEW j \in Job, Step(r, label, j)
  PROVE  /\ pc' \in [Replicas -> Labels] /\ pc'[r] = label
         /\ job' \in [Replicas -> Job] /\ job'[r] = j
  BY DEF Typed, Step

LEMMA NoJobTyped == NoJob \in Job
  BY DEF NoJob, Job, Ops

\* A lookup that found its row.
LEMMA WithUser ==
  ASSUME NEW j \in Job, NEW u \in Nat, NEW k, k = [j EXCEPT !.user = u]
  PROVE  /\ k \in Job /\ k.op = j.op /\ k.email = j.email /\ k.user = u
         /\ k.claim = j.claim /\ k.flow = j.flow
  BY DEF Job

LEMMA IdsAreNat == ASSUME Typed PROVE Ids \subseteq Nat
  BY LenProperties DEF Typed, Ids

\* What a step leaves of the operation fits, and a login keeps its identity
\* from its first lookup to its last write.
Advances(r) ==
  /\ pc' \in [Replicas -> Labels]
  /\ job' \in [Replicas -> Job]
  /\ JobFits(r)'
  /\ job'[r].flow \in Flows /\ pc'[r] # "find_sub" =>
       job'[r].flow = job[r].flow /\ job'[r].claim = job[r].claim

\* An answer, or the end of the process.
LEMMA AnswerFits ==
  ASSUME Shape, NEW r \in Replicas, Answer(r) \/ Raise(r) \/ Step(r, "down", NoJob)
  PROVE  Advances(r)
<1>1. \E label \in {"idle", "down"} : Step(r, label, NoJob)
  BY DEF Answer, Raise
<1>2. PICK label \in {"idle", "down"} : Step(r, label, NoJob)
  BY <1>1
<1>3. /\ pc' \in [Replicas -> Labels] /\ pc'[r] = label
      /\ job' \in [Replicas -> Job] /\ job'[r] = NoJob
  BY <1>2, StepTyped, NoJobTyped DEF Shape, Labels
<1>4. NoJob.flow \notin Flows /\ NoJob.op # "bootstrap"
  BY ConstantsOK DEF NoJob
<1> QED
  BY <1>3, <1>4 DEF Advances, JobFits

\* A request that is answered in its first step leaves the replica idle.
LEMMA IdleFits ==
  ASSUME Shape, Kept, NEW r \in Replicas, UNCHANGED <<pc, job>>
  PROVE  Advances(r)
  BY DEF Shape, Typed, Advances, JobFits, Kept, Ids

\* The operations of password accounts and of the vault.
LEMMA UserJobFits ==
  ASSUME Shape, Kept, NEW r \in Replicas, NEW label \in {"reset", "verify", "token", "add_key"},
         NEW j \in Job, Step(r, label, j), j.op # "bootstrap", j.user \in Ids, j.flow = NoFlow
  PROVE  Advances(r)
<1>1. /\ pc' \in [Replicas -> Labels] /\ pc'[r] = label
      /\ job' \in [Replicas -> Job] /\ job'[r] = j
  BY StepTyped DEF Shape, Labels
<1>2. j.user \in DOMAIN users'
  BY DEF Kept
<1> QED
  BY <1>1, <1>2, ConstantsOK DEF Advances, JobFits, Ids

LEMMA EmailJobFits ==
  ASSUME Shape, NEW r \in Replicas, NEW label \in {"check", "insert"}, NEW j \in Job,
         Step(r, label, j), j.email \in Emails, j.flow = NoFlow,
         j.op = "bootstrap" => ForAdmin(j.email)
  PROVE  Advances(r)
<1>1. /\ pc' \in [Replicas -> Labels] /\ pc'[r] = label
      /\ job' \in [Replicas -> Job] /\ job'[r] = j
  BY StepTyped DEF Shape, Labels
<1> QED
  BY <1>1, ConstantsOK DEF Advances, JobFits

\* The steps of a callback.
LEMMA ClaimJobFits ==
  ASSUME Shape, NEW r \in Replicas, NEW j \in Job,
         NEW label \in {"find_sub", "find_email", "link", "provision", "token"},
         Step(r, label, j), j.claim \in Claims, j.flow \in Flows, j.op # "bootstrap",
         label \in {"link", "token"} => j.user \in DOMAIN users',
         label # "find_sub" => j.flow = job[r].flow /\ j.claim = job[r].claim
  PROVE  Advances(r)
<1>1. /\ pc' \in [Replicas -> Labels] /\ pc'[r] = label
      /\ job' \in [Replicas -> Job] /\ job'[r] = j
  BY StepTyped DEF Shape, Labels
<1> QED
  BY <1>1 DEF Advances, JobFits, Ids

LEMMA LimitedFits ==
  ASSUME Shape, Kept, NEW r \in Replicas, Limited(r)
  PROVE  Advances(r)
<1>1. CASE Register(r)
  <2>1. PICK e \in Emails :
          Step(r, "check", [NoJob EXCEPT !.op = "register", !.email = Normal[e]])
    BY <1>1 DEF Register
  <2> DEFINE j == [NoJob EXCEPT !.op = "register", !.email = Normal[e]]
  <2>2. j \in Job /\ j.email \in Emails /\ j.flow = NoFlow /\ j.op # "bootstrap"
    BY ConstantsOK DEF NoJob, Job, Ops
  <2>3. Step(r, "check", j)
    BY <2>1
  <2> HIDE DEF j
  <2> QED
    BY <2>2, <2>3, EmailJobFits
<1>2. CASE Login(r)
  <2>1. CASE UNCHANGED <<pc, job>>
    BY <2>1, IdleFits
  <2>2. ASSUME NEW e \in Emails, NEW u \in Found(e),
               Step(r, "token", [NoJob EXCEPT !.op = "login", !.user = u])
        PROVE  Advances(r)
    <3>1. u \in Ids /\ u \in Nat
      BY IdsAreNat DEF Found, Shape
    <3> DEFINE j == [NoJob EXCEPT !.op = "login", !.user = u]
    <3>2. j \in Job /\ j.op # "bootstrap" /\ j.user \in Ids /\ j.flow = NoFlow
      BY <3>1 DEF NoJob, Job, Ops
    <3>3. Step(r, "token", j)
      BY <2>2
    <3> HIDE DEF j
    <3> QED
      BY <3>2, <3>3, UserJobFits
  <2> QED
    BY <1>2, <2>1, <2>2 DEF Login
<1>3. CASE ResetPassword(r)
  <2>1. CASE UNCHANGED <<pc, job>>
    BY <2>1, IdleFits
  <2>2. ASSUME NEW t \in mail,
               Step(r, "reset", [NoJob EXCEPT !.op = "reset", !.user = t.user,
                                              !.row = users[t.user]])
        PROVE  Advances(r)
    <3>1. t.user \in Ids /\ t.user \in Nat /\ users[t.user] \in Row
      BY IdsAreNat, RowTyped DEF Shape, Typed
    <3> DEFINE j == [NoJob EXCEPT !.op = "reset", !.user = t.user, !.row = users[t.user]]
    <3>2. j \in Job /\ j.op # "bootstrap" /\ j.user \in Ids /\ j.flow = NoFlow
      BY <3>1 DEF NoJob, Job, Ops
    <3>3. Step(r, "reset", j)
      BY <2>2
    <3> HIDE DEF j
    <3> QED
      BY <3>2, <3>3, UserJobFits
  <2> QED
    BY <1>3, <2>1, <2>2 DEF ResetPassword
<1>4. CASE OidcCallback(r)
  <2>1. CASE UNCHANGED <<pc, job>>
    BY <2>1, IdleFits
  <2>2. ASSUME NEW f \in Flows, NEW g \in Flows, Begun(g),
               Step(r, "find_sub", [NoJob EXCEPT !.op = "oidc", !.claim = flows[g].claim,
                                                 !.flow = f])
        PROVE  Advances(r)
    <3>1. flows[g].claim \in Claims
      BY <2>2 DEF Shape, Typed, Begun
    <3> DEFINE j == [NoJob EXCEPT !.op = "oidc", !.claim = flows[g].claim, !.flow = f]
    <3>2. j \in Job /\ j.claim \in Claims /\ j.flow \in Flows /\ j.op # "bootstrap"
      BY <3>1 DEF NoJob, Job, Ops
    <3>3. Step(r, "find_sub", j)
      BY <2>2
    <3> HIDE DEF j
    <3> QED
      BY <3>2, <3>3, ClaimJobFits
  <2> QED
    BY <1>4, <2>1, <2>2 DEF OidcCallback
<1>5. CASE ForgotPassword(r) \/ RequestVerify(r) \/ TooManyRequests(r)
  BY <1>5, IdleFits DEF ForgotPassword, RequestVerify, TooManyRequests
<1> QED
  BY <1>1, <1>2, <1>3, <1>4, <1>5 DEF Limited

LEMMA UnlimitedFits ==
  ASSUME Shape, Kept, NEW r \in Replicas, Unlimited(r)
  PROVE  Advances(r)
<1> USE DEF Shape, JobFits
<1>j. job[r] \in Job
  BY DEF Typed
<1>1. CASE BootstrapAdmin(r)
  <2>1. CASE Answer(r)
    BY <2>1, AnswerFits
  <2>2. CASE ~Answer(r)
    <3>0. AdminEmail \in Emails /\ AdminEmail # NoEmail
      BY <1>1, <2>2, ConstantsOK DEF BootstrapAdmin, AdminKnown
    <3> DEFINE j == [NoJob EXCEPT !.op = "bootstrap", !.email = Normal[AdminEmail]]
    <3>1. j \in Job /\ j.email \in Emails /\ ForAdmin(j.email) /\ j.flow = NoFlow
      BY <3>0, ConstantsOK DEF NoJob, Job, Ops, ForAdmin
    <3>2. Step(r, "check", j)
      BY <1>1, <2>2 DEF BootstrapAdmin
    <3> HIDE DEF j
    <3> QED
      BY <3>1, <3>2, EmailJobFits, ConstantsOK
  <2> QED
    BY <2>1, <2>2
<1>2. CASE CheckEmail(r)
  <2>1. CASE Raise(r)
    BY <2>1, AnswerFits
  <2>2. CASE Step(r, "insert", job[r])
    BY <1>2, <1>j, <2>2, EmailJobFits DEF CheckEmail
  <2> QED
    BY <1>2, <2>1, <2>2 DEF CheckEmail
<1>3. CASE InsertUser(r) \/ SetPassword(r) \/ SetVerified(r) \/ AddKey(r) \/ WriteToken(r)
           \/ Crash(r)
  BY <1>3, AnswerFits DEF InsertUser, SetPassword, SetVerified, AddKey, WriteToken, Crash
<1>4. CASE Verify(r)
  <2>1. PICK t \in mail : Step(r, "verify", [NoJob EXCEPT !.op = "verify", !.user = t.user])
    BY <1>4 DEF Verify
  <2>2. t.user \in Ids /\ t.user \in Nat
    BY IdsAreNat DEF Typed
  <2> DEFINE j == [NoJob EXCEPT !.op = "verify", !.user = t.user]
  <2>3. j \in Job /\ j.op # "bootstrap" /\ j.user \in Ids /\ j.flow = NoFlow
    BY <2>2 DEF NoJob, Job, Ops
  <2>4. Step(r, "verify", j)
    BY <2>1
  <2> HIDE DEF j
  <2> QED
    BY <2>3, <2>4, UserJobFits
<1>5. CASE FindBySub(r)
  <2>1. CASE Step(r, "find_email", job[r])
    BY <1>5, <1>j, <2>1, ClaimJobFits DEF FindBySub
  <2>2. ASSUME NEW u \in BySub(job[r].claim.sub), Step(r, "token", [job[r] EXCEPT !.user = u])
        PROVE  Advances(r)
    <3>1. u \in Ids /\ u \in Nat /\ u \in DOMAIN users'
      BY IdsAreNat DEF BySub, Kept
    <3>2. pc[r] = "find_sub"
      BY <1>5 DEF FindBySub
    <3> QED
      BY <1>j, <2>2, <3>1, <3>2, WithUser, ClaimJobFits
  <2> QED
    BY <1>5, <2>1, <2>2 DEF FindBySub
<1>6. CASE FindByEmail(r)
  <2>0. pc[r] = "find_email"
    BY <1>6 DEF FindByEmail
  <2>1. CASE Answer(r) \/ Raise(r)
    BY <2>1, AnswerFits
  <2>2. ASSUME NEW u \in ByEmail(job[r].claim.email), NEW label \in {"link", "token"},
               Step(r, label, [job[r] EXCEPT !.user = u])
        PROVE  Advances(r)
    <3>1. u \in Ids /\ u \in Nat /\ u \in DOMAIN users'
      BY IdsAreNat DEF ByEmail, Kept
    <3> QED
      BY <1>j, <2>0, <2>2, <3>1, WithUser, ClaimJobFits
  <2>3. CASE Step(r, "provision", job[r])
    BY <1>j, <2>0, <2>3, ClaimJobFits
  <2> QED
    BY <1>6, <2>1, <2>2, <2>3 DEF FindByEmail
<1>7. CASE LinkAccount(r)
  <2>1. CASE Raise(r)
    BY <2>1, AnswerFits
  <2>2. CASE Step(r, "token", job[r])
    BY <1>7, <1>j, <2>2, ClaimJobFits DEF LinkAccount, Kept
  <2> QED
    BY <1>7, <2>1, <2>2 DEF LinkAccount
<1>8. CASE ProvisionAccount(r)
  <2>1. CASE Raise(r)
    BY <2>1, AnswerFits
  <2>2. CASE ~UNCHANGED users
    <3>1. /\ Len(users) + 1 \in DOMAIN users' /\ Len(users) + 1 \in Nat
      BY <1>8, <2>2, ProvisionAccountRow, RowAdded
    <3>2. CASE Step(r, "token", [job[r] EXCEPT !.user = Len(users) + 1])
      BY <1>8, <1>j, <3>1, <3>2, WithUser, ClaimJobFits DEF ProvisionAccount
    <3> QED
      BY <1>8, <2>1, <3>2 DEF ProvisionAccount
  <2>3. CASE UNCHANGED users
    <3>1. ~\E row \in Row : users' = Append(users, row)
      BY <2>3, RowAdded DEF Ids
    <3>2. Raise(r)
      BY <1>8, <3>1, <1>j, ConstantsOK DEF ProvisionAccount, Row, Subs
    <3> QED
      BY <3>2, <2>1
  <2> QED
    BY <2>2, <2>3
<1>9. CASE StoreCredential(r)
  <2>1. PICK u \in sessions : Step(r, "add_key", [NoJob EXCEPT !.op = "store", !.user = u])
    BY <1>9 DEF StoreCredential
  <2>2. u \in Ids /\ u \in Nat
    BY IdsAreNat DEF Typed
  <2> DEFINE j == [NoJob EXCEPT !.op = "store", !.user = u]
  <2>3. j \in Job /\ j.op # "bootstrap" /\ j.user \in Ids /\ j.flow = NoFlow
    BY <2>2 DEF NoJob, Job, Ops
  <2>4. Step(r, "add_key", j)
    BY <2>1
  <2> HIDE DEF j
  <2> QED
    BY <2>3, <2>4, UserJobFits
<1>10. CASE DeleteCredential(r)
  BY <1>10, IdleFits DEF DeleteCredential
<1> QED
  BY <1>1, <1>2, <1>3, <1>4, <1>5, <1>6, <1>7, <1>8, <1>9, <1>10 DEF Unlimited

LEMMA StayFits ==
  ASSUME Shape, Kept, UNCHANGED <<pc, job>>
  PROVE  /\ pc' \in [Replicas -> Labels] /\ job' \in [Replicas -> Job]
         /\ \A q \in Replicas : JobFits(q)'
  BY DEF Shape, Typed, JobFits, Kept, Ids

LEMMA JobsFit ==
  ASSUME Shape, Kept, [Next]_vars
  PROVE  /\ pc' \in [Replicas -> Labels] /\ job' \in [Replicas -> Job]
         /\ \A q \in Replicas : JobFits(q)'
<1>1. CASE UNCHANGED <<pc, job>>
  BY <1>1, StayFits
<1>2. ASSUME NEW r \in Replicas, Limited(r) \/ Unlimited(r)
      PROVE  /\ pc' \in [Replicas -> Labels] /\ job' \in [Replicas -> Job]
             /\ \A q \in Replicas : JobFits(q)'
  <2>1. Advances(r)
    BY <1>2, LimitedFits, UnlimitedFits
  <2>2. ASSUME NEW q \in Replicas \ {r}
        PROVE  JobFits(q)'
    BY <1>2, <2>2, OthersStay DEF Shape, JobFits, Kept, Ids
  <2> QED
    BY <2>1, <2>2 DEF Advances
<1> QED
  BY <1>1, <1>2 DEF Next, vars, OidcLogin

-----------------------------------------------------------------------------
(* The other tables                                                         *)

LEMMA SessionsChange ==
  ASSUME [Next]_vars
  PROVE  UNCHANGED <<sessions, opened>> \/ \E r \in Replicas : WriteToken(r)
<1>1. ASSUME NEW r \in Replicas, Limited(r)
      PROVE  UNCHANGED <<sessions, opened>>
  BY <1>1 DEF Limited, Register, Login, ForgotPassword, RequestVerify, ResetPassword,
              OidcCallback, TooManyRequests, tables
<1>2. ASSUME NEW r \in Replicas, Unlimited(r)
      PROVE  UNCHANGED <<sessions, opened>> \/ WriteToken(r)
  BY <1>2 DEF Unlimited, BootstrapAdmin, CheckEmail, InsertUser, SetPassword, Verify,
              SetVerified, FindBySub, FindByEmail, LinkAccount, ProvisionAccount,
              StoreCredential, AddKey, DeleteCredential, Crash, tables
<1> QED
  BY <1>1, <1>2 DEF Next, vars, tables, OidcLogin

LEMMA VaultChange ==
  ASSUME [Next]_vars
  PROVE  UNCHANGED vault \/ \E r \in Replicas : AddKey(r) \/ DeleteCredential(r)
<1>1. ASSUME NEW r \in Replicas, Limited(r)
      PROVE  UNCHANGED vault
  BY <1>1 DEF Limited, Register, Login, ForgotPassword, RequestVerify, ResetPassword,
              OidcCallback, TooManyRequests, tables
<1>2. ASSUME NEW r \in Replicas, Unlimited(r)
      PROVE  UNCHANGED vault \/ AddKey(r) \/ DeleteCredential(r)
  BY <1>2 DEF Unlimited, BootstrapAdmin, CheckEmail, InsertUser, SetPassword, Verify,
              SetVerified, FindBySub, FindByEmail, LinkAccount, ProvisionAccount,
              WriteToken, StoreCredential, Crash, tables
<1> QED
  BY <1>1, <1>2 DEF Next, vars, tables, OidcLogin

LEMMA MailChange ==
  ASSUME [Next]_vars
  PROVE  UNCHANGED mail \/ \E r \in Replicas : ForgotPassword(r) \/ RequestVerify(r)
<1>1. ASSUME NEW r \in Replicas, Limited(r)
      PROVE  UNCHANGED mail \/ ForgotPassword(r) \/ RequestVerify(r)
  BY <1>1 DEF Limited, Register, Login, ResetPassword, OidcCallback, TooManyRequests
<1>2. ASSUME NEW r \in Replicas, Unlimited(r)
      PROVE  UNCHANGED mail
  BY <1>2 DEF Unlimited, BootstrapAdmin, CheckEmail, InsertUser, SetPassword, Verify,
              SetVerified, FindBySub, FindByEmail, LinkAccount, ProvisionAccount,
              WriteToken, StoreCredential, AddKey, DeleteCredential, Crash
<1> QED
  BY <1>1, <1>2 DEF Next, vars, OidcLogin

LEMMA FlowsChange ==
  ASSUME [Next]_vars
  PROVE  \/ UNCHANGED flows
         \/ \E r \in Replicas : OidcCallback(r)
         \/ \E f \in Flows : OidcLogin(f)
<1>1. ASSUME NEW r \in Replicas, Limited(r)
      PROVE  UNCHANGED flows \/ OidcCallback(r)
  BY <1>1 DEF Limited, Register, Login, ForgotPassword, RequestVerify, ResetPassword,
              TooManyRequests
<1>2. ASSUME NEW r \in Replicas, Unlimited(r)
      PROVE  UNCHANGED flows
  BY <1>2 DEF Unlimited, BootstrapAdmin, CheckEmail, InsertUser, SetPassword, Verify,
              SetVerified, FindBySub, FindByEmail, LinkAccount, ProvisionAccount,
              WriteToken, StoreCredential, AddKey, DeleteCredential, Crash
<1> QED
  BY <1>1, <1>2 DEF Next, vars

LEMMA ProvedChange ==
  ASSUME [Next]_vars
  PROVE  proved \subseteq proved'
<1>1. ASSUME NEW r \in Replicas, Limited(r)
      PROVE  UNCHANGED proved
  BY <1>1 DEF Limited, Register, Login, ForgotPassword, RequestVerify, ResetPassword,
              OidcCallback, TooManyRequests
<1>2. ASSUME NEW r \in Replicas, Unlimited(r)
      PROVE  proved \subseteq proved'
  BY <1>2 DEF Unlimited, BootstrapAdmin, CheckEmail, InsertUser, SetPassword, Verify,
              SetVerified, FindBySub, FindByEmail, LinkAccount, ProvisionAccount,
              WriteToken, StoreCredential, AddKey, DeleteCredential, Crash
<1> QED
  BY <1>1, <1>2 DEF Next, vars, OidcLogin

LEMMA ShapeStep ==
  ASSUME Shape, [Next]_vars
  PROVE  Shape'
<1>1. users' \in Seq(Row) /\ Kept /\ Ids \subseteq Ids'
  BY RowsKept DEF Kept, Ids
<1>2. sessions' \subseteq Ids'
  <2>1. ASSUME NEW r \in Replicas, WriteToken(r)
        PROVE  sessions' \subseteq Ids'
    BY <1>1, <2>1 DEF Shape, Typed, JobFits, WriteToken
  <2> QED
    BY <1>1, <2>1, SessionsChange DEF Shape, Typed
<1>3. \A k \in vault' : k.user \in Ids'
  <2>1. ASSUME NEW r \in Replicas, AddKey(r)
        PROVE  \A k \in vault' : k.user \in Ids'
    BY <1>1, <2>1 DEF Shape, Typed, JobFits, AddKey
  <2>2. ASSUME NEW r \in Replicas, DeleteCredential(r)
        PROVE  vault' \subseteq vault
    BY <2>2 DEF DeleteCredential
  <2> QED
    BY <1>1, <2>1, <2>2, VaultChange DEF Shape, Typed
<1>4. \A t \in mail' : t.user \in Ids'
  <2>1. ASSUME NEW r \in Replicas, ForgotPassword(r)
        PROVE  \A t \in mail' : t.user \in Ids'
    BY <1>1, <2>1 DEF Shape, Typed, ForgotPassword, Found
  <2>2. ASSUME NEW r \in Replicas, RequestVerify(r)
        PROVE  \A t \in mail' : t.user \in Ids'
    BY <1>1, <2>2 DEF Shape, Typed, RequestVerify, Found
  <2> QED
    BY <1>1, <2>1, <2>2, MailChange DEF Shape, Typed
<1>5. flows' \in [Flows -> [claim : Claims \cup {NoClaim}, spent : BOOLEAN]]
  <2>1. ASSUME NEW r \in Replicas, OidcCallback(r)
        PROVE  flows' \in [Flows -> [claim : Claims \cup {NoClaim}, spent : BOOLEAN]]
    BY <2>1 DEF Shape, Typed, OidcCallback
  <2>2. ASSUME NEW f \in Flows, OidcLogin(f)
        PROVE  flows' \in [Flows -> [claim : Claims \cup {NoClaim}, spent : BOOLEAN]]
    BY <2>2 DEF Shape, Typed, OidcLogin
  <2> QED
    BY <2>1, <2>2, FlowsChange DEF Shape, Typed
<1> QED
  BY <1>1, <1>2, <1>3, <1>4, <1>5, JobsFit DEF Shape, Typed

LEMMA ShapeInit == Init => Shape
<1> SUFFICES ASSUME Init PROVE Shape
  OBVIOUS
<1>1. users \in Seq(Row)
  BY EmptySeq DEF Init
<1>2. NoJob.flow \notin Flows /\ NoJob.op # "bootstrap"
  BY ConstantsOK DEF NoJob
<1> QED
  BY <1>1, <1>2, NoJobTyped DEF Init, Shape, Typed, JobFits, Labels

\* The tables refer to users that exist, and an operation stands where what it
\* has looked up is what its next step needs (TypeOK).
THEOREM TypesHold == Spec => []TypeOK
<1>1. Init => Shape
  BY ShapeInit
<1>2. Shape /\ [Next]_vars => Shape'
  BY ShapeStep
<1>3. Shape => TypeOK
  <2> SUFFICES ASSUME Shape PROVE TypeOK
    OBVIOUS
  <2>1. \A f \in Flows : flows[f].claim \in Claims \cup {NoClaim}
    BY DEF Shape, Typed
  <2>2. ASSUME NEW r \in Replicas
        PROVE  /\ pc[r] \in {"reset", "verify", "link", "token", "add_key"} => job[r].user \in Ids
               /\ job[r].claim \in Claims \cup {NoClaim}
    <3>1. job[r] \in Job
      BY DEF Shape, Typed
    <3> QED
      BY <3>1 DEF Shape, JobFits, Job
  <2> QED
    BY <2>1, <2>2 DEF Shape, Typed, TypeOK
<1> QED
  BY <1>1, <1>2, <1>3, PTL DEF Spec

\* A reset, a verification or a link that loaded its row earlier undoes nothing
\* that another operation wrote in between, and no row disappears
\* (NothingUndone): each UPDATE writes the columns its handler assigned.
THEOREM NothingIsUndone == Spec => NothingUndone
<1>1. Init => Shape
  BY ShapeInit
<1>2. Shape /\ [Next]_vars => Shape'
  BY ShapeStep
<1>3. Shape /\ [Next]_vars => Kept
  BY RowsKept
<1>4. Kept => [\A u \in Ids : /\ u \in DOMAIN users'
                              /\ users'[u].email = users[u].email
                              /\ users[u].verified => users'[u].verified
                              /\ users[u].sub # NoSub => users'[u].sub # NoSub]_vars
  BY DEF Kept
<1> QED
  BY <1>1, <1>2, <1>3, <1>4, PTL DEF Spec, NothingUndone

-----------------------------------------------------------------------------
(* The admin                                                                *)

LEMMA AdminStep ==
  ASSUME Shape, AdminFirst, [Next]_vars
  PROVE  AdminFirst'
<1>0. CASE AdminEmail = NoEmail
  BY <1>0 DEF AdminFirst
<1>1. CASE \E u \in Ids : AdminRow(u)
  BY <1>1, RowsKept DEF AdminFirst, AdminRow, Kept, Ids
<1>2. CASE /\ AdminEmail # NoEmail
           /\ users = <<>>
           /\ \A r \in Replicas : pc[r] = "down" \/ job[r].op = "bootstrap"
  <2> DEFINE Waits(q) == pc'[q] = "down" \/ job'[q].op = "bootstrap"
  <2>0. NoJob.op # "bootstrap"
    BY DEF NoJob
  <2>1. \A q \in Replicas : pc[q] \in {"down", "check", "insert"}
    BY <1>2 DEF Shape, JobFits
  <2>2. ASSUME NEW r \in Replicas, Limited(r)
        PROVE  FALSE
    BY <2>1, <2>2 DEF Limited, Register, Login, ForgotPassword, RequestVerify, ResetPassword,
                      OidcCallback, TooManyRequests, Attempt, Begin
  <2>3. ASSUME NEW r \in Replicas, Unlimited(r)
        PROVE  AdminFirst'
    <3>o. \A q \in Replicas \ {r} : Waits(q)
      BY <1>2, <2>3, OthersStay DEF Shape
    <3>j. \A j \in Job, label \in Labels :
             Step(r, label, j) /\ (label = "down" \/ j.op = "bootstrap") => Waits(r)
      BY StepTyped DEF Shape
    <3>r. Raise(r) /\ pc[r] \in {"check", "insert"} => Waits(r)
      BY <1>2, <3>j, NoJobTyped DEF Raise, Labels, Shape, JobFits
    <3>1. CASE BootstrapAdmin(r)
      <4>1. ~AdminKnown
        BY <1>2 DEF AdminKnown, Ids
      <4> DEFINE j == [NoJob EXCEPT !.op = "bootstrap", !.email = Normal[AdminEmail]]
      <4>2. j \in Job /\ j.op = "bootstrap"
        BY <1>2, ConstantsOK DEF NoJob, Job, Ops
      <4>3. Step(r, "check", j) /\ UNCHANGED users
        BY <3>1, <4>1 DEF BootstrapAdmin, tables
      <4> HIDE DEF j
      <4>4. Waits(r)
        BY <3>j, <4>2, <4>3 DEF Labels
      <4> QED
        BY <1>2, <3>o, <4>3, <4>4 DEF AdminFirst
    <3>2. CASE CheckEmail(r)
      <4>1. UNCHANGED users /\ pc[r] = "check"
        BY <3>2 DEF CheckEmail, tables
      <4>2. Raise(r) \/ Step(r, "insert", job[r])
        BY <3>2 DEF CheckEmail
      <4>3. job[r] \in Job /\ job[r].op = "bootstrap"
        BY <1>2, <4>1 DEF Shape, Typed
      <4>4. Waits(r)
        BY <3>j, <3>r, <4>1, <4>2, <4>3 DEF Labels
      <4> QED
        BY <1>2, <3>o, <4>1, <4>4 DEF AdminFirst
    <3>3. CASE InsertUser(r)
      <4>1. job[r].op = "bootstrap" /\ job[r].email = Normal[AdminEmail] /\ pc[r] = "insert"
        BY <1>2, <3>3 DEF InsertUser, Shape, JobFits, ForAdmin
      <4>2. CASE UNCHANGED users
        <5>1. \A row \in Row : users' # Append(users, row)
          BY <4>2, RowAdded DEF Shape, Ids
        <5>2. [email |-> job[r].email, sub |-> NoSub, verified |-> job[r].op = "bootstrap",
               hash |-> 1, typed |-> TRUE] \in Row
          BY <1>2, <4>1, ConstantsOK DEF Row
        <5>3. Raise(r)
          BY <3>3, <5>1, <5>2 DEF InsertUser
        <5> QED
          BY <1>2, <3>o, <3>r, <4>1, <4>2, <5>3 DEF AdminFirst
      <4>3. CASE ~UNCHANGED users
        <5>1. PICK row \in Row : users' = Append(users, row) /\ row.email = job[r].email
          BY <3>3, <4>3, InsertUserRow DEF Shape
        <5>2. \E u \in DOMAIN users' : users'[u].email = Normal[AdminEmail]
          BY <4>1, <5>1, RowAdded DEF Shape, Ids
        <5> QED
          BY <1>2, <5>2 DEF AdminFirst, AdminRow, Ids
      <4> QED
        BY <4>2, <4>3
    <3>4. CASE Crash(r)
      <4>1. UNCHANGED users /\ Step(r, "down", NoJob)
        BY <3>4 DEF Crash, tables
      <4>2. Waits(r)
        BY <3>j, <4>1, NoJobTyped DEF Labels
      <4> QED
        BY <1>2, <3>o, <4>1, <4>2 DEF AdminFirst
    <3> QED
      BY <2>1, <2>3, <3>1, <3>2, <3>3, <3>4
      DEF Unlimited, SetPassword, Verify, SetVerified, FindBySub, FindByEmail, LinkAccount,
          ProvisionAccount, WriteToken, StoreCredential, AddKey, DeleteCredential, Begin
  <2>4. CASE UNCHANGED <<users, pc, job>>
    BY <1>2, <2>4 DEF AdminFirst
  <2> QED
    BY <2>2, <2>3, <2>4 DEF Next, vars, tables, OidcLogin
<1> QED
  BY <1>0, <1>1, <1>2 DEF AdminFirst

\* Where an admin is configured, in whatever spelling, nothing is served and no
\* row is made until the admin's row exists, and it is never lost (AdminFirst):
\* lifespan awaits the bootstrap, whose insert alone can be the first, and no
\* operation renames a row.
THEOREM AdminComesFirst == Spec => []AdminFirst
<1>1. Init => Shape /\ AdminFirst
  BY ShapeInit DEF Init, AdminFirst
<1>2. Shape /\ AdminFirst /\ [Next]_vars => Shape' /\ AdminFirst'
  BY ShapeStep, AdminStep
<1> QED
  BY <1>1, <1>2, PTL DEF Spec

-----------------------------------------------------------------------------
(* Verified addresses                                                       *)

\* Who stands before a lookup or a write of a login or a verification.
LEMMA Arrives ==
  ASSUME Shape, NEW r \in Replicas, Limited(r) \/ Unlimited(r),
         pc'[r] \in {"verify", "find_sub", "find_email", "link", "provision"}
  PROVE  \/ UNCHANGED <<pc, job>>
         \/ pc'[r] = "verify" /\ Verify(r)
         \/ pc'[r] = "find_sub" /\ OidcCallback(r)
         \/ pc'[r] = "find_email" /\ FindBySub(r)
         \/ pc'[r] \in {"link", "provision"} /\ FindByEmail(r)
<1>1. pc \in [Replicas -> Labels]
  BY DEF Shape, Typed
<1>2. CASE Limited(r)
  BY <1>1, <1>2 DEF Limited, Register, Login, ForgotPassword, RequestVerify, ResetPassword,
                    OidcCallback, TooManyRequests, Step
<1>3. CASE Unlimited(r)
  BY <1>1, <1>3
  DEF Unlimited, BootstrapAdmin, CheckEmail, InsertUser, SetPassword, Verify, SetVerified,
      FindBySub, FindByEmail, LinkAccount, ProvisionAccount, WriteToken, StoreCredential,
      AddKey, DeleteCredential, Crash, Step, Answer, Raise
<1> QED
  BY <1>2, <1>3

\* What an operation that will verify an address knows about it.
Knows(r) ==
  /\ pc[r] = "verify" => Mailbox[users[job[r].user].email] \in proved
  /\ pc[r] \in {"find_sub", "find_email", "link", "provision"} /\ job[r].claim.vouched =>
       Mailbox[job[r].claim.email] \in proved
  /\ pc[r] = "link" => /\ job[r].claim.vouched
                       /\ Mailbox[users[job[r].user].email] = Mailbox[job[r].claim.email]
  /\ pc[r] = "provision" => job[r].claim.vouched

VouchedIsProved == \A f \in Flows : flows[f].claim.vouched =>
                                      Mailbox[flows[f].claim.email] \in proved

LEMMA KnowsStays ==
  ASSUME Shape, Kept, proved \subseteq proved', NEW r \in Replicas, Knows(r),
         pc'[r] = pc[r], job'[r] = job[r]
  PROVE  Knows(r)'
  BY DEF Shape, JobFits, Knows, Kept

LEMMA KnowsStep ==
  ASSUME Shape, Kept, VouchedIsProved, [Next]_vars, NEW r \in Replicas,
         Limited(r) \/ Unlimited(r), Knows(r)
  PROVE  Knows(r)'
<1>0. proved \subseteq proved' /\ Advances(r)
  BY ProvedChange, LimitedFits, UnlimitedFits
<1>1. CASE UNCHANGED <<pc, job>>
  BY <1>0, <1>1, KnowsStays
<1>2. CASE pc'[r] = "verify" /\ Verify(r)
  <2>1. PICK t \in mail : /\ Step(r, "verify", [NoJob EXCEPT !.op = "verify", !.user = t.user])
                          /\ proved' = proved \cup {Mailbox[users[t.user].email]}
    BY <1>2 DEF Verify
  <2>2. job'[r].user = t.user /\ users' = users
    BY <1>2, <2>1 DEF Verify, Step, NoJob, Shape, Typed, tables
  <2> QED
    BY <1>2, <2>1, <2>2 DEF Knows
<1>3. CASE pc'[r] = "find_sub" /\ OidcCallback(r)
  <2>1. CASE UNCHANGED <<pc, job>>
    BY <1>1, <2>1
  <2>2. ASSUME NEW f \in Flows, NEW g \in Flows,
               Step(r, "find_sub", [NoJob EXCEPT !.op = "oidc", !.claim = flows[g].claim,
                                                 !.flow = f])
        PROVE  Knows(r)'
    <3>1. job'[r].claim = flows[g].claim
      BY <2>2 DEF Step, NoJob, Shape, Typed
    <3> QED
      BY <1>0, <1>3, <3>1 DEF Knows, VouchedIsProved
  <2> QED
    BY <1>3, <2>1, <2>2 DEF OidcCallback
<1>4. CASE pc'[r] = "find_email" /\ FindBySub(r)
  <2>1. job'[r] = job[r]
    BY <1>4 DEF FindBySub, Step, Shape, Typed
  <2> QED
    BY <1>0, <1>4, <2>1 DEF FindBySub, Knows
<1>5. CASE pc'[r] \in {"link", "provision"} /\ FindByEmail(r)
  <2> DEFINE c == job[r].claim
  <2>0. pc[r] = "find_email" /\ job[r] \in Job /\ c \in Claims /\ users' = users
    BY <1>5 DEF FindByEmail, Shape, Typed, JobFits, tables
  <2>1. CASE "signup" \in Enabled /\ c.vouched /\ Step(r, "provision", job[r])
    BY <1>0, <2>0, <2>1 DEF Step, Shape, Typed, Knows
  <2>2. ASSUME NEW u \in ByEmail(c.email), MayLink(u, c),
               Step(r, "link", [job[r] EXCEPT !.user = u])
        PROVE  Knows(r)'
    <3>1. Mailbox[users[u].email] = Mailbox[c.email] /\ u \in Nat
      BY IdsAreNat DEF ByEmail, Shape
    <3>2. job'[r].user = u /\ job'[r].claim = c
      BY <2>0, <2>2, <3>1, WithUser DEF Step, Shape, Typed
    <3> QED
      BY <1>0, <2>0, <2>2, <3>1, <3>2 DEF Knows, MayLink, Step, Shape, Typed
  <2> QED
    BY <1>5, <2>0, <2>1, <2>2
    DEF FindByEmail, Step, Answer, Raise, Shape, Typed
<1>6. CASE pc'[r] \notin {"verify", "find_sub", "find_email", "link", "provision"}
  BY <1>6 DEF Knows
<1> QED
  BY <1>1, <1>2, <1>3, <1>4, <1>5, <1>6, Arrives

\* The verified rows with what will verify others.
VerifiedInv ==
  /\ Shape
  /\ VerifiedWasProved
  /\ VouchedIsProved
  /\ \A r \in Replicas : Knows(r)

LEMMA VouchedStep ==
  ASSUME VerifiedInv, [Next]_vars
  PROVE  VouchedIsProved'
<1>0. proved \subseteq proved'
  BY ProvedChange
<1>1. ASSUME NEW r \in Replicas, OidcCallback(r)
      PROVE  \A f \in Flows : flows'[f].claim = flows[f].claim
  BY <1>1 DEF OidcCallback, VerifiedInv, Shape, Typed
<1>2. ASSUME NEW f \in Flows, OidcLogin(f)
      PROVE  VouchedIsProved'
  BY <1>2 DEF OidcLogin, VerifiedInv, VouchedIsProved, Shape, Typed
<1> QED
  BY <1>0, <1>1, <1>2, FlowsChange DEF VerifiedInv, VouchedIsProved

LEMMA VerifiedStep ==
  ASSUME VerifiedInv, [Next]_vars
  PROVE  VerifiedWasProved'
<1> USE DEF VerifiedInv
<1>0. proved \subseteq proved' /\ Kept
  BY ProvedChange, RowsKept
<1> DEFINE Good(row) == row.verified => ForAdmin(row.email) \/ Mailbox[row.email] \in proved
<1>1. \A u \in Ids : Good(users[u])
  BY DEF VerifiedWasProved, AdminRow, ForAdmin
<1>2. CASE UNCHANGED users
  BY <1>0, <1>1, <1>2 DEF VerifiedWasProved, AdminRow, ForAdmin, Ids
<1>3. ASSUME NEW u \in Ids, NEW row \in Row, users' = [users EXCEPT ![u] = row], Good(row)
      PROVE  VerifiedWasProved'
  BY <1>0, <1>1, <1>3, LenProperties DEF VerifiedWasProved, AdminRow, ForAdmin, Shape, Typed, Ids
<1>4. ASSUME NEW row \in Row, users' = Append(users, row), Good(row)
      PROVE  VerifiedWasProved'
  BY <1>0, <1>1, <1>4, RowAdded DEF VerifiedWasProved, AdminRow, ForAdmin, Shape, Ids
<1>5. ASSUME NEW r \in Replicas, InsertUser(r), ~UNCHANGED users
      PROVE  VerifiedWasProved'
  <2>1. PICK row \in Row : /\ users' = Append(users, row)
                           /\ row.email = job[r].email
                           /\ row.verified = (job[r].op = "bootstrap")
    BY <1>5, InsertUserRow
  <2>2. Good(row)
    BY <2>1 DEF Shape, JobFits
  <2> QED
    BY <1>4, <2>1, <2>2
<1>6. ASSUME NEW r \in Replicas, SetPassword(r)
      PROVE  VerifiedWasProved'
  <2>1. PICK row \in Row : /\ users' = [users EXCEPT ![job[r].user] = row]
                           /\ job[r].user \in Ids
                           /\ row.email = users[job[r].user].email
                           /\ row.verified = users[job[r].user].verified
    BY <1>6, SetPasswordRow
  <2>2. Good(row)
    BY <1>1, <2>1
  <2> QED
    BY <1>3, <2>1, <2>2
<1>7. ASSUME NEW r \in Replicas, SetVerified(r)
      PROVE  VerifiedWasProved'
  <2>1. PICK row \in Row : /\ users' = [users EXCEPT ![job[r].user] = row]
                           /\ job[r].user \in Ids
                           /\ row.email = users[job[r].user].email
    BY <1>7, SetVerifiedRow
  <2>2. Good(row)
    BY <1>7, <2>1 DEF SetVerified, Knows
  <2> QED
    BY <1>3, <2>1, <2>2
<1>8. ASSUME NEW r \in Replicas, LinkAccount(r), ~UNCHANGED users
      PROVE  VerifiedWasProved'
  <2>1. PICK row \in Row : /\ users' = [users EXCEPT ![job[r].user] = row]
                           /\ job[r].user \in Ids
                           /\ row.email = users[job[r].user].email
    BY <1>8, LinkAccountRow
  <2>2. Good(row)
    BY <1>8, <2>1 DEF LinkAccount, Knows
  <2> QED
    BY <1>3, <2>1, <2>2
<1>9. ASSUME NEW r \in Replicas, ProvisionAccount(r), ~UNCHANGED users
      PROVE  VerifiedWasProved'
  <2>1. PICK row \in Row : users' = Append(users, row) /\ row.email = job[r].claim.email
    BY <1>9, ProvisionAccountRow
  <2>2. Good(row)
    BY <1>9, <2>1 DEF ProvisionAccount, Knows
  <2> QED
    BY <1>4, <2>1, <2>2
<1> QED
  BY <1>2, <1>5, <1>6, <1>7, <1>8, <1>9, UsersChange

LEMMA KnowsAllStep ==
  ASSUME VerifiedInv, [Next]_vars
  PROVE  \A q \in Replicas : Knows(q)'
<1>0. proved \subseteq proved' /\ Kept
  BY ProvedChange, RowsKept DEF VerifiedInv
<1>1. CASE UNCHANGED <<pc, job>>
  BY <1>0, <1>1, KnowsStays DEF VerifiedInv
<1>2. ASSUME NEW r \in Replicas, Limited(r) \/ Unlimited(r), NEW q \in Replicas
      PROVE  Knows(q)'
  <2>1. CASE q = r
    BY <1>0, <1>2, <2>1, KnowsStep DEF VerifiedInv
  <2>2. CASE q # r
    BY <1>0, <1>2, <2>2, OthersStay, KnowsStays DEF VerifiedInv, Shape
  <2> QED
    BY <2>1, <2>2
<1> QED
  BY <1>1, <1>2 DEF Next, vars, OidcLogin

\* An account other than the admin's is verified only when somebody was shown
\* to own its mailbox (VerifiedWasProved): a verification or a link acts on what
\* an earlier step saw, and stays right because addresses never change.
THEOREM VerifiedIsProved == Spec => []VerifiedWasProved
<1>1. Init => VerifiedInv
  <2> SUFFICES ASSUME Init PROVE VerifiedInv
    OBVIOUS
  <2>1. Ids = {}
    BY EmptySeq DEF Init, Ids
  <2> QED
    BY <2>1, ShapeInit
    DEF Init, VerifiedInv, VerifiedWasProved, VouchedIsProved, Knows, NoClaim
<1>2. VerifiedInv /\ [Next]_vars => VerifiedInv'
  BY ShapeStep, VerifiedStep, VouchedStep, KnowsAllStep DEF VerifiedInv
<1> QED
  BY <1>1, <1>2, PTL DEF Spec, VerifiedInv

-----------------------------------------------------------------------------
(* Logins                                                                   *)

\* A code is spent by one callback, which alone acts for its login.
Owns(r) == job[r].flow \in Flows => /\ flows[job[r].flow].spent
                                    /\ job[r].claim = flows[job[r].flow].claim

LoginInv ==
  /\ Shape
  /\ \A f \in Flows : flows[f].spent => Begun(f)
  /\ \A r \in Replicas : Owns(r)
  /\ \A r, q \in Replicas : job[r].flow \in Flows /\ job[r].flow = job[q].flow => r = q
  /\ \A o \in opened : /\ o.flow \in Flows /\ flows[o.flow].spent
                       /\ o.sub = flows[o.flow].claim.sub
                       /\ \A r \in Replicas : job[r].flow # o.flow
  /\ \A o, p \in opened : o.flow = p.flow => o = p

\* Once spent, a login keeps its claim.
LEMMA SpentStays ==
  ASSUME LoginInv, [Next]_vars
  PROVE  /\ \A f \in Flows : flows[f].spent => flows'[f] = flows[f]
         /\ \A f \in Flows : flows'[f].spent => flows'[f].claim # NoClaim
<1> USE DEF LoginInv, Shape, Typed, Begun
<1>0. NoClaim \notin Claims
  BY ConstantsOK DEF NoClaim, Subs
<1>1. ASSUME NEW r \in Replicas, OidcCallback(r)
      PROVE  /\ \A f \in Flows : flows[f].spent => flows'[f] = flows[f]
             /\ \A f \in Flows : flows'[f].spent => flows'[f].claim # NoClaim
  BY <1>1 DEF OidcCallback
<1>2. ASSUME NEW f \in Flows, OidcLogin(f)
      PROVE  /\ \A g \in Flows : flows[g].spent => flows'[g] = flows[g]
             /\ \A g \in Flows : flows'[g].spent => flows'[g].claim # NoClaim
  BY <1>0, <1>2 DEF OidcLogin
<1> QED
  BY <1>1, <1>2, FlowsChange

\* The operation of a replica after its step: none for a login, the one it had,
\* or one for a login whose code was not spent before.
LEMMA FlowStep ==
  ASSUME Shape, Kept, NEW r \in Replicas, Limited(r) \/ Unlimited(r), job'[r].flow \in Flows
  PROVE  \/ job'[r].flow = job[r].flow /\ job'[r].claim = job[r].claim
         \/ /\ OidcCallback(r)
            /\ ~flows[job'[r].flow].spent /\ flows'[job'[r].flow].spent
            /\ job'[r].claim = flows'[job'[r].flow].claim
<1>1. Advances(r)
  BY LimitedFits, UnlimitedFits
<1>2. CASE UNCHANGED <<pc, job>>
  BY <1>2
<1>3. CASE pc'[r] = "find_sub" /\ OidcCallback(r) /\ ~UNCHANGED <<pc, job>>
  <2>1. PICK f \in Flows : /\ ~flows[f].spent
                           /\ flows' = [flows EXCEPT ![f].spent = TRUE]
                           /\ Step(r, "find_sub", [NoJob EXCEPT !.op = "oidc",
                                                     !.claim = flows[f].claim, !.flow = f])
    BY <1>3 DEF OidcCallback, NonceMatches
  <2>2. job'[r].flow = f /\ job'[r].claim = flows[f].claim
    BY <2>1 DEF Step, NoJob, Shape, Typed
  <2>3. flows'[f].spent /\ flows'[f].claim = flows[f].claim
    BY <2>1 DEF Shape, Typed
  <2> QED
    BY <1>3, <2>1, <2>2, <2>3
<1>4. CASE pc'[r] # "find_sub"
  BY <1>1, <1>4 DEF Advances
<1> QED
  BY <1>2, <1>3, <1>4, Arrives

LEMMA LoginJobs ==
  ASSUME LoginInv, [Next]_vars
  PROVE  /\ \A r \in Replicas : Owns(r)'
         /\ \A r, q \in Replicas : job'[r].flow \in Flows /\ job'[r].flow = job'[q].flow => r = q
         /\ \A o \in opened, r \in Replicas : job'[r].flow # o.flow
<1>0. Kept
  BY RowsKept DEF LoginInv
<1>1. CASE UNCHANGED <<pc, job>>
  BY <1>1, SpentStays DEF LoginInv, Owns
<1>2. ASSUME NEW r \in Replicas, Limited(r) \/ Unlimited(r)
      PROVE  /\ \A q \in Replicas : Owns(q)'
             /\ \A p, q \in Replicas : job'[p].flow \in Flows /\ job'[p].flow = job'[q].flow => p = q
             /\ \A o \in opened, q \in Replicas : job'[q].flow # o.flow
  <2>1. \A q \in Replicas \ {r} : job'[q] = job[q]
    BY <1>2, OthersStay DEF LoginInv, Shape
  <2>2. CASE job'[r].flow \notin Flows
    BY <2>1, <2>2, SpentStays DEF LoginInv, Owns
  <2>3. CASE job'[r].flow \in Flows /\ job'[r].flow = job[r].flow /\ job'[r].claim = job[r].claim
    BY <2>1, <2>3, SpentStays DEF LoginInv, Owns
  <2>4. CASE /\ job'[r].flow \in Flows
             /\ ~flows[job'[r].flow].spent /\ flows'[job'[r].flow].spent
             /\ job'[r].claim = flows'[job'[r].flow].claim
    BY <2>1, <2>4, SpentStays DEF LoginInv, Owns
  <2> QED
    BY <1>0, <1>2, <2>2, <2>3, <2>4, FlowStep DEF LoginInv
<1> QED
  BY <1>1, <1>2 DEF Next, vars, OidcLogin

LEMMA OpenedStep ==
  ASSUME LoginInv, [Next]_vars
  PROVE  /\ \A o \in opened' : /\ o.flow \in Flows /\ flows'[o.flow].spent
                               /\ o.sub = flows'[o.flow].claim.sub
                               /\ \A r \in Replicas : job'[r].flow # o.flow
         /\ \A o, p \in opened' : o.flow = p.flow => o = p
<1>1. CASE UNCHANGED opened
  BY <1>1, SpentStays, LoginJobs DEF LoginInv
<1>2. ASSUME NEW r \in Replicas, WriteToken(r), ~UNCHANGED opened
      PROVE  /\ \A o \in opened' : /\ o.flow \in Flows /\ flows'[o.flow].spent
                                   /\ o.sub = flows'[o.flow].claim.sub
                                   /\ \A q \in Replicas : job'[q].flow # o.flow
             /\ \A o, p \in opened' : o.flow = p.flow => o = p
  <2> DEFINE f == job[r].flow
             n == [flow |-> f, sub |-> job[r].claim.sub, user |-> job[r].user]
  <2>1. f \in Flows /\ opened' = opened \cup {n} /\ flows' = flows
    BY <1>2 DEF WriteToken
  <2>2. flows[f].spent /\ n.sub = flows[f].claim.sub /\ n.flow = f
    BY <2>1 DEF LoginInv, Owns
  <2>3. job'[r] = NoJob /\ \A q \in Replicas \ {r} : job'[q] = job[q]
    BY <1>2 DEF WriteToken, Answer, Step, LoginInv, Shape, Typed
  <2>4. \A q \in Replicas : job'[q].flow # f
    BY <2>1, <2>3, ConstantsOK DEF LoginInv, NoJob
  <2>5. \A o \in opened : o.flow # f
    BY DEF LoginInv
  <2> HIDE DEF n
  <2> QED
    BY <2>1, <2>2, <2>4, <2>5, LoginJobs DEF LoginInv
<1> QED
  BY <1>1, <1>2, SessionsChange

LEMMA LoginStep ==
  ASSUME LoginInv, [Next]_vars
  PROVE  LoginInv'
  BY ShapeStep, SpentStays, LoginJobs, OpenedStep DEF LoginInv, Begun

LEMMA LoginInit == Init => LoginInv
<1> SUFFICES ASSUME Init PROVE LoginInv
  OBVIOUS
<1>1. NoJob.flow \notin Flows
  BY ConstantsOK DEF NoJob
<1> QED
  BY <1>1, ShapeInit DEF Init, LoginInv, Owns

\* A login opens at most one session, and for the subject that was
\* authenticated in it (LoginIsOwn): the nonce binds the code to the state, and
\* a code is exchanged once.
THEOREM LoginsAreOwn == Spec => []LoginIsOwn
<1>1. Init => LoginInv
  BY LoginInit
<1>2. LoginInv /\ [Next]_vars => LoginInv'
  BY LoginStep
<1>3. LoginInv => LoginIsOwn
  BY DEF LoginInv, LoginIsOwn
<1> QED
  BY <1>1, <1>2, <1>3, PTL DEF Spec

-----------------------------------------------------------------------------
(* Subjects                                                                 *)

UniqueSubs == \A u, v \in Ids : users[u].sub # NoSub /\ users[u].sub = users[v].sub => u = v

\* The row of a subject is that of a mailbox of the subject.
Claimed(row) == row.sub # NoSub => \E c \in Claims : /\ c.sub = row.sub
                                                     /\ Mailbox[c.email] = Mailbox[row.email]

\* The account a callback has found, by its address or for good.
Resolved(r) ==
  /\ pc[r] = "link" => Mailbox[users[job[r].user].email] = Mailbox[job[r].claim.email]
  /\ pc[r] = "token" /\ job[r].flow \in Flows /\ Exclusive(job[r].claim.sub) =>
       users[job[r].user].sub = job[r].claim.sub

SubjectInv ==
  /\ LoginInv
  /\ UniqueSubs
  /\ \A u \in Ids : Claimed(users[u])
  /\ \A r \in Replicas : Resolved(r)
  /\ \A o \in opened : /\ o.user \in Ids /\ o.sub \in Subs
                       /\ Exclusive(o.sub) => users[o.user].sub = o.sub

\* A row keeps the subject that shares its mailbox with no other.
SubsKept == \A u \in Ids : users[u].sub # NoSub /\ Exclusive(users[u].sub) =>
                             users'[u].sub = users[u].sub

\* The table after a step: its rows are claimed, its subjects unique and stable.
SubsFine == UniqueSubs' /\ SubsKept /\ \A u \in Ids' : Claimed(users'[u])

Replaces(u, row) ==
  Ids' = Ids /\ \A v \in Ids : users'[v] = IF v = u THEN row ELSE users[v]

LEMMA SubsReplaced ==
  ASSUME SubjectInv, NEW u \in Ids, NEW row \in Row, Replaces(u, row),
         row.email = users[u].email, Claimed(row),
         row.sub = users[u].sub \/ (row.sub # NoSub /\ BySub(row.sub) \subseteq {u})
  PROVE  SubsFine
<1>1. Ids' = Ids /\ \A v \in Ids : users'[v] = IF v = u THEN row ELSE users[v]
  BY DEF Replaces
<1>2. UniqueSubs'
  BY <1>1 DEF SubjectInv, UniqueSubs, BySub
<1>3. SubsKept
  <2>1. ASSUME users[u].sub # NoSub, Exclusive(users[u].sub)
        PROVE  row.sub = users[u].sub
    <3>1. CASE row.sub # NoSub
      <4>1. PICK c \in Claims : c.sub = row.sub /\ Mailbox[c.email] = Mailbox[row.email]
        BY <3>1 DEF Claimed
      <4>2. PICK d \in Claims : d.sub = users[u].sub /\ Mailbox[d.email] = Mailbox[users[u].email]
        BY <2>1 DEF SubjectInv, Claimed
      <4> QED
        BY <2>1, <4>1, <4>2 DEF Exclusive
    <3> QED
      BY <3>1
  <2> QED
    BY <1>1, <2>1 DEF SubsKept
<1>4. \A v \in Ids' : Claimed(users'[v])
  BY <1>1 DEF SubjectInv
<1> QED
  BY <1>2, <1>3, <1>4 DEF SubsFine

LEMMA SubsAdded ==
  ASSUME SubjectInv, NEW row \in Row, users' = Append(users, row), ~Taken(row), Claimed(row)
  PROVE  SubsFine
<1>1. /\ Ids' = Ids \cup {Len(users) + 1} /\ Len(users) + 1 \notin Ids
      /\ \A u \in Ids : users'[u] = users[u]
      /\ users'[Len(users) + 1] = row
  BY RowAdded DEF SubjectInv, LoginInv, Shape, Ids
<1>2. UniqueSubs'
  <2> SUFFICES ASSUME NEW u \in Ids', NEW v \in Ids',
                      users'[u].sub # NoSub, users'[u].sub = users'[v].sub
               PROVE  u = v
    BY DEF UniqueSubs
  <2>0. \A w, x \in Ids : users[w].sub # NoSub /\ users[w].sub = users[x].sub => w = x
    BY DEF SubjectInv, UniqueSubs
  <2>1. CASE u \in Ids /\ v \in Ids
    BY <1>1, <2>0, <2>1
  <2>2. \A w \in Ids : row.sub # NoSub => users[w].sub # row.sub
    BY DEF Taken
  <2>3. CASE u \notin Ids /\ v \in Ids
    <3>1. u = Len(users) + 1
      BY <1>1, <2>3
    <3> QED
      BY <1>1, <2>2, <2>3, <3>1
  <2>4. CASE u \in Ids /\ v \notin Ids
    <3>1. v = Len(users) + 1
      BY <1>1, <2>4
    <3> QED
      BY <1>1, <2>2, <2>4, <3>1
  <2>5. CASE u \notin Ids /\ v \notin Ids
    BY <1>1, <2>5
  <2> QED
    BY <2>1, <2>3, <2>4, <2>5
<1>3. SubsKept
  BY <1>1 DEF SubsKept
<1>4. \A v \in Ids' : Claimed(users'[v])
  BY <1>1 DEF SubjectInv
<1> QED
  BY <1>2, <1>3, <1>4 DEF SubsFine

LEMMA SubsStep ==
  ASSUME SubjectInv, [Next]_vars
  PROVE  SubsFine
<1>0. ASSUME NEW u \in Ids, NEW row \in Row, users' = [users EXCEPT ![u] = row],
             row.email = users[u].email, row.sub = users[u].sub
      PROVE  SubsFine
  <2>1. Claimed(users[u])
    BY DEF SubjectInv
  <2>2. Claimed(row)
    BY <1>0, <2>1 DEF Claimed
  <2>3. Replaces(u, row)
    BY <1>0 DEF Replaces, Ids
  <2> QED
    BY <1>0, <2>2, <2>3, SubsReplaced
<1> USE DEF SubjectInv, LoginInv
<1>1. CASE UNCHANGED users
  BY <1>1 DEF SubsFine, UniqueSubs, SubsKept, Ids
<1>2. ASSUME NEW r \in Replicas, InsertUser(r), ~UNCHANGED users
      PROVE  SubsFine
  BY <1>2, InsertUserRow, SubsAdded DEF Claimed
<1>3. ASSUME NEW r \in Replicas, SetPassword(r)
      PROVE  SubsFine
  <2>1. PICK row \in Row : /\ users' = [users EXCEPT ![job[r].user] = row]
                           /\ job[r].user \in Ids
                           /\ row.email = users[job[r].user].email
                           /\ row.sub = users[job[r].user].sub
    BY <1>3, SetPasswordRow
  <2> QED
    BY <1>0, <2>1
<1>4. ASSUME NEW r \in Replicas, SetVerified(r)
      PROVE  SubsFine
  <2>1. PICK row \in Row : /\ users' = [users EXCEPT ![job[r].user] = row]
                           /\ job[r].user \in Ids
                           /\ row.email = users[job[r].user].email
                           /\ row.sub = users[job[r].user].sub
    BY <1>4, SetVerifiedRow
  <2> QED
    BY <1>0, <2>1
<1>5. ASSUME NEW r \in Replicas, LinkAccount(r), ~UNCHANGED users
      PROVE  SubsFine
  <2>1. PICK row \in Row : /\ users' = [users EXCEPT ![job[r].user] = row]
                           /\ job[r].user \in Ids
                           /\ row.email = users[job[r].user].email
                           /\ row.sub = job[r].claim.sub /\ row.sub # NoSub
                           /\ BySub(row.sub) \subseteq {job[r].user}
    BY <1>5, LinkAccountRow
  <2>2. /\ job[r].claim \in Claims
        /\ Mailbox[users[job[r].user].email] = Mailbox[job[r].claim.email]
    BY <1>5 DEF LinkAccount, Resolved, Shape, JobFits
  <2>3. Claimed(row)
    BY <2>1, <2>2 DEF Claimed
  <2>4. Replaces(job[r].user, row)
    BY <2>1 DEF Replaces, Ids
  <2> QED
    BY <2>1, <2>3, <2>4, SubsReplaced
<1>6. ASSUME NEW r \in Replicas, ProvisionAccount(r), ~UNCHANGED users
      PROVE  SubsFine
  BY <1>6, ProvisionAccountRow, SubsAdded DEF Claimed
<1> QED
  BY <1>1, <1>2, <1>3, <1>4, <1>5, <1>6, UsersChange

LEMMA ResolvedStays ==
  ASSUME SubjectInv, SubsKept, Kept, NEW r \in Replicas, pc'[r] = pc[r], job'[r] = job[r]
  PROVE  Resolved(r)'
<1>1. pc[r] = "token" /\ job[r].flow \in Flows => job[r].user \in Ids /\ job[r].claim \in Claims
  BY DEF SubjectInv, LoginInv, Shape, JobFits
<1>2. job[r].claim \in Claims => job[r].claim.sub # NoSub
  BY ConstantsOK DEF Subs
<1>3. pc[r] = "link" => job[r].user \in Ids
  BY DEF SubjectInv, LoginInv, Shape, JobFits
<1> QED
  BY <1>1, <1>2, <1>3 DEF SubjectInv, Resolved, SubsKept, Kept, Exclusive

\* Who stands before the commit of a session, and how it came there.
LEMMA ArrivesAtToken ==
  ASSUME Shape, NEW r \in Replicas, Limited(r) \/ Unlimited(r), pc'[r] = "token"
  PROVE  \/ UNCHANGED <<pc, job>>
         \/ Login(r) \/ FindBySub(r) \/ FindByEmail(r) \/ LinkAccount(r) \/ ProvisionAccount(r)
<1>1. pc \in [Replicas -> Labels]
  BY DEF Shape, Typed
<1>2. CASE Limited(r)
  BY <1>1, <1>2 DEF Limited, Register, Login, ForgotPassword, RequestVerify, ResetPassword,
                    OidcCallback, TooManyRequests, Step
<1>3. CASE Unlimited(r)
  BY <1>1, <1>3
  DEF Unlimited, BootstrapAdmin, CheckEmail, InsertUser, SetPassword, Verify, SetVerified,
      WriteToken, StoreCredential, AddKey, DeleteCredential, Crash, Step, Answer, Raise
<1> QED
  BY <1>2, <1>3

LEMMA ResolvedStep ==
  ASSUME SubjectInv, SubsKept, Kept, NEW r \in Replicas, Limited(r) \/ Unlimited(r)
  PROVE  Resolved(r)'
<1> USE DEF SubjectInv, LoginInv, Shape, Typed
<1> DEFINE c == job[r].claim
<1>0. job[r] \in Job /\ NoJob.flow \notin Flows
  BY ConstantsOK DEF NoJob
<1>1. CASE UNCHANGED <<pc, job>>
  BY <1>1, ResolvedStays
<1>2. CASE Login(r) /\ ~UNCHANGED <<pc, job>>
  <2>1. PICK u \in Ids : Step(r, "token", [NoJob EXCEPT !.op = "login", !.user = u])
    BY <1>2 DEF Login, Found
  <2>2. pc'[r] = "token" /\ job'[r].flow = NoFlow
    BY <2>1 DEF Step, NoJob
  <2> QED
    BY <2>2, ConstantsOK DEF Resolved
<1>3. CASE FindBySub(r)
  <2>1. CASE Step(r, "find_email", job[r])
    BY <2>1 DEF Step, Resolved
  <2>2. ASSUME NEW u \in BySub(c.sub), Step(r, "token", [job[r] EXCEPT !.user = u])
        PROVE  Resolved(r)'
    <3>1. u \in Ids /\ users[u].sub = c.sub /\ u \in Nat
      BY IdsAreNat DEF BySub
    <3>2. pc'[r] = "token" /\ job'[r].user = u /\ job'[r].claim = c /\ users' = users
      BY <1>0, <1>3, <2>2, <3>1, WithUser DEF Step, FindBySub, tables
    <3> QED
      BY <3>1, <3>2 DEF Resolved, Exclusive
  <2> QED
    BY <1>3, <2>1, <2>2 DEF FindBySub
<1>4. CASE FindByEmail(r)
  <2>1. ASSUME NEW u \in ByEmail(c.email), NEW label \in {"link", "token"},
               Step(r, label, [job[r] EXCEPT !.user = u]),
               label = "token" => users[u].sub = c.sub
        PROVE  Resolved(r)'
    <3>1. u \in Ids /\ u \in Nat /\ Mailbox[users[u].email] = Mailbox[c.email]
      BY IdsAreNat DEF ByEmail
    <3>2. pc'[r] = label /\ job'[r].user = u /\ job'[r].claim = c /\ users' = users
      BY <1>0, <1>4, <2>1, <3>1, WithUser DEF Step, FindByEmail, tables
    <3> QED
      BY <2>1, <3>1, <3>2 DEF Resolved, Exclusive
  <2>2. CASE Step(r, "provision", job[r]) \/ Answer(r) \/ Raise(r)
    BY <2>2 DEF Step, Answer, Raise, Resolved
  <2> QED
    BY <1>4, <2>1, <2>2 DEF FindByEmail
<1>5. CASE LinkAccount(r)
  <2>1. CASE Raise(r)
    BY <2>1 DEF Raise, Step, Resolved
  <2>2. CASE ~Raise(r)
    <3>1. /\ job[r].user \in Ids
          /\ Step(r, "token", job[r])
          /\ \E row : users' = [users EXCEPT ![job[r].user] = row] /\ row.sub = c.sub
      <4>1. job[r].user \in Ids
        BY <1>5 DEF LinkAccount, JobFits
      <4> DEFINE row == [users[job[r].user] EXCEPT !.sub = c.sub, !.verified = TRUE,
                           !.hash = users[job[r].user].hash + 1, !.typed = FALSE]
      <4>2. users' = [users EXCEPT ![job[r].user] = row] /\ Step(r, "token", job[r])
        BY <1>5, <2>2 DEF LinkAccount
      <4>3. row.sub = c.sub
        BY <4>1, RowTyped DEF Row
      <4> QED
        BY <4>1, <4>2, <4>3
    <3>2. pc'[r] = "token" /\ job'[r] = job[r] /\ users'[job[r].user].sub = c.sub
      BY <3>1 DEF Step, Ids
    <3> QED
      BY <3>2 DEF Resolved, Exclusive
  <2> QED
    BY <2>1, <2>2
<1>6. CASE ProvisionAccount(r)
  <2>1. CASE Raise(r)
    BY <2>1 DEF Raise, Step, Resolved
  <2>2. CASE ~Raise(r)
    <3> DEFINE n == Len(users) + 1
               row == [email |-> c.email, sub |-> c.sub, verified |-> TRUE, hash |-> 1,
                       typed |-> FALSE]
    <3>1. users' = Append(users, row) /\ Step(r, "token", [job[r] EXCEPT !.user = n])
      BY <1>6, <2>2 DEF ProvisionAccount
    <3>2. c \in Claims /\ c.email \in Emails /\ c.sub \in Subs
      BY <1>6, ConstantsOK DEF ProvisionAccount, JobFits, Subs
    <3>3. row \in Row /\ row.sub = c.sub
      BY <3>2 DEF Row
    <3>4. users'[n].sub = c.sub /\ n \in Nat
      BY <3>1, <3>3, RowAdded
    <3>5. pc'[r] = "token" /\ job'[r].user = n /\ job'[r].claim = c
      BY <1>0, <3>1, <3>4, WithUser DEF Step
    <3> QED
      BY <3>4, <3>5 DEF Resolved, Exclusive
  <2> QED
    BY <2>1, <2>2
<1>7. CASE pc'[r] \notin {"link", "token"}
  BY <1>7 DEF Resolved
<1> QED
  BY <1>1, <1>2, <1>3, <1>4, <1>5, <1>6, <1>7, Arrives, ArrivesAtToken

LEMMA SubjectStep ==
  ASSUME SubjectInv, [Next]_vars
  PROVE  SubjectInv'
<1>1. LoginInv' /\ Kept /\ SubsFine
  BY LoginStep, RowsKept, SubsStep DEF SubjectInv, LoginInv
<1>2. \A q \in Replicas : Resolved(q)'
  <2>1. CASE UNCHANGED <<pc, job>>
    BY <1>1, <2>1, ResolvedStays DEF SubjectInv, SubsFine
  <2>2. ASSUME NEW r \in Replicas, Limited(r) \/ Unlimited(r), NEW q \in Replicas
        PROVE  Resolved(q)'
    <3>1. CASE q = r
      BY <1>1, <2>2, <3>1, ResolvedStep DEF SubsFine
    <3>2. CASE q # r
      <4>1. pc'[q] = pc[q] /\ job'[q] = job[q]
        BY <2>2, <3>2, OthersStay DEF SubjectInv, LoginInv, Shape
      <4> QED
        BY <1>1, <4>1, ResolvedStays DEF SubsFine
    <3> QED
      BY <3>1, <3>2
  <2> QED
    BY <2>1, <2>2 DEF Next, vars, OidcLogin
<1>3. \A o \in opened' : /\ o.user \in Ids' /\ o.sub \in Subs
                         /\ Exclusive(o.sub) => users'[o.user].sub = o.sub
  <2>1. \A o \in opened : /\ o.user \in Ids' /\ o.sub \in Subs
                          /\ Exclusive(o.sub) => users'[o.user].sub = o.sub
    <3> SUFFICES ASSUME NEW o \in opened
                 PROVE  /\ o.user \in Ids' /\ o.sub \in Subs
                        /\ Exclusive(o.sub) => users'[o.user].sub = o.sub
      OBVIOUS
    <3>1. /\ o.user \in Ids /\ o.sub \in Subs /\ o.sub # NoSub
          /\ Exclusive(o.sub) => users[o.user].sub = o.sub
      BY ConstantsOK DEF SubjectInv
    <3>2. o.user \in Ids'
      BY <1>1, <3>1 DEF Kept, Ids
    <3>3. Exclusive(o.sub) => users'[o.user].sub = o.sub
      BY <1>1, <3>1 DEF SubsFine, SubsKept
    <3> QED
      BY <3>1, <3>2, <3>3
  <2>2. ASSUME NEW r \in Replicas, WriteToken(r), ~UNCHANGED opened
        PROVE  \A o \in opened' : /\ o.user \in Ids' /\ o.sub \in Subs
                                  /\ Exclusive(o.sub) => users'[o.user].sub = o.sub
    <3> DEFINE n == [flow |-> job[r].flow, sub |-> job[r].claim.sub, user |-> job[r].user]
    <3>1. /\ job[r].flow \in Flows /\ opened' = opened \cup {n} /\ users' = users
          /\ pc[r] = "token"
      BY <2>2 DEF WriteToken
    <3>2. n.user \in Ids /\ n.sub \in Subs
      BY <3>1 DEF SubjectInv, LoginInv, Shape, JobFits, Subs
    <3>3. Exclusive(n.sub) => users[n.user].sub = n.sub
      BY <3>1 DEF SubjectInv, Resolved
    <3>4. Ids' = Ids
      BY <3>1 DEF Ids
    <3> HIDE DEF n
    <3> QED
      BY <2>1, <3>1, <3>2, <3>3, <3>4
  <2> QED
    BY <2>1, <2>2, SessionsChange
<1> QED
  BY <1>1, <1>2, <1>3 DEF SubjectInv, SubsFine

\* A subject that shares its mailbox with no other signs in to one account for
\* ever (SubjectIsStable): the unique index and the guards of the write behind
\* it stop the login that lost a race, and no later link moves the subject.
THEOREM SubjectsAreStable == Spec => []SubjectIsStable
<1>1. Init => SubjectInv
  <2> SUFFICES ASSUME Init PROVE SubjectInv
    OBVIOUS
  <2>1. Ids = {}
    BY EmptySeq DEF Init, Ids
  <2> QED
    BY <2>1, LoginInit DEF Init, SubjectInv, UniqueSubs, Resolved
<1>2. SubjectInv /\ [Next]_vars => SubjectInv'
  BY SubjectStep
<1>3. SubjectInv => SubjectIsStable
  <2> SUFFICES ASSUME SubjectInv, NEW o \in opened, NEW p \in opened,
                      o.sub = p.sub, Exclusive(o.sub)
               PROVE  o.user = p.user
    BY DEF SubjectIsStable
  <2>1. /\ o.user \in Ids /\ p.user \in Ids /\ o.sub # NoSub
        /\ users[o.user].sub = o.sub /\ users[p.user].sub = o.sub
    BY ConstantsOK DEF SubjectInv
  <2> QED
    BY <2>1 DEF SubjectInv, UniqueSubs
<1> QED
  BY <1>1, <1>2, <1>3, PTL DEF Spec
=============================================================================
