------------------------------ MODULE Accounts ------------------------------
(***************************************************************************)
(* Registration, the password check of Login (internal/service/auth.go),   *)
(* UpdateProfile and ChangePassword (internal/service/user.go) over the    *)
(* users table, by concurrent requests.                                    *)
(*                                                                         *)
(* None of them uses a transaction: between the SELECT that reads a        *)
(* password hash and what is decided on it lie one or two bcrypt runs, and *)
(* any other request.  A password stands for its hash.  The session that a *)
(* login opens is Sessions' subject.                                       *)
(***************************************************************************)
CONSTANTS
    Ids,        \* the user ids that may ever be generated
    Spellings,  \* e-mail addresses as clients write them
    Lower,      \* Lower[e]: e trimmed and in lower case
    Weight,     \* Weight[e]: what the collation of users.email compares, MySQL's
                \* default one, to which letters with and without accents are one
    Passwords,
    Names,
    Procs,      \* requests that can be in flight together
    NoId, NoEmail, NoPassword, NoName

ASSUME AccountAssumption ==
    /\ Lower \in [Spellings -> Spellings]
    /\ \A e \in Spellings : Lower[Lower[e]] = Lower[e]
    /\ DOMAIN Weight = Spellings
    /\ NoId \notin Ids /\ NoEmail \notin Spellings
    /\ NoPassword \notin Passwords /\ NoName \notin Names

VARIABLES
    user,    \* user[i]: the row in users, or NoUser
    pc,      \* pc[p]: the next statement or comparison of request p
    req,     \* req[p]: what request p asks for
    hash,    \* hash[p]: the password (hash) that p has read
    during   \* history, during[p]: the passwords that the account p names has
             \* had since p was received

accountVars == <<user, pc, req, hash, during>>

NoUser == [email |-> NoEmail, password |-> NoPassword, name |-> NoName]

Users == [email : Spellings, password : Passwords, name : Names]

Requests == [op : {"none", "register", "login", "change_password", "update_profile"},
             id : Ids \cup {NoId}, email : Spellings \cup {NoEmail},
             password : Passwords \cup {NoPassword}, new : Passwords \cup {NoPassword},
             name : Names \cup {NoName}]

NoRequest == [op |-> "none", id |-> NoId, email |-> NoEmail,
              password |-> NoPassword, new |-> NoPassword, name |-> NoName]

AccountInit ==
    /\ user = [i \in Ids |-> NoUser]
    /\ pc = [p \in Procs |-> "idle"]
    /\ req = [p \in Procs |-> NoRequest]
    /\ hash = [p \in Procs |-> NoPassword]
    /\ during = [p \in Procs |-> {}]

Registered(i) == user[i] # NoUser

\* Account i has the address e, as MySQL compares addresses.
HasEmail(i, e) == Registered(i) /\ Weight[user[i].email] = Weight[e]

NormalizeEmail(e) == Lower[e]

-----------------------------------------------------------------------------
Receive(p, r, at) ==
    /\ pc[p] = "idle"
    /\ pc' = [pc EXCEPT ![p] = at]
    /\ req' = [req EXCEPT ![p] = r]
    /\ UNCHANGED <<user, hash>>

Finish(p) ==
    /\ pc' = [pc EXCEPT ![p] = "idle"]
    /\ req' = [req EXCEPT ![p] = NoRequest]
    /\ hash' = [hash EXCEPT ![p] = NoPassword]

\* Register hashes the password and makes a fresh id.
RequestRegister(p) ==
    \E i \in Ids, e \in Spellings, w \in Passwords, n \in Names :
        /\ ~Registered(i) /\ \A q \in Procs : req[q].id # i
        /\ Receive(p, [NoRequest EXCEPT !.op = "register", !.id = i, !.email = e,
                                        !.new = w, !.name = n], "insert")

RequestLogin(p) ==
    \E e \in Spellings, w \in Passwords :
        Receive(p, [NoRequest EXCEPT !.op = "login", !.email = e, !.password = w], "get_by_email")

\* The caller of the next two is the user of a valid access token.
RequestChangePassword(p) ==
    \E i \in Ids, old, w \in Passwords :
        /\ Registered(i) /\ old # w
        /\ Receive(p, [NoRequest EXCEPT !.op = "change_password", !.id = i,
                                        !.password = old, !.new = w], "get_by_id")

RequestUpdateProfile(p) ==
    \E i \in Ids, n \in Names :
        /\ Registered(i)
        /\ Receive(p, [NoRequest EXCEPT !.op = "update_profile", !.id = i, !.name = n],
                   "update_name")

\* A bug: the row that has the address is replaced.
CreateReplacing(i, row) ==
    user' = [j \in Ids |-> IF \E k \in Ids : HasEmail(k, row.email)
                           THEN IF HasEmail(j, row.email) THEN row ELSE user[j]
                           ELSE IF j = i THEN row ELSE user[j]]

\* A bug: the column is not UNIQUE.
CreateNoUnique(i, row) == user' = [user EXCEPT ![i] = row]

\* INSERT, refused by the UNIQUE index on email (users keep no second row).
Create(i, row) ==
    user' = IF \E j \in Ids : HasEmail(j, row.email) THEN user
            ELSE [user EXCEPT ![i] = row]

Register(p) ==
    /\ pc[p] = "insert"
    /\ Create(req[p].id, [email |-> NormalizeEmail(req[p].email),
                          password |-> req[p].new, name |-> req[p].name])
    /\ Finish(p)

\* GetByEmail.  For an unknown address a dummy hash is compared, in vain.
GetByEmail(p) ==
    /\ pc[p] = "get_by_email"
    /\ \/ \E i \in Ids :
             /\ HasEmail(i, NormalizeEmail(req[p].email))
             /\ hash' = [hash EXCEPT ![p] = user[i].password]
             /\ pc' = [pc EXCEPT ![p] = "compare"]
             /\ UNCHANGED req
       \/ /\ \A i \in Ids : ~HasEmail(i, NormalizeEmail(req[p].email))
          /\ Finish(p)
    /\ UNCHANGED user

\* GetByID in ChangePassword.
GetByID(p) ==
    /\ pc[p] = "get_by_id"
    /\ hash' = [hash EXCEPT ![p] = user[req[p].id].password]
    /\ pc' = [pc EXCEPT ![p] = "compare"]
    /\ UNCHANGED <<user, req>>

\* A bug: any password will do.
MatchesAny(stored, password) == TRUE

Matches(stored, password) == stored = password

\* Compare; then Login issues tokens, ChangePassword hashes the new password.
Compare(p) ==
    /\ pc[p] = "compare"
    /\ \/ /\ Matches(hash[p], req[p].password)
          /\ pc' = [pc EXCEPT ![p] = IF req[p].op = "login" THEN "issue" ELSE "update_password"]
          /\ UNCHANGED <<req, hash>>
       \/ ~Matches(hash[p], req[p].password) /\ Finish(p)
    /\ UNCHANGED user

\* issueTokens and the answer.
Issue(p) == pc[p] = "issue" /\ Finish(p) /\ UNCHANGED user

\* Each UPDATE sets one column, WHERE id = ?.
UpdatePassword(p) ==
    /\ pc[p] = "update_password"
    /\ user' = [user EXCEPT ![req[p].id].password = req[p].new]
    /\ Finish(p)

UpdateName(p) ==
    /\ pc[p] = "update_name"
    /\ user' = [user EXCEPT ![req[p].id].name = req[p].name]
    /\ pc' = [pc EXCEPT ![p] = "read_profile"]
    /\ UNCHANGED <<req, hash>>

\* UpdateProfile answers with the row as it is now.
ReadProfile(p) == pc[p] = "read_profile" /\ Finish(p) /\ UNCHANGED user

\* A statement fails, or the hash.
Fail(p) == pc[p] # "idle" /\ Finish(p) /\ UNCHANGED user

AccountStep(p) ==
    \/ RequestRegister(p) \/ RequestLogin(p) \/ RequestChangePassword(p) \/ RequestUpdateProfile(p)
    \/ Register(p) \/ GetByEmail(p) \/ GetByID(p) \/ Compare(p) \/ Issue(p)
    \/ UpdatePassword(p) \/ UpdateName(p) \/ ReadProfile(p) \/ Fail(p)

\* Request p is about account i.
Concerns(p, i) == IF req[p].op = "login" THEN HasEmail(i, Lower[req[p].email])
                  ELSE Registered(i) /\ req[p].id = i

\* What the history variable remembers.
Remember ==
    during' = [p \in Procs |-> IF req'[p].op \notin {"login", "change_password"} THEN {}
                               ELSE during[p] \cup {user'[i].password : i \in {j \in Ids : Concerns(p, j)'}}]

AccountNext == (\E p \in Procs : AccountStep(p)) /\ Remember

AccountSpec == AccountInit /\ [][AccountNext]_accountVars
-----------------------------------------------------------------------------
\* Types of the table and of the requests.
AccountTypeOK ==
    /\ user \in [Ids -> Users \cup {NoUser}]
    /\ pc \in [Procs -> {"idle", "insert", "get_by_email", "get_by_id", "compare", "issue",
                         "update_password", "update_name", "read_profile"}]
    /\ req \in [Procs -> Requests]
    /\ hash \in [Procs -> Passwords \cup {NoPassword}]
    /\ during \in [Procs -> SUBSET Passwords]

\* However many registrations race (Register, users.email), an address has
\* one account: however it is spelled, and as MySQL compares it, so that the
\* account that a login finds is the only one it can find.
OneAccountPerEmail ==
    \A i, j \in Ids :
        /\ Registered(i) /\ Registered(j)
        /\ \/ Lower[user[i].email] = Lower[user[j].email]
           \/ Weight[user[i].email] = Weight[user[j].email]
        => i = j

\* A login succeeds, and a password change is written, only with a password
\* that the account had while the request was in flight: from the moment a
\* change is answered, its old password opens nothing to later requests.
PasswordsProved ==
    \A p \in Procs : pc[p] \in {"issue", "update_password"} => req[p].password \in during[p]

\* ChangePassword "requires the current password" (service/user.go): no
\* other request - a second registration, a profile update - changes the
\* password or the address of an account, or removes it.
AccountsAreKept ==
    [][\A i \in Ids : Registered(i) =>
          /\ user'[i].email = user[i].email
          /\ user'[i].password # user[i].password =>
                \E p \in Procs : /\ req[p].op = "change_password" /\ req[p].id = i
                                 /\ req[p].password \in during[p]
                                 /\ user'[i].password = req[p].new]_accountVars
=============================================================================
