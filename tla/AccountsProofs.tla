--------------------------- MODULE AccountsProofs ---------------------------
(***************************************************************************)
(* Proofs about Accounts, for every number of users, addresses and         *)
(* requests.  The invariant: addresses are stored in their normal form,    *)
(* once; an id that is being registered belongs to one request; and what a *)
(* request has compared was the account's password during the request.     *)
(***************************************************************************)
EXTENDS Accounts, TLAPS

TableInv ==
    /\ \A i \in Ids : Registered(i) => Lower[user[i].email] = user[i].email
    /\ \A i, j \in Ids : Registered(i) /\ Registered(j)
                         /\ Weight[user[i].email] = Weight[user[j].email] => i = j

RequestInv(p) ==
    /\ pc[p] = "insert" => /\ req[p].op = "register" /\ req[p].id \in Ids /\ ~Registered(req[p].id)
                           /\ req[p].email \in Spellings /\ req[p].new \in Passwords
                           /\ req[p].name \in Names
                           /\ \A q \in Procs : req[q].id = req[p].id => q = p
    /\ pc[p] = "get_by_email" => req[p].op = "login" /\ req[p].email \in Spellings
    /\ pc[p] = "issue" => req[p].op = "login"
    /\ pc[p] = "compare" => req[p].op \in {"login", "change_password"}
    /\ pc[p] \in {"get_by_id", "update_password"} => req[p].op = "change_password"
    /\ pc[p] \in {"update_name", "read_profile"} => req[p].op = "update_profile"
    /\ req[p].op \in {"change_password", "update_profile"} => req[p].id \in Ids /\ Registered(req[p].id)
    /\ req[p].op = "change_password" => req[p].new \in Passwords
    /\ req[p].op = "update_profile" => req[p].name \in Names
    /\ pc[p] = "compare" => hash[p] \in during[p]
    /\ pc[p] \in {"issue", "update_password"} => req[p].password \in during[p]

AccountInv == AccountTypeOK /\ TableInv /\ \A p \in Procs : RequestInv(p)

LEMMA NoneTyped ==
    /\ NoRequest \in Requests /\ NoRequest.op = "none" /\ NoRequest.id = NoId
    /\ NoUser \notin Users
    /\ \A u \in Users : u.email \in Spellings /\ u.email # NoEmail /\ u.password \in Passwords
    /\ NoUser.email = NoEmail
  BY AccountAssumption DEF NoRequest, Requests, NoUser, Users

LEMMA AccountInitInv == AccountInit => AccountInv
  BY NoneTyped DEF AccountInit, AccountInv, AccountTypeOK, TableInv, RequestInv, Registered

\* A registered account has a row of the right type.
LEMMA RowTyped ==
    ASSUME AccountTypeOK, NEW i \in Ids
    PROVE  Registered(i) <=> user[i] \in Users
  BY NoneTyped DEF AccountTypeOK, Registered

\* What the history variable remembers of a request that goes on.
LEMMA Remembered ==
    ASSUME AccountTypeOK, user' \in [Ids -> Users \cup {NoUser}], Remember
    PROVE  /\ during' \in [Procs -> SUBSET Passwords]
           /\ \A p \in Procs : req'[p].op \in {"login", "change_password"} =>
                /\ during[p] \subseteq during'[p]
                /\ \A i \in Ids : Concerns(p, i)' => user'[i].password \in during'[p]
<1>1. \A i \in Ids : \A p \in Procs : Concerns(p, i)' => user'[i].password \in Passwords
  BY NoneTyped DEF Concerns, HasEmail, Registered
<1>2. \A p \in Procs : during'[p] = IF req'[p].op \notin {"login", "change_password"} THEN {}
                         ELSE during[p] \cup {user'[i].password : i \in {j \in Ids : Concerns(p, j)'}}
  BY DEF Remember
<1>3. ASSUME NEW p \in Procs PROVE during'[p] \in SUBSET Passwords
  <2> DEFINE now == {user'[i].password : i \in {j \in Ids : Concerns(p, j)'}}
  <2>1. now \subseteq Passwords
    BY <1>1
  <2>2. during[p] \in SUBSET Passwords
    BY DEF AccountTypeOK
  <2>3. during'[p] \in {{}, during[p] \cup now}
    BY <1>2
  <2> QED BY <2>1, <2>2, <2>3
<1>4. during' \in [Procs -> SUBSET Passwords]
  BY <1>3 DEF Remember
<1> QED BY <1>2, <1>4

-----------------------------------------------------------------------------
(* Steps that leave the table alone.                                       *)

\* The other requests are as they were.
Alone(p) == \A q \in Procs \ {p} : pc'[q] = pc[q] /\ req'[q] = req[q] /\ hash'[q] = hash[q]

LEMMA QuietInv ==
    ASSUME AccountInv, NEW p \in Procs, UNCHANGED user, Remember, Alone(p),
           pc' \in [Procs -> {"idle", "insert", "get_by_email", "get_by_id", "compare", "issue",
                              "update_password", "update_name", "read_profile"}],
           req' \in [Procs -> Requests], hash' \in [Procs -> Passwords \cup {NoPassword}],
           RequestInv(p)',
           req'[p].id \in {req[p].id, NoId} \/ \A q \in Procs : pc[q] = "insert" => req[q].id # req'[p].id
    PROVE  AccountInv'
<1>0. AccountTypeOK /\ TableInv /\ \A q \in Procs : RequestInv(q)
  BY DEF AccountInv
<1>1. during' \in [Procs -> SUBSET Passwords]
      /\ \A q \in Procs : req'[q].op \in {"login", "change_password"} => during[q] \subseteq during'[q]
  BY <1>0, Remembered DEF AccountTypeOK
<1>2. AccountTypeOK'
  BY <1>0, <1>1 DEF AccountTypeOK
<1>3. TableInv'
  BY <1>0 DEF TableInv, Registered
<1>4. ASSUME NEW q \in Procs, q # p PROVE RequestInv(q)'
  <2>1. pc'[q] = pc[q] /\ req'[q] = req[q] /\ hash'[q] = hash[q] /\ RequestInv(q)
    BY <1>0, <1>4 DEF Alone
  <2>2. pc[q] = "insert" => \A r \in Procs : req'[r].id = req'[q].id => r = q
    BY <1>0, <1>4, <2>1, AccountAssumption DEF Alone, RequestInv
  <2> QED BY <1>1, <2>1, <2>2 DEF RequestInv, Registered
<1> QED BY <1>2, <1>3, <1>4 DEF AccountInv

LEMMA FinishQuietInv ==
    ASSUME AccountInv, NEW p \in Procs, Finish(p), UNCHANGED user, Remember
    PROVE  AccountInv'
<1>0. AccountTypeOK
  BY DEF AccountInv
<1>1. /\ pc' \in [Procs -> {"idle", "insert", "get_by_email", "get_by_id", "compare", "issue",
                              "update_password", "update_name", "read_profile"}]
      /\ req' \in [Procs -> Requests] /\ hash' \in [Procs -> Passwords \cup {NoPassword}]
      /\ Alone(p) /\ pc'[p] = "idle" /\ req'[p] = NoRequest
  BY <1>0, NoneTyped DEF AccountTypeOK, Finish, Alone
<1>2. RequestInv(p)'
  BY <1>1, NoneTyped DEF RequestInv
<1> QED BY <1>1, <1>2, NoneTyped, QuietInv

LEMMA RequestRegisterInv ==
    ASSUME AccountInv, NEW p \in Procs, RequestRegister(p), Remember
    PROVE  AccountInv'
<1>0. AccountTypeOK /\ \A q \in Procs : RequestInv(q)
  BY DEF AccountInv
<1>1. PICK i \in Ids, e \in Spellings, w \in Passwords, n \in Names :
        /\ ~Registered(i) /\ \A q \in Procs : req[q].id # i
        /\ Receive(p, [NoRequest EXCEPT !.op = "register", !.id = i, !.email = e,
                                        !.new = w, !.name = n], "insert")
  BY DEF RequestRegister
<1> DEFINE r == [NoRequest EXCEPT !.op = "register", !.id = i, !.email = e, !.new = w, !.name = n]
<1>2. r \in Requests /\ r.op = "register" /\ r.id = i /\ r.email = e /\ r.new = w /\ r.name = n
  BY DEF NoRequest, Requests
<1> HIDE DEF r
<1>3. /\ pc' \in [Procs -> {"idle", "insert", "get_by_email", "get_by_id", "compare", "issue",
                              "update_password", "update_name", "read_profile"}]
      /\ req' \in [Procs -> Requests] /\ hash' \in [Procs -> Passwords \cup {NoPassword}]
      /\ Alone(p) /\ pc'[p] = "insert" /\ req'[p] = r /\ UNCHANGED user
  BY <1>0, <1>1, <1>2 DEF AccountTypeOK, Receive, Alone, r
<1>4. RequestInv(p)'
  BY <1>0, <1>1, <1>2, <1>3 DEF RequestInv, Registered, Alone
<1>5. r.id = NoId \/ \A q \in Procs : pc[q] = "insert" => req[q].id # r.id
  BY <1>0, <1>1, <1>2 DEF RequestInv
<1> QED BY <1>3, <1>4, <1>5, QuietInv

LEMMA RequestLoginInv ==
    ASSUME AccountInv, NEW p \in Procs, RequestLogin(p), Remember
    PROVE  AccountInv'
<1>0. AccountTypeOK /\ \A q \in Procs : RequestInv(q)
  BY DEF AccountInv
<1>1. PICK e \in Spellings, w \in Passwords :
        Receive(p, [NoRequest EXCEPT !.op = "login", !.email = e, !.password = w], "get_by_email")
  BY DEF RequestLogin
<1> DEFINE r == [NoRequest EXCEPT !.op = "login", !.email = e, !.password = w]
<1>2. r \in Requests /\ r.op = "login" /\ r.email = e /\ r.id = NoId
  BY DEF NoRequest, Requests
<1> HIDE DEF r
<1>3. /\ pc' \in [Procs -> {"idle", "insert", "get_by_email", "get_by_id", "compare", "issue",
                              "update_password", "update_name", "read_profile"}]
      /\ req' \in [Procs -> Requests] /\ hash' \in [Procs -> Passwords \cup {NoPassword}]
      /\ Alone(p) /\ pc'[p] = "get_by_email" /\ req'[p] = r /\ UNCHANGED user
  BY <1>0, <1>1, <1>2 DEF AccountTypeOK, Receive, Alone, r
<1>4. RequestInv(p)'
  BY <1>0, <1>1, <1>2, <1>3 DEF RequestInv, Registered, Alone
<1>5. r.id = NoId \/ \A q \in Procs : pc[q] = "insert" => req[q].id # r.id
  BY <1>0, <1>1, <1>2 DEF RequestInv
<1> QED BY <1>3, <1>4, <1>5, QuietInv

LEMMA RequestChangePasswordInv ==
    ASSUME AccountInv, NEW p \in Procs, RequestChangePassword(p), Remember
    PROVE  AccountInv'
<1>0. AccountTypeOK /\ \A q \in Procs : RequestInv(q)
  BY DEF AccountInv
<1>1. PICK i \in Ids, old \in Passwords, w \in Passwords :
        /\ Registered(i)
        /\ Receive(p, [NoRequest EXCEPT !.op = "change_password", !.id = i,
                                        !.password = old, !.new = w], "get_by_id")
  BY DEF RequestChangePassword
<1> DEFINE r == [NoRequest EXCEPT !.op = "change_password", !.id = i, !.password = old, !.new = w]
<1>2. r \in Requests /\ r.op = "change_password" /\ r.id = i /\ r.new = w
  BY DEF NoRequest, Requests
<1> HIDE DEF r
<1>3. /\ pc' \in [Procs -> {"idle", "insert", "get_by_email", "get_by_id", "compare", "issue",
                              "update_password", "update_name", "read_profile"}]
      /\ req' \in [Procs -> Requests] /\ hash' \in [Procs -> Passwords \cup {NoPassword}]
      /\ Alone(p) /\ pc'[p] = "get_by_id" /\ req'[p] = r /\ UNCHANGED user
  BY <1>0, <1>1, <1>2 DEF AccountTypeOK, Receive, Alone, r
<1>4. RequestInv(p)'
  BY <1>0, <1>1, <1>2, <1>3 DEF RequestInv, Registered, Alone
<1>5. r.id = NoId \/ \A q \in Procs : pc[q] = "insert" => req[q].id # r.id
  BY <1>0, <1>1, <1>2 DEF RequestInv
<1> QED BY <1>3, <1>4, <1>5, QuietInv

LEMMA RequestUpdateProfileInv ==
    ASSUME AccountInv, NEW p \in Procs, RequestUpdateProfile(p), Remember
    PROVE  AccountInv'
<1>0. AccountTypeOK /\ \A q \in Procs : RequestInv(q)
  BY DEF AccountInv
<1>1. PICK i \in Ids, n \in Names :
        /\ Registered(i)
        /\ Receive(p, [NoRequest EXCEPT !.op = "update_profile", !.id = i, !.name = n],
                   "update_name")
  BY DEF RequestUpdateProfile
<1> DEFINE r == [NoRequest EXCEPT !.op = "update_profile", !.id = i, !.name = n]
<1>2. r \in Requests /\ r.op = "update_profile" /\ r.id = i /\ r.name = n
  BY DEF NoRequest, Requests
<1> HIDE DEF r
<1>3. /\ pc' \in [Procs -> {"idle", "insert", "get_by_email", "get_by_id", "compare", "issue",
                              "update_password", "update_name", "read_profile"}]
      /\ req' \in [Procs -> Requests] /\ hash' \in [Procs -> Passwords \cup {NoPassword}]
      /\ Alone(p) /\ pc'[p] = "update_name" /\ req'[p] = r /\ UNCHANGED user
  BY <1>0, <1>1, <1>2 DEF AccountTypeOK, Receive, Alone, r
<1>4. RequestInv(p)'
  BY <1>0, <1>1, <1>2, <1>3 DEF RequestInv, Registered, Alone
<1>5. r.id = NoId \/ \A q \in Procs : pc[q] = "insert" => req[q].id # r.id
  BY <1>0, <1>1, <1>2 DEF RequestInv
<1> QED BY <1>3, <1>4, <1>5, QuietInv

LEMMA GetByEmailInv ==
    ASSUME AccountInv, NEW p \in Procs, GetByEmail(p), Remember
    PROVE  AccountInv'
<1>0. AccountTypeOK /\ TableInv /\ RequestInv(p)
  BY DEF AccountInv
<1>1. CASE Finish(p)
  BY <1>1, FinishQuietInv DEF GetByEmail
<1>2. ASSUME NEW i \in Ids, HasEmail(i, NormalizeEmail(req[p].email)),
             hash' = [hash EXCEPT ![p] = user[i].password],
             pc' = [pc EXCEPT ![p] = "compare"], UNCHANGED req
      PROVE  AccountInv'
  <2>1. req[p].op = "login" /\ req[p].email \in Spellings /\ UNCHANGED user
    BY <1>0 DEF GetByEmail, RequestInv
  <2>2. Registered(i) /\ user[i].password \in Passwords
    BY <1>0, <1>2, NoneTyped, RowTyped DEF HasEmail
  <2>3. Concerns(p, i)'
    BY <1>2, <2>1, <2>2 DEF Concerns, HasEmail, Registered, NormalizeEmail
  <2>4. user[i].password \in during'[p]
    BY <1>0, <1>2, <2>1, <2>3, Remembered DEF AccountTypeOK
  <2>5. hash' \in [Procs -> Passwords \cup {NoPassword}] /\ hash'[p] = user[i].password
        /\ pc' \in [Procs -> {"idle", "insert", "get_by_email", "get_by_id", "compare", "issue",
                              "update_password", "update_name", "read_profile"}]
        /\ pc'[p] = "compare" /\ Alone(p) /\ req' \in [Procs -> Requests]
    BY <1>0, <1>2, <2>2 DEF AccountTypeOK, Alone
  <2>6. RequestInv(p)'
    BY <1>2, <2>1, <2>4, <2>5 DEF RequestInv
  <2> QED BY <1>2, <2>1, <2>5, <2>6, QuietInv
<1> QED BY <1>1, <1>2 DEF GetByEmail

LEMMA GetByIDInv ==
    ASSUME AccountInv, NEW p \in Procs, GetByID(p), Remember
    PROVE  AccountInv'
<1> DEFINE i == req[p].id
<1>0. AccountTypeOK /\ RequestInv(p)
  BY DEF AccountInv
<1>1. req[p].op = "change_password" /\ i \in Ids /\ Registered(i) /\ UNCHANGED <<user, req>>
  BY <1>0 DEF GetByID, RequestInv
<1>2. user[i].password \in Passwords
  BY <1>0, <1>1, NoneTyped, RowTyped
<1>3. Concerns(p, i)'
  BY <1>1 DEF Concerns, Registered
<1>4. user[i].password \in during'[p]
  BY <1>0, <1>1, <1>3, Remembered DEF AccountTypeOK
<1>5. hash' \in [Procs -> Passwords \cup {NoPassword}] /\ hash'[p] = user[i].password
      /\ pc' \in [Procs -> {"idle", "insert", "get_by_email", "get_by_id", "compare", "issue",
                            "update_password", "update_name", "read_profile"}]
      /\ pc'[p] = "compare" /\ Alone(p) /\ req' \in [Procs -> Requests]
  BY <1>0, <1>1, <1>2 DEF AccountTypeOK, Alone, GetByID
<1>6. RequestInv(p)'
  BY <1>0, <1>1, <1>4, <1>5 DEF RequestInv, Registered
<1> QED BY <1>1, <1>5, <1>6, QuietInv

LEMMA CompareInv ==
    ASSUME AccountInv, NEW p \in Procs, Compare(p), Remember
    PROVE  AccountInv'
<1>0. AccountTypeOK /\ RequestInv(p)
  BY DEF AccountInv
<1>1. CASE Finish(p)
  BY <1>1, FinishQuietInv DEF Compare
<1>2. CASE /\ Matches(hash[p], req[p].password) /\ UNCHANGED <<req, hash>>
           /\ pc' = [pc EXCEPT ![p] = IF req[p].op = "login" THEN "issue" ELSE "update_password"]
  <2>1. req[p].op \in {"login", "change_password"} /\ hash[p] \in during[p] /\ UNCHANGED user
    BY <1>0 DEF Compare, RequestInv
  <2>2. during[p] \subseteq during'[p]
    BY <1>0, <1>2, <2>1, Remembered DEF AccountTypeOK
  <2>3. req[p].password \in during'[p]
    BY <1>2, <2>1, <2>2 DEF Matches
  <2>4. /\ pc' \in [Procs -> {"idle", "insert", "get_by_email", "get_by_id", "compare", "issue",
                            "update_password", "update_name", "read_profile"}]
        /\ pc'[p] = (IF req[p].op = "login" THEN "issue" ELSE "update_password") /\ Alone(p)
    BY <1>0, <1>2 DEF AccountTypeOK, Alone
  <2>5. RequestInv(p)'
    BY <1>0, <1>2, <2>1, <2>3, <2>4 DEF RequestInv, Registered
  <2> QED BY <1>0, <1>2, <2>1, <2>4, <2>5, QuietInv DEF AccountTypeOK
<1> QED BY <1>1, <1>2 DEF Compare

-----------------------------------------------------------------------------
(* Steps that write the table.                                             *)

\* A write keeps what is registered and leaves ids that others register.
LEMMA WriteInv ==
    ASSUME AccountInv, NEW p \in Procs, user' \in [Ids -> Users \cup {NoUser}], Remember, Alone(p),
           pc' \in [Procs -> {"idle", "insert", "get_by_email", "get_by_id", "compare", "issue",
                              "update_password", "update_name", "read_profile"}],
           req' \in [Procs -> Requests], hash' \in [Procs -> Passwords \cup {NoPassword}],
           RequestInv(p)', TableInv', req'[p].id \in {req[p].id, NoId},
           \A i \in Ids : Registered(i) => Registered(i)',
           \A i \in Ids : Registered(i)' => Registered(i) \/ (pc[p] = "insert" /\ i = req[p].id)
    PROVE  AccountInv'
<1>0. AccountTypeOK /\ \A q \in Procs : RequestInv(q)
  BY DEF AccountInv
<1>1. during' \in [Procs -> SUBSET Passwords]
      /\ \A q \in Procs : req'[q].op \in {"login", "change_password"} => during[q] \subseteq during'[q]
  BY <1>0, Remembered
<1>2. AccountTypeOK'
  BY <1>0, <1>1 DEF AccountTypeOK
<1>4. ASSUME NEW q \in Procs, q # p PROVE RequestInv(q)'
  <2>1. pc'[q] = pc[q] /\ req'[q] = req[q] /\ hash'[q] = hash[q] /\ RequestInv(q)
    BY <1>0, <1>4 DEF Alone
  <2>2. pc[q] = "insert" => /\ req[q].id \in Ids /\ req[q].id # req[p].id /\ ~Registered(req[q].id)'
                            /\ \A r \in Procs : req'[r].id = req'[q].id => r = q
    BY <1>0, <1>4, <2>1, AccountAssumption DEF Alone, RequestInv
  <2>3. \A i \in Ids : Registered(i) => Registered(i)'
    OBVIOUS
  <2> HIDE DEF Registered
  <2> QED BY <1>1, <2>1, <2>2, <2>3 DEF RequestInv
<1> QED BY <1>2, <1>4 DEF AccountInv

LEMMA RegisterInv ==
    ASSUME AccountInv, NEW p \in Procs, Register(p), Remember
    PROVE  AccountInv'
<1> DEFINE i   == req[p].id
           row == [email |-> NormalizeEmail(req[p].email), password |-> req[p].new,
                   name |-> req[p].name]
<1>0. AccountTypeOK /\ TableInv /\ RequestInv(p)
  BY DEF AccountInv
<1>1. Create(i, row) /\ Finish(p) /\ pc[p] = "insert"
  BY DEF Register
<1>2. i \in Ids /\ ~Registered(i) /\ req[p].email \in Spellings
      /\ req[p].new \in Passwords /\ req[p].name \in Names
  BY <1>0, <1>1 DEF RequestInv
<1>3. row \in Users /\ row.email = Lower[req[p].email] /\ Lower[row.email] = row.email
  BY <1>2, AccountAssumption DEF Users, NormalizeEmail
<1> HIDE DEF row
<1>4. CASE UNCHANGED user
  BY <1>1, <1>4, FinishQuietInv
<1>5. CASE user' = [user EXCEPT ![i] = row] /\ \A j \in Ids : ~HasEmail(j, row.email)
  <2>1. user' \in [Ids -> Users \cup {NoUser}] /\ user'[i] = row
        /\ \A j \in Ids \ {i} : user'[j] = user[j]
    BY <1>0, <1>2, <1>3, <1>5 DEF AccountTypeOK
  <2>2. \A j \in Ids : Registered(j)' <=> Registered(j) \/ j = i
    BY <1>2, <1>3, <2>1, NoneTyped DEF Registered
  <2>3. TableInv'
    BY <1>0, <1>2, <1>3, <1>5, <2>1, <2>2 DEF TableInv, HasEmail
  <2>4. /\ pc' \in [Procs -> {"idle", "insert", "get_by_email", "get_by_id", "compare", "issue",
                              "update_password", "update_name", "read_profile"}]
        /\ req' \in [Procs -> Requests] /\ hash' \in [Procs -> Passwords \cup {NoPassword}]
        /\ Alone(p) /\ pc'[p] = "idle" /\ req'[p] = NoRequest
    BY <1>0, <1>1, NoneTyped DEF AccountTypeOK, Finish, Alone
  <2>5. RequestInv(p)'
    BY <2>4, NoneTyped DEF RequestInv
  <2> QED BY <1>1, <2>1, <2>2, <2>3, <2>4, <2>5, NoneTyped, WriteInv
<1> QED BY <1>1, <1>4, <1>5 DEF Create

LEMMA UpdatePasswordInv ==
    ASSUME AccountInv, NEW p \in Procs, UpdatePassword(p), Remember
    PROVE  AccountInv'
<1> DEFINE i   == req[p].id
           row == [user[i] EXCEPT !.password = req[p].new]
<1>0. AccountTypeOK /\ TableInv /\ RequestInv(p)
  BY DEF AccountInv
<1>1. i \in Ids /\ Registered(i) /\ req[p].new \in Passwords
  BY <1>0 DEF UpdatePassword, RequestInv
<1>2. user[i] \in Users
  BY <1>0, <1>1, RowTyped
<1>3. row \in Users /\ row.email = user[i].email
  BY <1>1, <1>2 DEF Users
<1>4. user' = [user EXCEPT ![i] = row] /\ Finish(p)
  BY DEF UpdatePassword
<1> HIDE DEF row
<1>5. user' \in [Ids -> Users \cup {NoUser}] /\ user'[i] = row
      /\ \A j \in Ids \ {i} : user'[j] = user[j]
  BY <1>0, <1>1, <1>3, <1>4 DEF AccountTypeOK
<1>6. \A j \in Ids : (Registered(j)' <=> Registered(j)) /\ user'[j].email = user[j].email
  BY <1>1, <1>3, <1>5, NoneTyped DEF Registered
<1>7. TableInv'
  BY <1>0, <1>6 DEF TableInv
<1>8. /\ pc' \in [Procs -> {"idle", "insert", "get_by_email", "get_by_id", "compare", "issue",
                            "update_password", "update_name", "read_profile"}]
      /\ req' \in [Procs -> Requests] /\ hash' \in [Procs -> Passwords \cup {NoPassword}]
      /\ Alone(p) /\ pc'[p] = "idle" /\ req'[p] = NoRequest
  BY <1>0, <1>4, NoneTyped DEF AccountTypeOK, Finish, Alone
<1>9. RequestInv(p)'
  BY <1>8, NoneTyped DEF RequestInv
<1> QED BY <1>5, <1>6, <1>7, <1>8, <1>9, NoneTyped, WriteInv

LEMMA UpdateNameInv ==
    ASSUME AccountInv, NEW p \in Procs, UpdateName(p), Remember
    PROVE  AccountInv'
<1> DEFINE i   == req[p].id
           row == [user[i] EXCEPT !.name = req[p].name]
<1>0. AccountTypeOK /\ TableInv /\ RequestInv(p)
  BY DEF AccountInv
<1>1. i \in Ids /\ Registered(i) /\ req[p].name \in Names /\ req[p].op = "update_profile"
  BY <1>0 DEF UpdateName, RequestInv
<1>2. user[i] \in Users
  BY <1>0, <1>1, RowTyped
<1>3. row \in Users /\ row.email = user[i].email
  BY <1>1, <1>2 DEF Users
<1>4. user' = [user EXCEPT ![i] = row] /\ pc' = [pc EXCEPT ![p] = "read_profile"]
      /\ UNCHANGED <<req, hash>>
  BY DEF UpdateName
<1> HIDE DEF row
<1>5. user' \in [Ids -> Users \cup {NoUser}] /\ user'[i] = row
      /\ \A j \in Ids \ {i} : user'[j] = user[j]
  BY <1>0, <1>1, <1>3, <1>4 DEF AccountTypeOK
<1>6. \A j \in Ids : (Registered(j)' <=> Registered(j)) /\ user'[j].email = user[j].email
  BY <1>1, <1>3, <1>5, NoneTyped DEF Registered
<1>7. TableInv'
  BY <1>0, <1>6 DEF TableInv
<1>8. /\ pc' \in [Procs -> {"idle", "insert", "get_by_email", "get_by_id", "compare", "issue",
                            "update_password", "update_name", "read_profile"}]
      /\ Alone(p) /\ pc'[p] = "read_profile" /\ req'[p] = req[p]
  BY <1>0, <1>4 DEF AccountTypeOK, Alone
<1>9. RequestInv(p)'
  <2> HIDE DEF Registered
  <2> QED BY <1>0, <1>1, <1>6, <1>8 DEF RequestInv
<1> QED BY <1>0, <1>4, <1>5, <1>6, <1>7, <1>8, <1>9, WriteInv DEF AccountTypeOK

-----------------------------------------------------------------------------
LEMMA AccountNextInv == AccountInv /\ [AccountNext]_accountVars => AccountInv'
<1> SUFFICES ASSUME AccountInv, [AccountNext]_accountVars PROVE AccountInv'
  OBVIOUS
<1>1. CASE UNCHANGED accountVars
  BY <1>1 DEF accountVars, AccountInv, AccountTypeOK, TableInv, RequestInv, Registered
<1>2. ASSUME NEW p \in Procs, AccountStep(p), Remember PROVE AccountInv'
  <2>1. CASE Issue(p) \/ ReadProfile(p) \/ Fail(p)
    BY <1>2, <2>1, FinishQuietInv DEF Issue, ReadProfile, Fail
  <2> QED BY <1>2, <2>1, RequestRegisterInv, RequestLoginInv, RequestChangePasswordInv,
            RequestUpdateProfileInv, RegisterInv, GetByEmailInv, GetByIDInv, CompareInv,
            UpdatePasswordInv, UpdateNameInv DEF AccountStep
<1> QED BY <1>1, <1>2 DEF AccountNext

\* Addresses, ids in registration and compared passwords are what the
\* requests take them for, at every statement.
THEOREM AccountInvariant == AccountSpec => []AccountInv
  BY AccountInitInv, AccountNextInv, PTL DEF AccountSpec

\* Racing registrations never give an address two accounts, however it is
\* written.
THEOREM OneAccount == AccountSpec => []OneAccountPerEmail
<1>1. AccountInv => OneAccountPerEmail
  BY DEF AccountInv, TableInv, OneAccountPerEmail
<1> QED BY <1>1, AccountInvariant, PTL

\* Logins and password changes succeed only with a password that the account
\* had during the request.
THEOREM ProvedPasswords == AccountSpec => []PasswordsProved
<1>1. AccountInv => PasswordsProved
  BY DEF AccountInv, RequestInv, PasswordsProved
<1> QED BY <1>1, AccountInvariant, PTL

\* Nothing but a proved password change changes an account's password; its
\* address never changes.
THEOREM KeptAccounts == AccountSpec => AccountsAreKept
<1>1. AccountInv /\ [AccountNext]_accountVars =>
       [\A i \in Ids : Registered(i) =>
          /\ user'[i].email = user[i].email
          /\ user'[i].password # user[i].password =>
                \E p \in Procs : /\ req[p].op = "change_password" /\ req[p].id = i
                                 /\ req[p].password \in during[p]
                                 /\ user'[i].password = req[p].new]_accountVars
  <2> SUFFICES ASSUME AccountInv, AccountNext, NEW i \in Ids, Registered(i)
               PROVE  /\ user'[i].email = user[i].email
                      /\ user'[i].password # user[i].password =>
                         \E p \in Procs : /\ req[p].op = "change_password" /\ req[p].id = i
                                          /\ req[p].password \in during[p]
                                          /\ user'[i].password = req[p].new
    OBVIOUS
  <2>0. AccountTypeOK /\ \A q \in Procs : RequestInv(q)
    BY DEF AccountInv
  <2>1. PICK p \in Procs : AccountStep(p)
    BY DEF AccountNext
  <2>2. user[i] \in Users
    BY <2>0, RowTyped
  <2>3. CASE Register(p)
    <3>1. req[p].id # i
      BY <2>0, <2>3 DEF Register, RequestInv
    <3> QED BY <2>0, <2>3, <3>1 DEF Register, Create, AccountTypeOK
  <2>4. CASE UpdatePassword(p)
    <3>1. req[p].id = i => user'[i].email = user[i].email /\ user'[i].password = req[p].new
      BY <2>0, <2>2, <2>4 DEF UpdatePassword, AccountTypeOK, Users
    <3>2. req[p].id # i => user'[i] = user[i]
      BY <2>0, <2>4 DEF UpdatePassword, AccountTypeOK
    <3>3. req[p].op = "change_password" /\ req[p].password \in during[p]
      BY <2>0, <2>4 DEF UpdatePassword, RequestInv
    <3> QED BY <3>1, <3>2, <3>3
  <2>5. CASE UpdateName(p)
    <3>1. user'[i].email = user[i].email /\ user'[i].password = user[i].password
      BY <2>0, <2>2, <2>5 DEF UpdateName, AccountTypeOK, Users
    <3> QED BY <3>1
  <2>6. CASE UNCHANGED user
    BY <2>6
  <2> QED BY <2>1, <2>3, <2>4, <2>5, <2>6 DEF AccountStep, RequestRegister, RequestLogin,
        RequestChangePassword, RequestUpdateProfile, Receive, GetByEmail, GetByID, Compare,
        Issue, ReadProfile, Fail
<1> QED BY <1>1, AccountInvariant, PTL DEF AccountSpec, AccountsAreKept
=============================================================================
