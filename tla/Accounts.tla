------------------------------- MODULE Accounts -------------------------------
(***************************************************************************)
(* One user account between the database, the cache of user objects        *)
(* (internal/op/users.go, internal/op/user.go) and the tokens that name    *)
(* it (server/middlewares/auth.go): logins, requests with a token,         *)
(* password changes, also by a code sent by e-mail (MailCodes), the        *)
(* e-mail address, roles set by administrators, and deletion.              *)
(*                                                                         *)
(* A password change writes the version, the hash and the database in      *)
(* three steps, a login compares the hash and reads the version in two.    *)
(* A user object that has left the cache lives on as long as a request     *)
(* holds it.  Passwords are numbered: each change sets a new one, and the  *)
(* version, a checksum of the hash, is the number of the password.         *)
(***************************************************************************)
EXTENDS MailCodes

CONSTANTS
    Threads,    \* goroutines that run requests
    Users,      \* addresses of user objects
    None,
    Ops,        \* the operations the threads run
    MaxOps      \* bound: operations started

ByName == {"login", "retrieve", "askRetrieve"}
ByToken == {"setPassword", "logout", "askBind", "bind", "unbind"}
ByAdmin == {"approve", "ban", "unban", "addAdmin", "deleteAdmin", "adminPassword",
            "delete"}
SetsRole == {"approve", "ban", "unban", "addAdmin", "deleteAdmin"}
SetsPassword == {"retrieve", "setPassword", "adminPassword"}

ASSUME AccountsAssumption ==
    /\ Ops \subseteq ByName \cup ByToken \cup ByAdmin
    /\ None \notin Users \cup Mails
    /\ MaxOps \in Nat

VARIABLES
    row,        \* the account in the database
    cached,     \* the user object in the cache, or None
    user,       \* the user objects
    tokens,     \* the tokens that were issued: the version each has, and the
                \* password its owner proved to know
    th,         \* each thread: step, operation, the user object and the row it has
                \* read, its token, the password it sets or was given, and the code
                \* it comes with, or the address it is about
    ops,        \* operations started
    outdated,   \* history: user objects that missed a change of the row
    crossed     \* history: threads during whose login the password was changed, and
                \* tokens such a thread got

vars == <<row, cached, user, tokens, th, ops, outdated, crossed, mailVars>>

-----------------------------------------------------------------------------
Passwords == 0..MaxOps
Roles == {"pending", "banned", "user", "admin"}
Addresses == Mails \cup {None}
Row == [pwd : Passwords, role : Roles, mail : Addresses]
Gone == [pwd |-> 0, role |-> "gone", mail |-> None]
User == [version : Passwords, pwd : Passwords, role : Roles, mail : Addresses]
NoCode == Code("none", None, 0)
Token == [version : Passwords, pwd : Passwords]

\* Goroutines and tokens are told apart in the history of both.
ASSUME TokenAssumption == Threads \cap Token = {}

At(t, step) == th[t].pc = step
Set(t, r) == th' = [th EXCEPT ![t] = r]
Goto(t, step) == Set(t, [th[t] EXCEPT !.pc = step])

Idle == [pc |-> "idle", op |-> "none", at |-> None, seen |-> Gone,
         token |-> [version |-> 0, pwd |-> 0], pwd |-> 0, code |-> NoCode]
Over(t) == Set(t, Idle)

FreeUsers == Users \ ({cached} \cup {th[t].at : t \in Threads})
NewUser == CHOOSE u \in FreeUsers : TRUE

\* validateUser and validateNewAuthUserToken.
MayAct(role) == role \in {"user", "admin"}

\* The account has an address or none; its owner may have logged in before, and codes may
\* have been mailed: to retrieve the password, and to bind every address.
Init ==
    /\ row \in {[pwd |-> 0, role |-> r, mail |-> m] : r \in {"user", "pending"}, m \in Addresses}
    /\ cached = None
    /\ user = [u \in Users |-> [version |-> 0, pwd |-> 0, role |-> "user", mail |-> None]]
    /\ tokens = IF row.role = "user" THEN {[version |-> 0, pwd |-> 0]} ELSE {}
    /\ box = [key \in Keys |-> IF key[1] = "retrieve" /\ key[2] # row.mail THEN 0 ELSE 1]
    /\ mailed = {Code(key[1], key[2], 1) : key \in {k \in Keys : box[k] = 1}}
    /\ spent = {}
    /\ th = [t \in Threads |-> Idle]
    /\ ops = 0
    /\ outdated = {}
    /\ crossed = {}

-----------------------------------------------------------------------------
(* Loading the user *)

\* What a thread does once it has the user.
Begins(o) ==
    CASE o = "login" -> "verify"
      [] o = "retrieve" -> "code"
      [] o = "askRetrieve" -> "send"
      [] o \in ByToken -> "validate"
      [] OTHER -> "allowed"

\* A user object is being given a new password.
Rekeying(u) == \E t \in Threads : th[t].pc = "hash" /\ th[t].at = u

\* History: a login has got a user whose password is being changed.
Crosses(t, u) == IF Rekeying(u) THEN crossed \cup {t} ELSE crossed \ {t}

\* A request: with a name and a password, with a token, with a code, or by an
\* administrator.  A password that is set has the number of its operation.
Start(t, o, token, pwd, code) ==
    /\ At(t, "idle")
    /\ ops < MaxOps
    /\ ops' = ops + 1
    /\ Set(t, [Idle EXCEPT !.op = o, !.pc = IF o \in ByName THEN "query" ELSE "load",
                           !.token = token, !.code = code,
                           !.pwd = IF o \in SetsPassword THEN ops' ELSE pwd])
    /\ UNCHANGED <<row, cached, user, tokens, outdated, crossed, mailVars>>

\* LoadOrInitUserByID finds the user in the cache.
LoadHit(t) ==
    /\ At(t, "load")
    /\ cached # None
    /\ Set(t, [th[t] EXCEPT !.pc = Begins(th[t].op), !.at = cached])
    /\ UNCHANGED <<row, cached, user, tokens, ops, outdated, crossed, mailVars>>

\* Mutant: the account is not found, and its user stored all the same.
QueryUnchecked(t) ==
    /\ At(t, "query") \/ (At(t, "load") /\ cached = None)
    /\ Set(t, [th[t] EXCEPT !.pc = "store", !.seen = row])
    /\ UNCHANGED <<row, cached, user, tokens, ops, outdated, crossed, mailVars>>

\* Operations that look the account up by an address.
ByMail == {"retrieve", "askRetrieve"}

\* Otherwise, and always by name or e-mail, the account is read from the database.
Query(t) ==
    /\ At(t, "query") \/ (At(t, "load") /\ cached = None)
    /\ IF row = Gone \/ (th[t].op \in ByMail /\ row.mail # th[t].code.mail)
       THEN Over(t) ELSE Set(t, [th[t] EXCEPT !.pc = "store", !.seen = row])
    /\ UNCHANGED <<row, cached, user, tokens, ops, outdated, crossed, mailVars>>

\* LoadOrInitUser.
Store(t) ==
    /\ At(t, "store")
    /\ \/ /\ cached # None
          /\ Set(t, [th[t] EXCEPT !.pc = Begins(th[t].op), !.at = cached, !.seen = Gone])
          /\ crossed' = Crosses(t, cached)
          /\ UNCHANGED <<cached, user, outdated>>
       \/ /\ cached = None /\ FreeUsers # {}
          /\ Set(t, [th[t] EXCEPT !.pc = Begins(th[t].op), !.at = NewUser, !.seen = Gone])
          /\ cached' = NewUser
          /\ user' = [user EXCEPT ![NewUser] = [version |-> th[t].seen.pwd,
                                                pwd |-> th[t].seen.pwd,
                                                role |-> th[t].seen.role,
                                                mail |-> th[t].seen.mail]]
          /\ outdated' = IF th[t].seen = row THEN outdated \ {NewUser}
                                             ELSE outdated \cup {NewUser}
          /\ crossed' = crossed \ {t}
    /\ UNCHANGED <<row, tokens, ops, mailVars>>

-----------------------------------------------------------------------------
(* Tokens *)

\* Mutant: any password will do.
VerifyNothing(t) ==
    /\ At(t, "verify")
    /\ Goto(t, "issue")
    /\ UNCHANGED <<row, cached, user, tokens, ops, outdated, crossed, mailVars>>

\* LoginUser: CheckPassword.
Verify(t) ==
    /\ At(t, "verify")
    /\ IF user[th[t].at].pwd = th[t].pwd THEN Goto(t, "issue") ELSE Over(t)
    /\ UNCHANGED <<row, cached, user, tokens, ops, outdated, crossed, mailVars>>

\* NewAuthUserToken.
Issue(t) ==
    /\ At(t, "issue")
    /\ LET u == user[th[t].at]
           token == [version |-> u.version, pwd |-> th[t].pwd]
       IN IF MayAct(u.role)
          THEN /\ tokens' = tokens \cup {token}
               /\ crossed' = (crossed \ {t})
                      \cup (IF t \in crossed \/ th[t].at \in outdated THEN {token} ELSE {})
          ELSE UNCHANGED <<tokens, crossed>>
    /\ Over(t)
    /\ UNCHANGED <<row, cached, user, ops, outdated, mailVars>>

\* Mutant: a token is good for ever.
CheckVersionNot(t) ==
    /\ At(t, "validate")
    /\ Goto(t, "vet")
    /\ UNCHANGED <<row, cached, user, tokens, ops, outdated, crossed, mailVars>>

\* authenticateUser: the token has the version of the user.
CheckVersion(t) ==
    /\ At(t, "validate")
    /\ IF user[th[t].at].version = th[t].token.version THEN Goto(t, "vet") ELSE Over(t)
    /\ UNCHANGED <<row, cached, user, tokens, ops, outdated, crossed, mailVars>>

\* Then the user is neither banned nor pending.
CheckRole(t) ==
    /\ At(t, "vet")
    /\ IF MayAct(user[th[t].at].role) THEN Goto(t, "allowed") ELSE Over(t)
    /\ UNCHANGED <<row, cached, user, tokens, ops, outdated, crossed, mailVars>>

-----------------------------------------------------------------------------
(* SetPassword *)

\* Threads that are changing the password of the user.
Changers(u) == {t \in Threads : th[t].pc \in {"hash", "save"} /\ th[t].at = u}

\* Logins of the user under way.
LoggingIn(u) == {t \in Threads : th[t].pc \in {"verify", "issue"} /\ th[t].at = u}

\* The version is set first.  History: logins under way, and another change of the password
\* under way.
Version(t) ==
    /\ At(t, "allowed")
    /\ th[t].op \in SetsPassword
    /\ user' = [user EXCEPT ![th[t].at].version = th[t].pwd]
    /\ Goto(t, "hash")
    /\ crossed' = crossed \cup LoggingIn(th[t].at)
    /\ outdated' = IF Changers(th[t].at) = {} THEN outdated ELSE outdated \cup {th[t].at}
    /\ UNCHANGED <<row, cached, tokens, ops, mailVars>>

Hash(t) ==
    /\ At(t, "hash")
    /\ user' = [user EXCEPT ![th[t].at].pwd = th[t].pwd]
    /\ Goto(t, "save")
    /\ UNCHANGED <<row, cached, tokens, ops, outdated, crossed, mailVars>>

\* The object in the cache, if it is not the one a thread has changed.
Other(t) == {cached} \ {None, th[t].at}

\* db.SetUserHashedPassword, which may fail; a token follows unless an administrator has
\* set the password.  History: the user has a password the account has not; another
\* object has missed the change.
Save(t) ==
    /\ At(t, "save")
    /\ \/ /\ row # Gone
          /\ row' = [row EXCEPT !.pwd = th[t].pwd]
          /\ outdated' = outdated \cup Other(t)
          /\ IF th[t].op = "adminPassword" THEN Over(t) ELSE Goto(t, "issue")
       \/ /\ outdated' = outdated \cup {th[t].at}
          /\ Over(t)
          /\ UNCHANGED row
    /\ UNCHANGED <<cached, user, tokens, ops, crossed, mailVars>>

-----------------------------------------------------------------------------
(* E-mail *)

\* SendUserRetrievePasswordEmailCaptcha: the code goes to the address of the user object.
AskRetrieve(t) ==
    /\ At(t, "send")
    /\ LET mail == user[th[t].at].mail
       IN IF mail = None THEN UNCHANGED mailVars ELSE SendCode("retrieve", mail)
    /\ Over(t)
    /\ UNCHANGED <<row, cached, user, tokens, ops, outdated, crossed>>

\* SendUserBindEmailCaptcha: not for the present address, nor for one an account has.
AskBind(t) ==
    /\ At(t, "allowed")
    /\ th[t].op = "askBind"
    /\ LET mail == th[t].code.mail
       IN IF mail \in {user[th[t].at].mail, row.mail}
          THEN UNCHANGED mailVars ELSE SendCode("bind", mail)
    /\ Over(t)
    /\ UNCHANGED <<row, cached, user, tokens, ops, outdated, crossed>>

\* Mutant: the address of the user is not looked at.
CheckMailNot(t) ==
    /\ At(t, "code")
    /\ Goto(t, "redeem")
    /\ UNCHANGED <<row, cached, user, tokens, ops, outdated, crossed, mailVars>>

\* VerifyRetrievePasswordCaptchaEmail: the address is the user's.
CheckMail(t) ==
    /\ At(t, "code")
    /\ IF user[th[t].at].mail = th[t].code.mail THEN Goto(t, "redeem") ELSE Over(t)
    /\ UNCHANGED <<row, cached, user, tokens, ops, outdated, crossed, mailVars>>

\* Then the code of that address is consumed if it fits; the address may be another by now.
CheckCode(t) ==
    /\ At(t, "redeem")
    /\ \/ Accept(th[t].code) /\ Goto(t, "allowed")
       \/ Refuse(th[t].code) /\ Over(t)
    /\ UNCHANGED <<row, cached, user, tokens, ops, outdated, crossed>>

\* UserBindEmail: VerifyBindCaptchaEmail.
CheckBind(t) ==
    /\ At(t, "allowed")
    /\ th[t].op = "bind"
    /\ \/ Accept(th[t].code) /\ Goto(t, "write")
       \/ Refuse(th[t].code) /\ Over(t)
    /\ UNCHANGED <<row, cached, user, tokens, ops, outdated, crossed>>

\* The address that is bound, or none.
NewMail(t) == IF th[t].op = "bind" THEN th[t].code.mail ELSE None

\* Threads that have written an address and not told the user object yet.
Movers == {t \in Threads : th[t].pc = "mail"}

\* db.BindEmail and db.UnbindEmail, which may fail; the account was not registered by
\* e-mail, so that it may be without.  History: two changes of the address cross.
WriteMail(t) ==
    /\ At(t, "write") \/ (At(t, "allowed") /\ th[t].op = "unbind")
    /\ \/ /\ row # Gone
          /\ row' = [row EXCEPT !.mail = NewMail(t)]
          /\ outdated' = outdated \cup {th[s].at : s \in Movers}
          /\ Goto(t, "mail")
       \/ Over(t) /\ UNCHANGED <<row, outdated>>
    /\ UNCHANGED <<cached, user, tokens, ops, crossed, mailVars>>

\* u.Email = e.  History: another object has missed the change.
SetMail(t) ==
    /\ At(t, "mail")
    /\ user' = [user EXCEPT ![th[t].at].mail = NewMail(t)]
    /\ outdated' = outdated \cup Other(t)
    /\ Over(t)
    /\ UNCHANGED <<row, cached, tokens, ops, crossed, mailVars>>

-----------------------------------------------------------------------------
(* Roles and deletion *)

\* The handlers of admin.go and root.go: only pending users are approved and banned ones
\* unbanned, an admin is not made one again.
Applies(o, role) ==
    CASE o = "approve" -> role = "pending"
      [] o = "unban" -> role = "banned"
      [] o = "addAdmin" -> role # "admin"
      [] OTHER -> TRUE

RoleOf(o) == CASE o = "ban" -> "banned" [] o = "addAdmin" -> "admin" [] OTHER -> "user"

\* Threads that have written a role and not told the user object yet.
Promoters == {t \in Threads : th[t].pc = "role"}

\* db.SetUserRoleByID and the like, which may fail.  History: two changes of the role
\* cross.
WriteRole(t) ==
    /\ At(t, "allowed")
    /\ th[t].op \in SetsRole
    /\ \/ /\ Applies(th[t].op, user[th[t].at].role) /\ row # Gone
          /\ row' = [row EXCEPT !.role = RoleOf(th[t].op)]
          /\ outdated' = outdated \cup {th[s].at : s \in Promoters}
          /\ Goto(t, "role")
       \/ Over(t) /\ UNCHANGED <<row, outdated>>
    /\ UNCHANGED <<cached, user, tokens, ops, crossed, mailVars>>

\* Mutant: the user object is not told.
SetRoleNot(t) ==
    /\ At(t, "role")
    /\ Over(t)
    /\ UNCHANGED <<row, cached, user, tokens, ops, outdated, crossed, mailVars>>

\* u.Role = role.  History: another object has missed the change.
SetRole(t) ==
    /\ At(t, "role")
    /\ user' = [user EXCEPT ![th[t].at].role = RoleOf(th[t].op)]
    /\ outdated' = outdated \cup Other(t)
    /\ Over(t)
    /\ UNCHANGED <<row, cached, tokens, ops, crossed, mailVars>>

\* db.DeleteUserByID, an error if there is no such account.
Delete(t) ==
    /\ At(t, "allowed")
    /\ th[t].op \in {"logout", "delete"}
    /\ row' = Gone
    /\ IF row = Gone THEN Over(t) ELSE Goto(t, "evict")
    /\ UNCHANGED <<cached, user, tokens, ops, outdated, crossed, mailVars>>

\* userCache.Delete, or CompareAndDelete of the user who logs out.
Evict(t) ==
    /\ At(t, "evict")
    /\ cached' = IF th[t].op = "delete" \/ cached = th[t].at THEN None ELSE cached
    /\ Over(t)
    /\ UNCHANGED <<row, user, tokens, ops, outdated, crossed, mailVars>>

\* The entry expires.  A request that has loaded the user by id has refreshed it and is
\* over before; one that has loaded it by name need not be.
Expire ==
    /\ cached # None
    /\ \A t \in Threads : th[t].op \in ByName \/ th[t].at # cached
    /\ cached' = None
    /\ UNCHANGED <<row, user, tokens, th, ops, outdated, crossed, mailVars>>

-----------------------------------------------------------------------------
Step(t) ==
    \/ LoadHit(t) \/ Query(t) \/ Store(t)
    \/ Verify(t) \/ Issue(t) \/ CheckVersion(t) \/ CheckRole(t)
    \/ Version(t) \/ Hash(t) \/ Save(t)
    \/ AskRetrieve(t) \/ AskBind(t) \/ CheckMail(t) \/ CheckCode(t) \/ CheckBind(t)
    \/ WriteMail(t) \/ SetMail(t)
    \/ WriteRole(t) \/ SetRole(t)
    \/ Delete(t) \/ Evict(t)

NoToken == Idle.token

\* What a request comes with: a token, a password, a code that was mailed or an address.
AddressOnly(mail) == Code("none", mail, 0)
Credentials(o) ==
    CASE o = "login" -> {NoToken} \X Passwords \X {NoCode}
      [] o = "askRetrieve" -> {NoToken} \X {0} \X {AddressOnly(m) : m \in Mails}
      [] o = "retrieve" -> {NoToken} \X {0} \X {c \in mailed : c.use = "retrieve"}
      [] o = "askBind" -> tokens \X {0} \X {AddressOnly(m) : m \in Mails}
      [] o = "bind" -> tokens \X {0} \X {c \in mailed : c.use = "bind"}
      [] o \in {"setPassword", "logout", "unbind"} -> tokens \X {0} \X {NoCode}
      [] OTHER -> {<<NoToken, 0, NoCode>>}

\* No more operations are allowed.
Finished == ops = MaxOps /\ (\A t \in Threads : At(t, "idle")) /\ UNCHANGED vars

Next ==
    \/ \E t \in Threads :
         Step(t) \/ \E o \in Ops : \E cred \in Credentials(o) :
                                           Start(t, o, cred[1], cred[2], cred[3])
    \/ Expire
    \/ Finished

Spec == Init /\ [][Next]_vars

-----------------------------------------------------------------------------
Steps == {"idle", "query", "load", "store", "verify", "issue", "validate", "vet",
          "allowed", "hash", "save", "send", "code", "redeem", "write", "mail", "role", "evict"}
Codes == [use : {"retrieve", "bind", "none"}, mail : Addresses, nr : 0..MaxOps + 1]

TypeOK ==
    /\ row \in Row \cup {Gone}
    /\ cached \in Users \cup {None}
    /\ user \in [Users -> User]
    /\ tokens \subseteq Token
    /\ th \in [Threads -> [pc : Steps, op : Ops \cup {"none"}, at : Users \cup {None},
                           seen : Row \cup {Gone}, token : Token, pwd : Passwords,
                           code : Codes]]
    /\ \A t \in Threads :
         /\ At(t, "store") => th[t].seen # Gone
         /\ th[t].pc \in {"verify", "issue", "allowed", "hash", "save"} => th[t].at # None
    /\ ops \in 0..MaxOps
    /\ outdated \subseteq Users
    /\ crossed \subseteq Threads \cup Token
    /\ box \in [Keys -> 0..MaxOps + 1]
    /\ mailed \subseteq Codes /\ spent \subseteq mailed

\* The user in the cache has the role and the password of the account, and the
\* version of that password, and a deleted account has no user.  The exceptions: a change
\* is under way; a load stored what it had read before a change; the change was made to a
\* user object that had left the cache; a password change failed in the database or two
\* changes crossed (users.go:25-47, 109-172, user.go:68-91, 281-345).
CacheTellsTruth ==
    cached # None =>
        LET u == user[cached]
        IN \/ u = [version |-> row.pwd, pwd |-> row.pwd, role |-> row.role, mail |-> row.mail]
           \/ \E t \in Threads : th[t].pc \in {"role", "hash", "save", "mail", "evict"}
           \/ cached \in outdated

\* A token has the version of the password its owner knew: nobody who knows
\* an old password only gets a token of the new version, unless the login and
\* the password change ran at the same time, or two changes crossed
\* (user.go:72-91, handlers/user.go:84-96, auth.go:245-266).
TokenMatchesPassword ==
    \A token \in tokens : token.version = token.pwd \/ token \in crossed

\* A token passes only while it is of the account's password, and its request is let in
\* only while the account exists and is neither banned nor pending, whoever changes it
\* meanwhile.  The exceptions are those of CacheTellsTruth and TokenMatchesPassword, and a
\* user object that has just left the cache (auth.go:90-139).
LetsInOnlyOwners ==
    [][\A t \in Threads :
          /\ At(t, "validate") /\ th'[t].pc = "vet"
             => \/ row.pwd = th[t].token.pwd \/ th[t].token \in crossed
                \/ \E s \in Threads : th[s].pc \in {"hash", "save", "evict"}
                \/ th[t].at \in outdated \/ th[t].at # cached
          /\ At(t, "vet") /\ th'[t].pc = "allowed"
             => \/ MayAct(row.role)
                \/ \E s \in Threads : th[s].pc \in {"role", "evict"}
                \/ th[t].at \in outdated \/ th[t].at # cached]_vars

\* A mailed code is accepted once, however many requests come with it, whenever it is mailed
\* again; and the code of a request that resets the password is looked at only if the
\* account had the address it was mailed to when that request compared them, even if the
\* address changed after the request looked the account up.  The exceptions are those of
\* CacheTellsTruth (handlers/user.go:801-813, user.go:561-566, email.go:368-393).
CodesWorkOnce ==
    [][\A t \in Threads :
          /\ \/ At(t, "redeem") /\ th'[t].pc = "allowed"
             \/ At(t, "allowed") /\ th'[t].pc = "write"
             => th[t].code \notin spent
          /\ At(t, "code") /\ th'[t].pc = "redeem"
             => \/ row.mail = th[t].code.mail
                \/ \E s \in Threads : th[s].pc \in {"mail", "evict"}
                \/ th[t].at \in outdated \/ th[t].at # cached]_vars
===============================================================================
