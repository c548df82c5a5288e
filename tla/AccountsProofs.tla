---------------------------- MODULE AccountsProofs ----------------------------
(* Theorems about Accounts, for any number of requests, user objects and addresses. *)
EXTENDS Accounts, FiniteSetTheorems, TLAPS

\* What a thread may be.
Tasks == [pc : Steps, op : Ops \cup {"none"}, at : Users \cup {None}, seen : Row \cup {Gone},
          token : Token, pwd : Passwords, code : Codes]

\* A step that works on a user object has one, and belongs to the operation.
Suits(r) ==
    /\ r.pc \notin {"idle", "query", "load", "store"} => r.at \in Users
    /\ r.pc = "idle" => r.at = None /\ r.op = "none"
    /\ r.pc = "load" => r.op \notin ByName
    /\ r.pc = "store" => r.seen # Gone
    /\ r.pc = "verify" => r.op = "login"
    /\ r.pc = "send" => r.op = "askRetrieve"
    /\ r.pc \in {"code", "redeem"} => r.op = "retrieve"
    /\ r.pc \in {"validate", "vet"} => r.op \in ByToken
    /\ r.pc \in {"hash", "save"} => r.op \in SetsPassword
    /\ r.pc = "write" => r.op = "bind"
    /\ r.pc = "mail" => r.op \in {"bind", "unbind"}
    /\ r.pc = "role" => r.op \in SetsRole
    /\ r.pc = "evict" => r.op \in {"logout", "delete"}

ThreadsInv == th = [t \in Threads |-> th[t]] /\ \A t \in Threads : th[t] \in Tasks /\ Suits(th[t])

StateTypes ==
    /\ row \in Row \cup {Gone}
    /\ cached \in Users \cup {None}
    /\ user \in [Users -> User]
    /\ tokens \subseteq Token
    /\ ops \in 0..MaxOps
    /\ outdated \subseteq Users
    /\ crossed \subseteq Threads \cup Token

TypeInv == StateTypes /\ ThreadsInv

\* Requests under way.
Active == {t \in Threads : ~At(t, "idle")}

\* Who comes with a code has got it by mail, who asks for one has an address.
Brings(r) ==
    /\ r.op \in {"retrieve", "bind"} => r.code \in mailed
    /\ r.op = "askBind" => r.code.mail \in Mails

\* Every operation mails one code at most, and the numbers of a key's codes are used up one by
\* one; a code that was accepted is not kept.
MailInv ==
    /\ box \in [Keys -> Nat]
    /\ spent \subseteq mailed
    /\ \A c \in mailed : /\ KeyOf(c) \in Keys /\ c = Code(c.use, c.mail, c.nr)
                         /\ c.nr \in 1..Cardinality(Issued(KeyOf(c)))
    /\ IsFiniteSet(Active)
    /\ \A key \in Keys : /\ IsFiniteSet(Issued(key))
                         /\ box[key] <= Cardinality(Issued(key)) + 1
                         /\ box[key] + Cardinality(Active) <= ops + 1
                         /\ Cardinality(Issued(key)) + Cardinality(Active) <= ops + 1
    /\ \A c \in spent : box[KeyOf(c)] # c.nr
    /\ \A t \in Threads : Brings(th[t])

-----------------------------------------------------------------------------
LEMMA Constants ==
    /\ None \notin Users /\ None \notin Mails /\ Threads \cap Token = {} /\ MaxOps \in Nat
    /\ 0 \in Passwords /\ NoToken \in Token /\ NoCode \in Codes /\ Gone \notin Row
    /\ \A m \in Mails : AddressOnly(m) \in Codes
BY AccountsAssumption, TokenAssumption
   DEF NoToken, Idle, Token, Passwords, NoCode, Code, Codes, Addresses, AddressOnly, Gone, Row,
          Roles

LEMMA IdleIs ==
    /\ Idle.pc = "idle" /\ Idle.op = "none" /\ Idle.at = None
    /\ Idle \in Tasks /\ Suits(Idle)
BY Constants DEF Idle, NoToken, Tasks, Suits, Steps, Gone

LEMMA SetIs ==
    ASSUME ThreadsInv, NEW t \in Threads, NEW r, Set(t, r)
    PROVE  th'[t] = r /\ \A s \in Threads \ {t} : th'[s] = th[s]
BY DEF ThreadsInv, Set

LEMMA OverIs ==
    ASSUME ThreadsInv, NEW t \in Threads, Over(t)
    PROVE  th'[t] = Idle /\ \A s \in Threads \ {t} : th'[s] = th[s]
BY SetIs DEF Over

LEMMA GotoIs ==
    ASSUME ThreadsInv, NEW t \in Threads, NEW l, Goto(t, l)
    PROVE  /\ th'[t].pc = l /\ th'[t].op = th[t].op /\ th'[t].at = th[t].at
           /\ th'[t].seen = th[t].seen /\ th'[t].token = th[t].token
           /\ th'[t].pwd = th[t].pwd /\ th'[t].code = th[t].code
           /\ \A s \in Threads \ {t} : th'[s] = th[s]
<1>1. th[t] \in Tasks
  BY DEF ThreadsInv
<1>2. th'[t] = [th[t] EXCEPT !.pc = l] /\ \A s \in Threads \ {t} : th'[s] = th[s]
  BY SetIs DEF Goto
<1> QED
  BY <1>1, <1>2 DEF Tasks

LEMMA BeginsIs ==
    ASSUME NEW o
    PROVE  /\ Begins(o) \in {"verify", "code", "send", "validate", "allowed"}
           /\ Begins(o) = "verify" => o = "login"
           /\ Begins(o) = "code" => o = "retrieve"
           /\ Begins(o) = "send" => o = "askRetrieve"
           /\ Begins(o) = "validate" => o \in ByToken
BY DEF Begins, ByToken

\* One thread goes on.
LEMMA SetThreads ==
    ASSUME ThreadsInv, NEW t \in Threads, NEW r, r \in Tasks, Suits(r), Set(t, r)
    PROVE  ThreadsInv'
BY DEF ThreadsInv, Set, Suits

LEMMA OverThreads ==
    ASSUME ThreadsInv, NEW t \in Threads, Over(t)
    PROVE  ThreadsInv'
BY IdleIs, SetThreads DEF Over

LEMMA GotoThreads ==
    ASSUME ThreadsInv, NEW t \in Threads, NEW l \in Steps, Goto(t, l),
           Suits([th[t] EXCEPT !.pc = l])
    PROVE  ThreadsInv'
<1>1. [th[t] EXCEPT !.pc = l] \in Tasks
  BY DEF ThreadsInv, Tasks
<1> QED
  BY <1>1, SetThreads DEF Goto

\* A step that keeps its user object, and suits the operation.
LEMMA GotoSuits ==
    ASSUME ThreadsInv, NEW t \in Threads, th[t].at \in Users,
           NEW l \in {"issue", "vet", "allowed", "redeem", "hash", "save", "write", "mail", "role",
                     "evict"},
           l = "vet" => th[t].op \in ByToken, l = "redeem" => th[t].op = "retrieve",
           l \in {"hash", "save"} => th[t].op \in SetsPassword,
           l = "write" => th[t].op = "bind", l = "mail" => th[t].op \in {"bind", "unbind"},
           l = "role" => th[t].op \in SetsRole, l = "evict" => th[t].op \in {"logout", "delete"},
           Goto(t, l)
    PROVE  ThreadsInv'
<1>1. th[t] \in Tasks
  BY DEF ThreadsInv
<1>2. Suits([th[t] EXCEPT !.pc = l])
  BY <1>1 DEF Tasks, Suits
<1> QED
  BY <1>2, GotoThreads DEF Steps

LEMMA NewUserIs == FreeUsers # {} => NewUser \in FreeUsers /\ NewUser \in Users
BY DEF NewUser, FreeUsers

-----------------------------------------------------------------------------
\* What each step does with its thread.
Goes(t) ==
    /\ th[t].pc # "idle" /\ ops' = ops
    /\ \A s \in Threads \ {t} : th'[s] = th[s]
    /\ \/ th'[t] = Idle
       \/ /\ th'[t].pc # "idle" /\ th'[t].op = th[t].op /\ th'[t].code = th[t].code
          /\ th'[t].token = th[t].token /\ th'[t].pwd = th[t].pwd

LEMMA GoesOver ==
    ASSUME ThreadsInv, NEW t \in Threads, Over(t), th[t].pc # "idle", ops' = ops
    PROVE  Goes(t)
BY OverIs DEF Goes

LEMMA GoesOn ==
    ASSUME ThreadsInv, NEW t \in Threads, NEW l, Goto(t, l), l # "idle", th[t].pc # "idle", ops' = ops
    PROVE  Goes(t)
BY GotoIs DEF Goes

LEMMA LoadTypes ==
    ASSUME TypeInv, NEW t \in Threads, LoadHit(t) \/ Query(t) \/ Store(t)
    PROVE  TypeInv' /\ Goes(t)
<1>0. ThreadsInv /\ th[t] \in Tasks /\ Suits(th[t])
  BY DEF TypeInv, ThreadsInv
<1>1. CASE LoadHit(t)
  <2>1. /\ cached \in Users
        /\ th[t].pc = "load" /\ Set(t, [th[t] EXCEPT !.pc = Begins(th[t].op), !.at = cached])
        /\ UNCHANGED <<row, cached, user, tokens, ops, outdated, crossed>>
    BY <1>1 DEF LoadHit, At, TypeInv, StateTypes
  <2>2. /\ [th[t] EXCEPT !.pc = Begins(th[t].op), !.at = cached] \in Tasks
        /\ Suits([th[t] EXCEPT !.pc = Begins(th[t].op), !.at = cached])
    BY <1>0, <2>1, BeginsIs DEF Tasks, Suits, Steps
  <2>3. ThreadsInv'
    BY <1>0, <2>1, <2>2, SetThreads
  <2>4. /\ th'[t] = [th[t] EXCEPT !.pc = Begins(th[t].op), !.at = cached]
        /\ \A s \in Threads \ {t} : th'[s] = th[s]
    BY <1>0, <2>1, SetIs
  <2>5. Goes(t)
    BY <1>0, <2>1, <2>4, BeginsIs DEF Goes, Tasks
  <2> QED
    BY <2>1, <2>3, <2>5 DEF TypeInv, StateTypes
<1>2. CASE Query(t)
  <2>0. /\ th[t].pc \in {"query", "load"}
        /\ UNCHANGED <<row, cached, user, tokens, ops, outdated, crossed>>
    BY <1>2 DEF Query, At
  <2>1. CASE Over(t)
    BY <1>0, <2>0, <2>1, OverThreads, GoesOver DEF TypeInv, StateTypes
  <2>2. CASE row # Gone /\ Set(t, [th[t] EXCEPT !.pc = "store", !.seen = row])
    <3>1. row \in Row \cup {Gone}
      BY DEF TypeInv, StateTypes
    <3>2. /\ [th[t] EXCEPT !.pc = "store", !.seen = row] \in Tasks
          /\ Suits([th[t] EXCEPT !.pc = "store", !.seen = row])
      BY <1>0, <2>2, <3>1 DEF Tasks, Suits, Steps
    <3>3. ThreadsInv'
      BY <1>0, <2>2, <3>2, SetThreads
    <3>4. /\ th'[t] = [th[t] EXCEPT !.pc = "store", !.seen = row]
          /\ \A s \in Threads \ {t} : th'[s] = th[s]
      BY <1>0, <2>2, SetIs
    <3>5. Goes(t)
      BY <1>0, <2>0, <3>4 DEF Goes, Tasks
    <3> QED
      BY <2>0, <3>3, <3>5 DEF TypeInv, StateTypes
  <2> QED
    BY <1>2, <2>1, <2>2 DEF Query
<1>3. CASE Store(t)
  <2>0. /\ th[t].pc = "store" /\ UNCHANGED <<row, tokens, ops>> /\ th[t].seen \in Row
    BY <1>0, <1>3 DEF Store, At, Tasks, Suits
  <2>1. PICK u \in Users :
          /\ Set(t, [th[t] EXCEPT !.pc = Begins(th[t].op), !.at = u, !.seen = Gone])
          /\ cached' = u
    BY <1>3, NewUserIs DEF Store, TypeInv, StateTypes
  <2>2. /\ [th[t] EXCEPT !.pc = Begins(th[t].op), !.at = u, !.seen = Gone] \in Tasks
        /\ Suits([th[t] EXCEPT !.pc = Begins(th[t].op), !.at = u, !.seen = Gone])
    BY <1>0, BeginsIs DEF Tasks, Suits, Steps
  <2>3. ThreadsInv'
    BY <1>0, <2>1, <2>2, SetThreads
  <2>4. /\ th'[t] = [th[t] EXCEPT !.pc = Begins(th[t].op), !.at = u, !.seen = Gone]
        /\ \A s \in Threads \ {t} : th'[s] = th[s]
    BY <1>0, <2>1, SetIs
  <2>5. Goes(t)
    BY <1>0, <2>0, <2>4, BeginsIs DEF Goes, Tasks
  <2>6. user' \in [Users -> User] /\ outdated' \subseteq Users
    <3>1. [version |-> th[t].seen.pwd, pwd |-> th[t].seen.pwd, role |-> th[t].seen.role,
           mail |-> th[t].seen.mail] \in User
      BY <2>0 DEF Row, User
    <3> QED
      BY <1>3, <3>1, NewUserIs DEF Store, TypeInv, StateTypes
  <2>7. crossed' \subseteq Threads \cup Token
    BY <1>3 DEF Store, Crosses, TypeInv, StateTypes
  <2> QED
    BY <2>0, <2>1, <2>3, <2>5, <2>6, <2>7 DEF TypeInv, StateTypes
<1> QED
  BY <1>1, <1>2, <1>3

\* Steps that leave the account, its user objects and their history alone.
LEMMA LookTypes ==
    ASSUME TypeInv, NEW t \in Threads,
           \/ Verify(t) \/ Issue(t) \/ CheckVersion(t) \/ CheckRole(t)
           \/ AskRetrieve(t) \/ AskBind(t) \/ CheckMail(t) \/ CheckCode(t) \/ CheckBind(t)
    PROVE  TypeInv' /\ Goes(t)
<1>0. ThreadsInv /\ th[t] \in Tasks /\ Suits(th[t])
  BY DEF TypeInv, ThreadsInv
<1>1. /\ th[t].pc \in {"verify", "issue", "validate", "vet", "send", "allowed", "code", "redeem"}
      /\ th[t].at \in Users /\ UNCHANGED <<row, cached, user, ops, outdated>>
  BY <1>0 DEF Suits, Verify, Issue, CheckVersion, CheckRole, AskRetrieve, AskBind, CheckMail,
              CheckCode, CheckBind, At
<1>2. \/ Over(t) \/ Goto(t, "issue") \/ Goto(t, "allowed")
      \/ (th[t].op \in ByToken /\ Goto(t, "vet"))
      \/ (th[t].op = "retrieve" /\ Goto(t, "redeem"))
      \/ (th[t].op = "bind" /\ Goto(t, "write"))
  BY <1>0 DEF Suits, Verify, Issue, CheckVersion, CheckRole, AskRetrieve, AskBind, CheckMail,
              CheckCode, CheckBind, At
<1>3. ThreadsInv'
  BY <1>0, <1>1, <1>2, OverThreads, GotoSuits
<1>4. Goes(t)
  BY <1>0, <1>1, <1>2, GoesOver, GoesOn
<1>5. tokens' \subseteq Token /\ crossed' \subseteq Threads \cup Token
  <2>1. CASE Issue(t)
    <3>1. [version |-> user[th[t].at].version, pwd |-> th[t].pwd] \in Token
      BY <1>0, <1>1 DEF Tasks, Token, User, TypeInv, StateTypes
    <3> QED
      BY <2>1, <3>1 DEF Issue, TypeInv, StateTypes
  <2>2. CASE ~Issue(t)
    <3>1. UNCHANGED <<tokens, crossed>>
      BY <2>2 DEF Verify, CheckVersion, CheckRole, AskRetrieve, AskBind, CheckMail, CheckCode,
             CheckBind
    <3> QED
      BY <3>1 DEF TypeInv, StateTypes
  <2> QED
    BY <2>1, <2>2
<1> QED
  BY <1>1, <1>3, <1>4, <1>5 DEF TypeInv, StateTypes

LEMMA PasswordTypes ==
    ASSUME TypeInv, NEW t \in Threads, Version(t) \/ Hash(t) \/ Save(t)
    PROVE  TypeInv' /\ Goes(t)
<1>0. ThreadsInv /\ th[t] \in Tasks /\ Suits(th[t])
  BY DEF TypeInv, ThreadsInv
<1>1. /\ th[t].pc \in {"allowed", "hash", "save"} /\ th[t].at \in Users
      /\ th[t].op \in SetsPassword /\ UNCHANGED <<cached, tokens, ops>>
  BY <1>0 DEF Suits, Version, Hash, Save, At
<1>2. Over(t) \/ \E l \in {"hash", "save", "issue"} : Goto(t, l)
  BY DEF Version, Hash, Save
<1>3. ThreadsInv'
  BY <1>0, <1>1, <1>2, OverThreads, GotoSuits
<1>4. Goes(t)
  BY <1>0, <1>1, <1>2, GoesOver, GoesOn
<1>5. user' \in [Users -> User]
  BY <1>0, <1>1 DEF Version, Hash, Save, Tasks, User, TypeInv, StateTypes
<1>6. row' \in Row \cup {Gone}
  <2>1. CASE row # Gone /\ row' = [row EXCEPT !.pwd = th[t].pwd]
    BY <1>0, <2>1 DEF Tasks, Row, TypeInv, StateTypes
  <2> QED
    BY <2>1 DEF Version, Hash, Save, TypeInv, StateTypes
<1>7. outdated' \subseteq Users /\ crossed' \subseteq Threads \cup Token
  BY <1>1 DEF Version, Hash, Save, Other, LoggingIn, TypeInv, StateTypes
<1> QED
  BY <1>1, <1>3, <1>4, <1>5, <1>6, <1>7 DEF TypeInv, StateTypes

LEMMA FieldTypes ==
    ASSUME TypeInv, NEW t \in Threads, WriteMail(t) \/ SetMail(t) \/ WriteRole(t) \/ SetRole(t)
    PROVE  TypeInv' /\ Goes(t)
<1>0. ThreadsInv /\ th[t] \in Tasks /\ Suits(th[t])
  BY DEF TypeInv, ThreadsInv
<1>1. /\ th[t].pc \in {"allowed", "write", "mail", "role"} /\ th[t].at \in Users
      /\ UNCHANGED <<cached, tokens, ops, crossed>>
  BY <1>0 DEF Suits, WriteMail, SetMail, WriteRole, SetRole, At
<1>2. \/ Over(t)
      \/ (th[t].op \in {"bind", "unbind"} /\ Goto(t, "mail"))
      \/ (th[t].op \in SetsRole /\ Goto(t, "role"))
  <2>1. CASE WriteMail(t)
    BY <1>0, <2>1 DEF Suits, WriteMail, At
  <2> QED
    BY <2>1 DEF SetMail, WriteRole, SetRole
<1>3. ThreadsInv'
  BY <1>0, <1>1, <1>2, OverThreads, GotoSuits
<1>4. Goes(t)
  BY <1>0, <1>1, <1>2, GoesOver, GoesOn
<1>5. RoleOf(th[t].op) \in Roles /\ NewMail(t) \in Addresses
  BY <1>0, Constants DEF RoleOf, Roles, NewMail, Tasks, Codes, Addresses
<1>6. user' \in [Users -> User]
  BY <1>1, <1>5 DEF WriteMail, SetMail, WriteRole, SetRole, User, TypeInv, StateTypes
<1>7. row' \in Row \cup {Gone}
  <2>1. CASE row # Gone /\ row' = [row EXCEPT !.mail = NewMail(t)]
    BY <1>5, <2>1 DEF Row, TypeInv, StateTypes
  <2>2. CASE row # Gone /\ row' = [row EXCEPT !.role = RoleOf(th[t].op)]
    BY <1>5, <2>2 DEF Row, TypeInv, StateTypes
  <2> QED
    BY <2>1, <2>2 DEF WriteMail, SetMail, WriteRole, SetRole, TypeInv, StateTypes
<1>8. outdated' \subseteq Users
  <2>1. \A s \in Movers \cup Promoters : th[s].at \in Users
    BY DEF Movers, Promoters, TypeInv, ThreadsInv, Suits
  <2> QED
    BY <1>1, <2>1 DEF WriteMail, SetMail, WriteRole, SetRole, Other, TypeInv, StateTypes
<1> QED
  BY <1>1, <1>3, <1>4, <1>6, <1>7, <1>8 DEF TypeInv, StateTypes

LEMMA DeleteTypes ==
    ASSUME TypeInv, NEW t \in Threads, Delete(t) \/ Evict(t)
    PROVE  TypeInv' /\ Goes(t)
<1>0. ThreadsInv /\ th[t] \in Tasks /\ Suits(th[t])
  BY DEF TypeInv, ThreadsInv
<1>1. /\ th[t].pc \in {"allowed", "evict"} /\ th[t].at \in Users /\ th[t].op \in {"logout", "delete"}
      /\ UNCHANGED <<user, tokens, ops, outdated, crossed>>
  BY <1>0 DEF Suits, Delete, Evict, At
<1>2. Over(t) \/ Goto(t, "evict")
  BY DEF Delete, Evict
<1>3. ThreadsInv' /\ Goes(t)
  BY <1>0, <1>1, <1>2, OverThreads, GotoSuits, GoesOver, GoesOn
<1> QED
  BY <1>1, <1>3 DEF Delete, Evict, TypeInv, StateTypes

\* What a request may come with.
LEMMA CredentialTypes ==
    ASSUME TypeInv, mailed \subseteq Codes, NEW o \in Ops, NEW cred \in Credentials(o)
    PROVE  /\ cred[1] \in Token /\ cred[2] \in Passwords /\ cred[3] \in Codes
           /\ o \in ByToken => cred[1] \in tokens
           /\ o \in {"retrieve", "bind"} => cred[3] \in mailed
BY Constants DEF Credentials, TypeInv, StateTypes, ByToken

LEMMA StartTypes ==
    ASSUME TypeInv, mailed \subseteq Codes, NEW t \in Threads, NEW o \in Ops,
           NEW cred \in Credentials(o), Start(t, o, cred[1], cred[2], cred[3])
    PROVE  /\ TypeInv'
           /\ th[t].pc = "idle" /\ th'[t].pc \in {"query", "load"} /\ th'[t].at = None
           /\ th'[t].op = o /\ th'[t].token = cred[1] /\ th'[t].code = cred[3]
           /\ ops' = ops + 1 /\ \A s \in Threads \ {t} : th'[s] = th[s]
           /\ UNCHANGED <<row, cached, user, tokens, outdated, crossed, mailVars>>
<1> DEFINE r == [Idle EXCEPT !.op = o, !.pc = IF o \in ByName THEN "query" ELSE "load",
                             !.token = cred[1], !.code = cred[3],
                             !.pwd = IF o \in SetsPassword THEN ops' ELSE cred[2]]
<1>1. ops' = ops + 1 /\ ops' \in 0..MaxOps
  BY Constants DEF Start, TypeInv, StateTypes
<1>2. /\ cred[1] \in Token /\ cred[2] \in Passwords /\ cred[3] \in Codes
  BY CredentialTypes
<1>3. /\ r \in Tasks /\ r.pc \in {"query", "load"} /\ r.at = None /\ r.op = o
      /\ r.token = cred[1] /\ r.code = cred[3]
  BY <1>1, <1>2, IdleIs DEF Tasks, Steps, Passwords
<1>4. Suits(r)
  BY <1>3 DEF Suits
<1>5. Set(t, r)
  BY DEF Start
<1> HIDE DEF r
<1>6. ThreadsInv' /\ th'[t] = r /\ \A s \in Threads \ {t} : th'[s] = th[s]
  BY <1>3, <1>4, <1>5, SetThreads, SetIs DEF TypeInv
<1> QED
  BY <1>1, <1>3, <1>6 DEF Start, At, TypeInv, StateTypes

LEMMA ExpireTypes ==
    ASSUME TypeInv, Expire
    PROVE  TypeInv'
BY DEF Expire, TypeInv, StateTypes, ThreadsInv, Suits

-----------------------------------------------------------------------------
(* Codes sent by e-mail. *)

LEMMA ActiveFalls ==
    ASSUME IsFiniteSet(Active), NEW t \in Threads, Goes(t)
    PROVE  /\ IsFiniteSet(Active)' /\ Cardinality(Active)' \in Nat /\ Cardinality(Active) \in Nat
           /\ Cardinality(Active)' <= Cardinality(Active)
           /\ th'[t] = Idle => Cardinality(Active)' = Cardinality(Active) - 1
<1>1. t \in Active
  BY DEF Goes, Active, At
<1>2. CASE th'[t] = Idle
  <2>1. Active' = Active \ {t}
    BY <1>2, IdleIs DEF Goes, Active, At
  <2>2. IsFiniteSet(Active \ {t}) /\ Cardinality(Active \ {t}) = Cardinality(Active) - 1
    BY <1>1, FS_RemoveElement
  <2>3. Cardinality(Active \ {t}) \in Nat /\ Cardinality(Active) \in Nat
    BY <2>2, FS_CardinalityType
  <2> QED
    BY <2>1, <2>2, <2>3
<1>3. CASE th'[t] # Idle
  <2>1. \A s \in Threads : th'[s].pc # "idle" <=> th[s].pc # "idle"
    BY <1>3 DEF Goes
  <2>2. Active' = Active
    BY <2>1 DEF Active, At
  <2> QED
    BY <1>3, <2>2, FS_CardinalityType
<1> QED
  BY <1>2, <1>3

LEMMA IssuedMailed ==
    ASSUME MailInv, NEW key
    PROVE  Issued(key) = {c \in mailed : KeyOf(c) = key}
BY DEF MailInv, Issued

\* Whoever moves has the code that it had.
LEMMA StillBrought ==
    ASSUME MailInv, NEW t \in Threads, Goes(t), mailed \subseteq mailed'
    PROVE  \A s \in Threads : Brings(th[s])'
BY IdleIs DEF MailInv, Brings, Goes

LEMMA MailStays ==
    ASSUME TypeInv, MailInv, NEW t \in Threads, Goes(t), UNCHANGED mailVars
    PROVE  MailInv'
<1>1. UNCHANGED <<box, mailed, spent>> /\ ops' = ops /\ ops \in Nat
  BY DEF mailVars, Goes, TypeInv, StateTypes
<1>2. \A key : Issued(key)' = Issued(key)
  BY <1>1 DEF Issued
<1>3. /\ IsFiniteSet(Active)' /\ Cardinality(Active)' \in Nat /\ Cardinality(Active) \in Nat
      /\ Cardinality(Active)' <= Cardinality(Active)
  BY ActiveFalls DEF MailInv
<1>4. \A key \in Keys : Cardinality(Issued(key)) \in Nat /\ box[key] \in Nat
  BY FS_CardinalityType DEF MailInv
<1>5. \A key \in Keys : /\ box[key] + Cardinality(Active)' <= ops + 1
                        /\ Cardinality(Issued(key)) + Cardinality(Active)' <= ops + 1
  BY <1>1, <1>3, <1>4 DEF MailInv
<1>6. \A s \in Threads : Brings(th[s])'
  BY <1>1, StillBrought
<1> QED
  BY <1>1, <1>2, <1>3, <1>5, <1>6 DEF MailInv

\* A code is mailed, or kept and not mailed.
LEMMA SendMail ==
    ASSUME TypeInv, MailInv, NEW t \in Threads, Goes(t), th'[t] = Idle,
           NEW use \in {"retrieve", "bind"}, NEW m \in Mails, SendCode(use, m)
    PROVE  MailInv'
<1> DEFINE key0 == <<use, m>>
           K == Cardinality(Issued(key0))
<1>0. key0 \in Keys /\ K \in Nat /\ ops' = ops /\ ops \in Nat /\ box[key0] \in Nat
  BY FS_CardinalityType DEF Keys, MailInv, Goes, TypeInv, StateTypes
<1>1. PICK nr \in CodesFor(key0) :
        /\ box' = [box EXCEPT ![key0] = nr]
        /\ mailed' \in {mailed, mailed \cup {Code(use, m, nr)}}
        /\ spent' = spent
  BY DEF SendCode
<1> DEFINE code == Code(use, m, nr)
<1>2. /\ IsFiniteSet(Active)' /\ Cardinality(Active)' \in Nat /\ Cardinality(Active) \in Nat
      /\ Cardinality(Active)' = Cardinality(Active) - 1
  BY ActiveFalls DEF MailInv
<1>3. /\ nr \in 1..K + 1 /\ nr + Cardinality(Active)' <= ops + 1
      /\ K + 1 + Cardinality(Active)' <= ops + 1
  <2>1. /\ box[key0] <= K + 1 /\ box[key0] + Cardinality(Active) <= ops + 1
        /\ K + Cardinality(Active) <= ops + 1
    BY <1>0 DEF MailInv
  <2>2. nr \in Nat /\ nr # 0 /\ (nr = box[key0] \/ nr = K + 1)
    BY <1>0, <1>1 DEF CodesFor
  <2> HIDE DEF K
  <2> QED
    BY <1>0, <1>2, <2>1, <2>2
<1>4. KeyOf(code) = key0 /\ code = Code(code.use, code.mail, code.nr) /\ code.nr = nr
  BY DEF KeyOf, Code
<1>5. \A key \in Keys \ {key0} : Issued(key)' = Issued(key) /\ box'[key] = box[key]
  BY <1>1, <1>4 DEF Issued, MailInv
<1>6. box' \in [Keys -> Nat] /\ box'[key0] = nr
  BY <1>0, <1>1, <1>3 DEF MailInv
<1>7. \/ Issued(key0)' = Issued(key0) /\ code \notin mailed' \ mailed
      \/ Issued(key0)' = Issued(key0) \cup {code} /\ mailed' = mailed \cup {code}
  BY <1>1, <1>4 DEF Issued
<1>8. /\ IsFiniteSet(Issued(key0))' /\ Cardinality(Issued(key0))' \in K..K + 1
      /\ code \in mailed' => nr <= Cardinality(Issued(key0))'
  <2>1. IsFiniteSet(Issued(key0))
    BY <1>0 DEF MailInv
  <2>2. code \in mailed => nr <= K
    BY <1>4 DEF MailInv
  <2>3. CASE code \in mailed' \ mailed
    <3>1. Issued(key0)' = Issued(key0) \cup {code}
      BY <1>7, <2>3
    <3>2. code \notin Issued(key0)
      BY <2>3 DEF Issued, MailInv
    <3>3. IsFiniteSet(Issued(key0))' /\ Cardinality(Issued(key0))' = K + 1
      BY <2>1, <3>1, <3>2, FS_AddElement
    <3> QED
      BY <1>0, <1>3, <3>3
  <2>4. CASE code \notin mailed' \ mailed
    <3>1. Issued(key0)' = Issued(key0)
      BY <1>1, <1>4, <1>7, <2>4 DEF Issued
    <3> QED
      BY <1>0, <2>1, <2>2, <2>4, <3>1
  <2> QED
    BY <2>3, <2>4
<1>9. spent' \subseteq mailed'
  BY <1>1 DEF MailInv
<1>10. ASSUME NEW c \in mailed'
       PROVE  /\ KeyOf(c) \in Keys /\ c = Code(c.use, c.mail, c.nr)
              /\ c.nr \in 1..Cardinality(Issued(KeyOf(c)))'
  <2>1. CASE c = code
    BY <1>0, <1>3, <1>4, <1>8, <2>1
  <2>2. CASE c \in mailed /\ KeyOf(c) = key0
    <3>1. c = Code(c.use, c.mail, c.nr) /\ c.nr \in 1..K
      BY <2>2 DEF MailInv
    <3> HIDE DEF K, key0
    <3> QED
      BY <1>0, <1>8, <2>2, <3>1
  <2>3. CASE c \in mailed /\ KeyOf(c) # key0
    BY <1>5, <2>3 DEF MailInv
  <2> QED
    BY <1>1, <2>1, <2>2, <2>3
<1>11. ASSUME NEW key \in Keys
       PROVE  /\ IsFiniteSet(Issued(key))'
              /\ box'[key] <= Cardinality(Issued(key))' + 1
              /\ box'[key] + Cardinality(Active)' <= ops' + 1
              /\ Cardinality(Issued(key))' + Cardinality(Active)' <= ops' + 1
  <2>1. CASE key = key0
    <3> HIDE DEF K, key0
    <3> QED
      BY <1>0, <1>2, <1>3, <1>6, <1>8, <2>1
  <2>2. CASE key # key0
    <3>1. /\ IsFiniteSet(Issued(key)) /\ box[key] <= Cardinality(Issued(key)) + 1
          /\ box[key] + Cardinality(Active) <= ops + 1
          /\ Cardinality(Issued(key)) + Cardinality(Active) <= ops + 1
          /\ Cardinality(Issued(key)) \in Nat /\ box[key] \in Nat
      BY FS_CardinalityType DEF MailInv
    <3> QED
      BY <1>0, <1>2, <1>5, <2>2, <3>1
  <2> QED
    BY <2>1, <2>2
<1>12. ASSUME NEW c \in spent
       PROVE  box'[KeyOf(c)] # c.nr
  <2>0. c \in mailed /\ box[KeyOf(c)] # c.nr /\ KeyOf(c) \in Keys
    BY DEF MailInv
  <2>1. CASE KeyOf(c) = key0
    <3>1. c.nr \in 1..K
      BY <2>0, <2>1 DEF MailInv
    <3>2. nr = box[key0] \/ nr = K + 1
      BY <1>1 DEF CodesFor
    <3> HIDE DEF K, key0
    <3> QED
      BY <1>0, <1>6, <2>0, <2>1, <3>1, <3>2
  <2>2. CASE KeyOf(c) # key0
    BY <1>5, <2>0, <2>2
  <2> QED
    BY <2>1, <2>2
<1>13. \A s \in Threads : Brings(th[s])'
  BY <1>1, StillBrought
<1> HIDE DEF key0, K, code
<1> QED
  BY <1>1, <1>2, <1>6, <1>9, <1>10, <1>11, <1>12, <1>13 DEF MailInv

\* A code is compared, and no longer kept if it was accepted.
LEMMA CompareMail ==
    ASSUME TypeInv, MailInv, NEW t \in Threads, Goes(t), th[t].op \in {"retrieve", "bind"},
           Accept(th[t].code) \/ Refuse(th[t].code)
    PROVE  MailInv' /\ (Accept(th[t].code) => th[t].code \notin spent)
<1> DEFINE code == th[t].code
           key0 == KeyOf(code)
<1>0. /\ code \in mailed /\ key0 \in Keys /\ ops' = ops /\ ops \in Nat
      /\ box \in [Keys -> Nat]
  BY DEF MailInv, Brings, Goes, TypeInv, StateTypes
<1>1. /\ mailed' = mailed
      /\ box' \in {box, [box EXCEPT ![key0] = 0]}
      /\ spent' \in {spent, spent \cup {code}} /\ (spent' = spent \/ box'[key0] = 0)
  BY <1>0 DEF Accept, Refuse
<1>2. Accept(code) => code \notin spent
  BY DEF Accept, Fits, MailInv
<1>3. \A key : Issued(key)' = Issued(key)
  BY <1>0, <1>1 DEF Issued, MailInv
<1>4. /\ IsFiniteSet(Active)' /\ Cardinality(Active)' \in Nat /\ Cardinality(Active) \in Nat
      /\ Cardinality(Active)' <= Cardinality(Active)
  BY ActiveFalls DEF MailInv
<1>5. box' \in [Keys -> Nat] /\ \A key \in Keys : box'[key] <= box[key]
  BY <1>0, <1>1
<1>6. \A key \in Keys : Cardinality(Issued(key)) \in Nat /\ box[key] \in Nat /\ box'[key] \in Nat
  BY <1>0, <1>5, FS_CardinalityType DEF MailInv
<1>7. ASSUME NEW key \in Keys
      PROVE  /\ IsFiniteSet(Issued(key))'
             /\ box'[key] <= Cardinality(Issued(key))' + 1
             /\ box'[key] + Cardinality(Active)' <= ops' + 1
             /\ Cardinality(Issued(key))' + Cardinality(Active)' <= ops' + 1
  <2>1. /\ IsFiniteSet(Issued(key)) /\ box[key] <= Cardinality(Issued(key)) + 1
        /\ box[key] + Cardinality(Active) <= ops + 1
        /\ Cardinality(Issued(key)) + Cardinality(Active) <= ops + 1
    BY DEF MailInv
  <2> QED
    BY <1>0, <1>3, <1>4, <1>5, <1>6, <2>1
<1>8. ASSUME NEW c \in spent'
      PROVE  box'[KeyOf(c)] # c.nr
  <2>1. c \in mailed /\ KeyOf(c) \in Keys /\ c.nr # 0
    BY <1>0, <1>1 DEF MailInv
  <2>2. CASE KeyOf(c) = key0 /\ box'[key0] = 0
    BY <2>1, <2>2
  <2>3. CASE box'[KeyOf(c)] = box[KeyOf(c)] /\ c \in spent
    BY <2>3 DEF MailInv
  <2> HIDE DEF key0, code
  <2> QED
    BY <1>0, <1>1, <2>1, <2>2, <2>3 DEF key0
<1>9. \A s \in Threads : Brings(th[s])'
  BY <1>1, StillBrought
<1>10. spent' \subseteq mailed'
  BY <1>0, <1>1 DEF MailInv
<1>11. MailInv'
  BY <1>1, <1>3, <1>4, <1>5, <1>7, <1>8, <1>9, <1>10 DEF MailInv
<1> QED
  BY <1>2, <1>11

LEMMA LookMail ==
    ASSUME TypeInv, MailInv, NEW t \in Threads, Goes(t),
           AskRetrieve(t) \/ AskBind(t) \/ CheckMail(t) \/ CheckCode(t) \/ CheckBind(t)
    PROVE  MailInv'
<1>0. /\ ThreadsInv /\ th[t] \in Tasks /\ Suits(th[t]) /\ user \in [Users -> User]
      /\ th[t].pc # "idle"
  BY DEF TypeInv, ThreadsInv, StateTypes, Goes
<1>1. CASE UNCHANGED mailVars
  BY <1>1, MailStays
<1>2. CASE AskRetrieve(t)
  <2>1. user[th[t].at].mail \in Addresses /\ th'[t] = Idle
    BY <1>0, <1>2, OverIs DEF AskRetrieve, At, Suits, User
  <2> QED
    BY <1>1, <1>2, <2>1, SendMail DEF AskRetrieve, Addresses
<1>3. CASE AskBind(t)
  <2>1. th[t].code.mail \in Mails /\ th'[t] = Idle
    BY <1>0, <1>3, OverIs DEF AskBind, MailInv, Brings
  <2> QED
    BY <1>1, <1>3, <2>1, SendMail DEF AskBind
<1>4. CASE CheckMail(t)
  BY <1>1, <1>4 DEF CheckMail
<1>5. CASE CheckCode(t) \/ CheckBind(t)
  <2>1. th[t].op \in {"retrieve", "bind"}
    BY <1>0, <1>5 DEF CheckCode, CheckBind, Suits, At
  <2> QED
    BY <1>1, <1>5, <2>1, CompareMail DEF CheckCode, CheckBind
<1> QED
  BY <1>2, <1>3, <1>4, <1>5

LEMMA StartMail ==
    ASSUME TypeInv, MailInv, mailed \subseteq Codes, NEW t \in Threads, NEW o \in Ops,
           NEW cred \in Credentials(o), Start(t, o, cred[1], cred[2], cred[3])
    PROVE  MailInv'
<1>1. /\ th[t].pc = "idle" /\ th'[t].pc \in {"query", "load"} /\ th'[t].op = o
      /\ th'[t].code = cred[3] /\ ops' = ops + 1 /\ \A s \in Threads \ {t} : th'[s] = th[s]
      /\ UNCHANGED <<box, mailed, spent>>
  BY StartTypes DEF mailVars
<1>2. ops \in Nat /\ IsFiniteSet(Active) /\ box \in [Keys -> Nat]
  BY DEF TypeInv, StateTypes, MailInv
<1>3. /\ IsFiniteSet(Active)' /\ Cardinality(Active)' = Cardinality(Active) + 1
      /\ Cardinality(Active) \in Nat
  <2>1. Active' = Active \cup {t} /\ t \notin Active
    BY <1>1 DEF Active, At
  <2>2. /\ IsFiniteSet(Active \cup {t})
        /\ Cardinality(Active \cup {t}) = Cardinality(Active) + 1
    BY <1>2, <2>1, FS_AddElement
  <2> QED
    BY <1>2, <2>1, <2>2, FS_CardinalityType
<1>4. \A key : Issued(key)' = Issued(key)
  BY <1>1 DEF Issued
<1>5. \A key \in Keys : Cardinality(Issued(key)) \in Nat /\ box[key] \in Nat
  BY FS_CardinalityType DEF MailInv
<1>6. \A key \in Keys : /\ box[key] + Cardinality(Active)' <= ops' + 1
                        /\ Cardinality(Issued(key)) + Cardinality(Active)' <= ops' + 1
  BY <1>1, <1>2, <1>3, <1>5 DEF MailInv
<1>7. \A s \in Threads : Brings(th[s])'
  <2>1. Brings(th[t])'
    <3>1. o \in {"retrieve", "bind"} => cred[3] \in mailed
      BY CredentialTypes
    <3>2. o = "askBind" => cred[3].mail \in Mails
      BY DEF Credentials, AddressOnly, Code
    <3> QED
      BY <1>1, <3>1, <3>2 DEF Brings
  <2> QED
    BY <1>1, <2>1 DEF MailInv, Brings
<1> QED
  BY <1>1, <1>3, <1>4, <1>6, <1>7 DEF MailInv

\* The numbers of codes do not outgrow the operations.
LEMMA Numbered ==
    ASSUME TypeInv, MailInv
    PROVE  box \in [Keys -> 0..MaxOps + 1] /\ mailed \subseteq Codes
<1>1. ops \in 0..MaxOps /\ MaxOps \in Nat /\ Cardinality(Active) \in Nat
  BY Constants, FS_CardinalityType DEF TypeInv, StateTypes, MailInv
<1>2. \A key \in Keys : /\ box[key] \in Nat /\ Cardinality(Issued(key)) \in Nat
                        /\ box[key] + Cardinality(Active) <= ops + 1
                        /\ Cardinality(Issued(key)) + Cardinality(Active) <= ops + 1
  BY FS_CardinalityType DEF MailInv
<1>3. \A key \in Keys : /\ box[key] \in 0..MaxOps + 1
                        /\ Cardinality(Issued(key)) \in 0..MaxOps + 1
  BY <1>1, <1>2
<1>4. ASSUME NEW c \in mailed
      PROVE  c \in Codes
  <2>1. KeyOf(c) \in Keys /\ c = Code(c.use, c.mail, c.nr)
        /\ c.nr \in 1..Cardinality(Issued(KeyOf(c)))
    BY DEF MailInv
  <2>2. c.use \in {"retrieve", "bind"} /\ c.mail \in Mails
    BY <2>1 DEF KeyOf, Keys
  <2>3. c.nr \in 0..MaxOps + 1
    BY <1>1, <1>3, <2>1
  <2> QED
    BY <2>1, <2>2, <2>3 DEF Code, Codes, Addresses
<1> QED
  BY <1>3, <1>4 DEF MailInv

\* Steps of a thread: the types, and who moved.
LEMMA StepTypes ==
    ASSUME TypeInv, NEW t \in Threads, Step(t)
    PROVE  TypeInv' /\ Goes(t)
BY LoadTypes, LookTypes, PasswordTypes, FieldTypes, DeleteTypes DEF Step

LEMMA InitTypes == Init => TypeInv /\ MailInv
<1> SUFFICES ASSUME Init
             PROVE  TypeInv /\ MailInv
  OBVIOUS
<1>0. row \in Row /\ cached = None /\ ops = 0 /\ row.mail \in Addresses
  BY Constants DEF Init, Row, Roles
<1>1. \A t \in Threads : th[t] = Idle
  BY DEF Init
<1>2. TypeInv
  <2>1. StateTypes
    BY <1>0, Constants DEF Init, StateTypes, User, Roles, Addresses, Token
  <2>2. ThreadsInv
    BY <1>1, IdleIs DEF ThreadsInv, Init
  <2> QED
    BY <2>1, <2>2 DEF TypeInv
<1>3. Active = {} /\ IsFiniteSet(Active) /\ Cardinality(Active) = 0
  BY <1>1, IdleIs, FS_EmptySet DEF Active, At
<1>4. box \in [Keys -> {0, 1}] /\ spent = {}
  BY DEF Init
<1>5. \A c \in mailed : /\ KeyOf(c) \in Keys /\ c = Code(c.use, c.mail, c.nr)
                        /\ c.nr = 1 /\ box[KeyOf(c)] = 1
  <2> SUFFICES ASSUME NEW c \in mailed
               PROVE  /\ KeyOf(c) \in Keys /\ c = Code(c.use, c.mail, c.nr)
                      /\ c.nr = 1 /\ box[KeyOf(c)] = 1
    OBVIOUS
  <2>1. PICK key \in Keys : box[key] = 1 /\ c = Code(key[1], key[2], 1)
    BY DEF Init
  <2>2. key = <<key[1], key[2]>>
    BY DEF Keys
  <2>3. c.use = key[1] /\ c.mail = key[2] /\ c.nr = 1
    BY <2>1 DEF Code
  <2> QED
    BY <2>1, <2>2, <2>3 DEF KeyOf
<1>6. ASSUME NEW key \in Keys
      PROVE  Issued(key) = IF box[key] = 1 THEN {Code(key[1], key[2], 1)} ELSE {}
  <2>1. KeyOf(Code(key[1], key[2], 1)) = key
    BY DEF KeyOf, Code, Keys
  <2>2. box[key] = 1 => Code(key[1], key[2], 1) \in mailed
    BY DEF Init
  <2>3. \A c \in mailed : KeyOf(c) = key => c = Code(key[1], key[2], 1) /\ box[key] = 1
    <3>1. \A c \in mailed : KeyOf(c) = key => c.use = key[1] /\ c.mail = key[2]
      BY DEF KeyOf
    <3> QED
      BY <1>5, <3>1
  <2> QED
    BY <1>4, <2>1, <2>2, <2>3 DEF Issued
<1>7. ASSUME NEW key \in Keys
      PROVE  IsFiniteSet(Issued(key)) /\ Cardinality(Issued(key)) = box[key]
  <2>1. CASE box[key] = 1
    <3>1. Issued(key) = {Code(key[1], key[2], 1)}
      BY <1>6, <2>1
    <3> QED
      BY <2>1, <3>1, FS_Singleton
  <2>2. CASE box[key] # 1
    <3>1. Issued(key) = {} /\ box[key] = 0
      BY <1>4, <1>6, <2>2
    <3> QED
      BY <3>1, FS_EmptySet
  <2> QED
    BY <2>1, <2>2
<1>8. MailInv
  <2>1. \A key \in Keys : box[key] \in {0, 1}
    BY <1>4
  <2>2. \A c \in mailed : /\ KeyOf(c) \in Keys /\ c = Code(c.use, c.mail, c.nr)
                          /\ c.nr \in 1..Cardinality(Issued(KeyOf(c)))
    BY <1>5, <1>7
  <2>3. \A t \in Threads : Brings(th[t])
    BY <1>1, IdleIs DEF Brings
  <2>4. \A key \in Keys : /\ IsFiniteSet(Issued(key))
                          /\ box[key] <= Cardinality(Issued(key)) + 1
                          /\ box[key] + Cardinality(Active) <= ops + 1
                          /\ Cardinality(Issued(key)) + Cardinality(Active) <= ops + 1
    BY <1>0, <1>3, <1>7, <2>1
  <2> QED
    BY <1>3, <1>4, <2>2, <2>3, <2>4 DEF MailInv
<1> QED
  BY <1>2, <1>8

LEMMA StepMail ==
    ASSUME TypeInv, MailInv, NEW t \in Threads, Step(t)
    PROVE  MailInv'
<1>1. Goes(t)
  BY StepTypes
<1>2. CASE AskRetrieve(t) \/ AskBind(t) \/ CheckMail(t) \/ CheckCode(t) \/ CheckBind(t)
  BY <1>1, <1>2, LookMail
<1>3. CASE ~(AskRetrieve(t) \/ AskBind(t) \/ CheckMail(t) \/ CheckCode(t) \/ CheckBind(t))
  <2>1. UNCHANGED mailVars
    BY <1>3 DEF Step, LoadHit, Query, Store, Verify, Issue, CheckVersion, CheckRole, Version,
           Hash, Save,
                WriteMail, SetMail, WriteRole, SetRole, Delete, Evict
  <2> QED
    BY <1>1, <2>1, MailStays
<1> QED
  BY <1>2, <1>3

LEMMA NextTypes ==
    ASSUME TypeInv, MailInv, [Next]_vars
    PROVE  TypeInv' /\ MailInv'
<1>0. mailed \subseteq Codes
  BY Numbered
<1>1. ASSUME NEW t \in Threads, Step(t)
      PROVE  TypeInv' /\ MailInv'
  BY <1>1, StepTypes, StepMail
<1>2. ASSUME NEW t \in Threads, NEW o \in Ops, NEW cred \in Credentials(o),
             Start(t, o, cred[1], cred[2], cred[3])
      PROVE  TypeInv' /\ MailInv'
  BY <1>0, <1>2, StartTypes, StartMail
<1>3. CASE Expire
  BY <1>3, ExpireTypes DEF Expire, mailVars, MailInv, Issued, Active, Brings, At
<1>4. CASE UNCHANGED vars
  BY <1>4 DEF vars, mailVars, TypeInv, StateTypes, ThreadsInv, Suits, MailInv, Issued, Active,
              Brings, At
<1> QED
  BY <1>1, <1>2, <1>3, <1>4 DEF Next, Finished

\* The types; the numbers of the codes stay within the operations.
THEOREM TypeCorrect == Spec => []TypeOK
<1>1. TypeInv /\ MailInv => TypeOK
  <2> SUFFICES ASSUME TypeInv, MailInv
               PROVE  TypeOK
    OBVIOUS
  <2>1. th \in [Threads -> Tasks]
    BY DEF TypeInv, ThreadsInv
  <2>2. \A t \in Threads : /\ At(t, "store") => th[t].seen # Gone
                           /\ th[t].pc \in {"verify", "issue", "allowed", "hash", "save"} =>
                                th[t].at # None
    BY Constants DEF TypeInv, ThreadsInv, Suits, At
  <2>3. box \in [Keys -> 0..MaxOps + 1] /\ mailed \subseteq Codes /\ spent \subseteq mailed
    BY Numbered DEF MailInv
  <2> QED
    BY <2>1, <2>2, <2>3 DEF TypeOK, TypeInv, StateTypes, Tasks
<1>2. TypeInv /\ MailInv /\ [Next]_vars => (TypeInv /\ MailInv)'
  BY NextTypes
<1> QED
  BY <1>1, <1>2, InitTypes, PTL DEF Spec

-----------------------------------------------------------------------------
(* The user in the cache, and who holds it. *)

Evicting == \E t \in Threads : At(t, "evict")

\* A request that has loaded the user by id holds the one in the cache, but for those that
\* were under way when the account was deleted.
Holds(r) == r.at # None /\ r.op \notin ByName => cached = r.at \/ (row = Gone /\ ~Evicting)

\* The account is deleted once, and whoever deletes it evicts the user; a user stored after that
\* is outdated.
PinInv ==
    /\ \A t \in Threads : Holds(th[t])
    /\ \A t \in Threads : At(t, "evict") => row = Gone /\ cached = th[t].at
    /\ \A s, t \in Threads : At(s, "evict") /\ At(t, "evict") => s = t
    /\ row = Gone => cached = None \/ Evicting \/ cached \in outdated

\* Steps that neither change the cache nor delete the account.
LEMMA PinStays ==
    ASSUME PinInv, NEW t \in Threads, cached' = cached, row' = Gone <=> row = Gone,
           outdated \subseteq outdated', \A s \in Threads \ {t} : th'[s] = th[s],
           th[t].pc # "evict", th'[t].pc # "evict",
           th'[t].at = None \/ (th'[t].at = th[t].at /\ th'[t].op = th[t].op)
    PROVE  PinInv'
<1>1. Evicting' <=> Evicting
  BY DEF Evicting, At
<1> QED
  BY <1>1 DEF PinInv, Holds, At

LEMMA PinStart ==
    ASSUME TypeInv, PinInv, mailed \subseteq Codes, NEW t \in Threads, NEW o \in Ops,
           NEW cred \in Credentials(o), Start(t, o, cred[1], cred[2], cred[3])
    PROVE  PinInv'
BY StartTypes, PinStays

LEMMA PinExpire ==
    ASSUME TypeInv, PinInv, Expire
    PROVE  PinInv'
<1>1. cached # None /\ cached' = None /\ UNCHANGED <<row, th, outdated>>
  BY DEF Expire
<1>2. ASSUME NEW t \in Threads, At(t, "evict")
      PROVE  FALSE
  <2>1. th[t].op \in {"logout", "delete"} /\ th[t].at = cached
    BY <1>2 DEF TypeInv, ThreadsInv, Suits, PinInv, At
  <2> QED
    BY <2>1 DEF Expire, ByName
<1>3. ~Evicting /\ ~Evicting'
  BY <1>1, <1>2 DEF Evicting, At
<1>4. \A t \in Threads : Holds(th[t])'
  BY <1>1, <1>3 DEF Expire, PinInv, Holds
<1> QED
  BY <1>1, <1>2, <1>4 DEF PinInv, At

LEMMA PinLoad ==
    ASSUME TypeInv, PinInv, NEW t \in Threads, LoadHit(t) \/ Query(t) \/ Store(t)
    PROVE  PinInv'
<1>0. ThreadsInv /\ th[t] \in Tasks /\ Suits(th[t]) /\ Goes(t)
  BY LoadTypes DEF TypeInv, ThreadsInv
<1>1. CASE LoadHit(t)
  <2>1. /\ th[t].pc = "load" /\ UNCHANGED <<row, cached, outdated>>
        /\ Set(t, [th[t] EXCEPT !.pc = Begins(th[t].op), !.at = cached])
    BY <1>1 DEF LoadHit, At
  <2>2. th'[t].pc # "evict" /\ th'[t].at = cached /\ \A s \in Threads \ {t} : th'[s] = th[s]
    <3>1. /\ th'[t] = [th[t] EXCEPT !.pc = Begins(th[t].op), !.at = cached]
          /\ \A s \in Threads \ {t} : th'[s] = th[s]
      BY <1>0, <2>1, SetIs
    <3>2. th'[t].pc = Begins(th[t].op) /\ th'[t].at = cached
      BY <1>0, <3>1 DEF Tasks
    <3> QED
      BY <3>1, <3>2, BeginsIs
  <2>3. Evicting' <=> Evicting
    BY <2>1, <2>2 DEF Evicting, At
  <2> QED
    BY <2>1, <2>2, <2>3 DEF PinInv, Holds, At
<1>2. CASE Query(t)
  <2>1. th[t].pc \in {"query", "load"} /\ UNCHANGED <<row, cached, outdated>>
    BY <1>2 DEF Query, At
  <2>2. \/ th'[t] = Idle
        \/ th'[t].pc = "store" /\ th'[t].at = th[t].at /\ th'[t].op = th[t].op
    <3>1. CASE Over(t)
      BY <1>0, <3>1, OverIs
    <3>2. CASE Set(t, [th[t] EXCEPT !.pc = "store", !.seen = row])
      <4>1. th'[t] = [th[t] EXCEPT !.pc = "store", !.seen = row]
        BY <1>0, <3>2, SetIs
      <4> QED
        BY <1>0, <4>1 DEF Tasks
    <3> QED
      BY <1>2, <3>1, <3>2 DEF Query
  <2> QED
    BY <1>0, <2>1, <2>2, IdleIs, PinStays DEF Goes
<1>3. CASE Store(t)
  <2>1. PICK u \in Users :
          /\ Set(t, [th[t] EXCEPT !.pc = Begins(th[t].op), !.at = u, !.seen = Gone])
          /\ cached' = u /\ row' = row
          /\ \/ cached = u /\ outdated' = outdated
             \/ cached = None /\ outdated' = IF th[t].seen = row THEN outdated \ {u}
                                                                 ELSE outdated \cup {u}
    BY <1>3, NewUserIs DEF Store, TypeInv, StateTypes
  <2>2. /\ th[t].pc = "store" /\ th[t].seen # Gone
        /\ th'[t].pc # "evict" /\ th'[t].at = u /\ \A s \in Threads \ {t} : th'[s] = th[s]
    <3>1. /\ th'[t] = [th[t] EXCEPT !.pc = Begins(th[t].op), !.at = u, !.seen = Gone]
          /\ \A s \in Threads \ {t} : th'[s] = th[s]
      BY <1>0, <2>1, SetIs
    <3>2. th'[t].pc = Begins(th[t].op) /\ th'[t].at = u
      BY <1>0, <3>1 DEF Tasks
    <3> QED
      BY <1>0, <1>3, <3>1, <3>2, BeginsIs DEF Store, At, Suits
  <2>3. Evicting' <=> Evicting
    BY <2>2 DEF Evicting, At
  <2>4. CASE cached = u
    BY <2>1, <2>2, <2>3, <2>4, Constants DEF PinInv, Holds, At
  <2>5. CASE cached = None
    <3>1. ~Evicting
      BY <2>5, Constants DEF Evicting, PinInv, At, TypeInv, ThreadsInv, Suits
    <3>2. \A s \in Threads : Holds(th[s])'
      BY <2>1, <2>2, <2>3, <2>5, <3>1 DEF PinInv, Holds
    <3>3. row' = Gone => u \in outdated'
      BY <2>1, <2>2, <2>5, Constants
    <3> QED
      BY <2>1, <2>3, <3>1, <3>2, <3>3 DEF PinInv, Evicting
  <2> QED
    BY <2>1, <2>4, <2>5
<1> QED
  BY <1>1, <1>2, <1>3

LEMMA PinDelete ==
    ASSUME TypeInv, PinInv, NEW t \in Threads, Delete(t) \/ Evict(t)
    PROVE  PinInv'
<1>0. ThreadsInv /\ th[t] \in Tasks /\ Suits(th[t]) /\ th[t].pc \in {"allowed", "evict"}
  BY DEF TypeInv, ThreadsInv, Delete, Evict, At
<1>1. th[t].at \in Users /\ outdated' = outdated /\ th[t].op \in {"logout", "delete"}
  BY <1>0 DEF Suits, Delete, Evict, At
<1>2. CASE Delete(t) /\ row = Gone
  <2>1. th'[t] = Idle /\ \A s \in Threads \ {t} : th'[s] = th[s]
    BY <1>0, <1>2, OverIs DEF Delete
  <2> QED
    BY <1>1, <1>2, <2>1, IdleIs, PinStays DEF Delete, At
<1>3. CASE Delete(t) /\ row # Gone
  <2>1. /\ row' = Gone /\ cached' = cached /\ th'[t].pc = "evict" /\ th'[t].at = th[t].at
        /\ \A s \in Threads \ {t} : th'[s] = th[s]
    BY <1>0, <1>3, GotoIs DEF Delete
  <2>2. cached = th[t].at
    BY <1>1, <1>3, Constants DEF PinInv, Holds, ByName
  <2>3. \A s \in Threads : th[s].pc # "evict"
    BY <1>3 DEF PinInv, At
  <2>4. Evicting'
    BY <2>1 DEF Evicting, At
  <2>5. \A s \in Threads : th'[s].at = th[s].at /\ th'[s].op = th[s].op
    BY <1>0, <1>3, GotoIs DEF Delete
  <2>6. \A s \in Threads : Holds(th[s])'
    BY <1>3, <2>1, <2>5 DEF PinInv, Holds
  <2> QED
    BY <2>1, <2>2, <2>3, <2>4, <2>6 DEF PinInv, At
<1>4. CASE Evict(t)
  <2>1. /\ row = Gone /\ row' = Gone /\ cached = th[t].at /\ cached' = None
        /\ th'[t] = Idle /\ \A s \in Threads \ {t} : th'[s] = th[s]
    BY <1>0, <1>4, OverIs DEF Evict, PinInv, At
  <2>2. \A s \in Threads : th'[s].pc # "evict"
    BY <1>4, <2>1, IdleIs DEF PinInv, Evict, At
  <2>3. ~Evicting'
    BY <2>2 DEF Evicting, At
  <2> QED
    BY <2>1, <2>2, <2>3 DEF PinInv, Holds, At
<1> QED
  BY <1>2, <1>3, <1>4

\* The other steps go on with their user, or are over.
LEMMA Others ==
    ASSUME TypeInv, NEW t \in Threads, Step(t),
           ~(LoadHit(t) \/ Query(t) \/ Store(t) \/ Delete(t) \/ Evict(t))
    PROVE  /\ \A s \in Threads \ {t} : th'[s] = th[s]
           /\ th[t].pc \notin {"idle", "evict", "query", "load", "store"} /\ th'[t].pc # "evict"
           /\ th'[t] = Idle \/ (/\ th'[t].at = th[t].at /\ th'[t].op = th[t].op
                                /\ th'[t].pwd = th[t].pwd /\ th'[t].code = th[t].code)
           /\ cached' = cached /\ (row' = Gone <=> row = Gone) /\ outdated \subseteq outdated'
<1>0. ThreadsInv /\ StateTypes
  BY DEF TypeInv
<1>1. /\ th[t].pc \notin {"idle", "evict", "query", "load", "store"}
      /\ \/ Over(t)
         \/ \E l \in {"issue", "vet", "allowed", "redeem", "hash", "save", "write", "mail",
                       "role"} : Goto(t, l)
      /\ cached' = cached /\ outdated \subseteq outdated'
  BY DEF Step, Verify, Issue, CheckVersion, CheckRole, Version, Hash, Save, AskRetrieve, AskBind,
         CheckMail, CheckCode, CheckBind, WriteMail, SetMail, WriteRole, SetRole, At
<1>2. /\ \A s \in Threads \ {t} : th'[s] = th[s]
      /\ th'[t].pc # "evict"
      /\ th'[t] = Idle \/ (/\ th'[t].at = th[t].at /\ th'[t].op = th[t].op
                           /\ th'[t].pwd = th[t].pwd /\ th'[t].code = th[t].code)
  BY <1>0, <1>1, OverIs, GotoIs, IdleIs
<1>3. row' = Gone <=> row = Gone
  <2>1. row \in Row \cup {Gone} /\ row' \in Row \cup {Gone}
    BY StepTypes DEF TypeInv, StateTypes
  <2>2. \/ row' = row
        \/ row # Gone /\ \E f : row' = [row EXCEPT !.pwd = f]
        \/ row # Gone /\ \E f : row' = [row EXCEPT !.mail = f]
        \/ row # Gone /\ \E f \in Roles : row' = [row EXCEPT !.role = f]
    BY DEF RoleOf, Roles, Step, Verify, Issue, CheckVersion, CheckRole, Version, Hash, Save,
           AskRetrieve, AskBind,
           CheckMail, CheckCode, CheckBind, WriteMail, SetMail, WriteRole, SetRole
  <2> QED
    BY <2>1, <2>2 DEF Row, Gone, Roles
<1> QED
  BY <1>1, <1>2, <1>3

LEMMA PinStep ==
    ASSUME TypeInv, PinInv, NEW t \in Threads, Step(t)
    PROVE  PinInv'
<1>1. CASE LoadHit(t) \/ Query(t) \/ Store(t) \/ Delete(t) \/ Evict(t)
  BY <1>1, PinLoad, PinDelete
<1>2. CASE ~(LoadHit(t) \/ Query(t) \/ Store(t) \/ Delete(t) \/ Evict(t))
  BY <1>2, Others, IdleIs, PinStays
<1> QED
  BY <1>1, <1>2

-----------------------------------------------------------------------------
(* The passwords of the user objects. *)

Changing(r) == r.pc \in {"hash", "save"}

\* Whoever changes a password has set the version, and then the hash; two that change the
\* password of one user make it outdated.
KeyInv ==
    /\ \A t \in Threads :
         Changing(th[t]) =>
            \/ /\ user[th[t].at].version = th[t].pwd
               /\ At(t, "save") => user[th[t].at].pwd = th[t].pwd
            \/ th[t].at \in outdated
    /\ \A s, t \in Threads :
         Changing(th[s]) /\ Changing(th[t]) /\ th[s].at = th[t].at =>
            s = t \/ th[t].at \in outdated
    /\ \A u \in Users : user[u].version = user[u].pwd \/ Rekeying(u) \/ u \in outdated

\* A user object as it was loaded.
Loaded(r) == [version |-> r.seen.pwd, pwd |-> r.seen.pwd, role |-> r.seen.role,
              mail |-> r.seen.mail]

LEMMA StoreIs ==
    ASSUME TypeInv, NEW t \in Threads, Store(t)
    PROVE  /\ th[t].pc = "store" /\ th[t].seen \in Row /\ \A s \in Threads \ {t} : th'[s] = th[s]
           /\ \E u \in Users :
                /\ cached' = u /\ th'[t].pc = Begins(th[t].op) /\ th'[t].at = u
                /\ th'[t].op = th[t].op /\ th'[t].pwd = th[t].pwd
                /\ \/ cached = u /\ user' = user /\ outdated' = outdated /\ crossed' = Crosses(t, u)
                   \/ /\ cached = None /\ \A s \in Threads : th[s].at # u
                      /\ user' = [user EXCEPT ![u] = Loaded(th[t])]
                      /\ outdated' = IF th[t].seen = row THEN outdated \ {u}
                                                         ELSE outdated \cup {u}
                      /\ crossed' = crossed \ {t}
           /\ row' = row /\ tokens' = tokens
<1>0. /\ ThreadsInv /\ th[t] \in Tasks /\ th[t].pc = "store" /\ th[t].seen \in Row
      /\ row' = row /\ tokens' = tokens
  BY DEF TypeInv, ThreadsInv, Store, At, Tasks, Suits
<1>1. PICK u \in Users :
        /\ cached' = u
        /\ Set(t, [th[t] EXCEPT !.pc = Begins(th[t].op), !.at = u, !.seen = Gone])
        /\ \/ cached = u /\ user' = user /\ outdated' = outdated /\ crossed' = Crosses(t, u)
           \/ /\ cached = None /\ \A s \in Threads : th[s].at # u
              /\ user' = [user EXCEPT ![u] = Loaded(th[t])]
              /\ outdated' = IF th[t].seen = row THEN outdated \ {u} ELSE outdated \cup {u}
              /\ crossed' = crossed \ {t}
  BY NewUserIs DEF Store, Loaded, FreeUsers, TypeInv, StateTypes
<1>2. /\ th'[t] = [th[t] EXCEPT !.pc = Begins(th[t].op), !.at = u, !.seen = Gone]
      /\ \A s \in Threads \ {t} : th'[s] = th[s]
  BY <1>0, <1>1, SetIs
<1>3. /\ th'[t].pc = Begins(th[t].op) /\ th'[t].at = u
      /\ th'[t].op = th[t].op /\ th'[t].pwd = th[t].pwd
  BY <1>0, <1>2 DEF Tasks
<1> QED
  BY <1>0, <1>1, <1>2, <1>3

LEMMA KeyStays ==
    ASSUME KeyInv, NEW t \in Threads, \A s \in Threads \ {t} : th'[s] = th[s],
           ~Changing(th[t]), ~Changing(th'[t]), outdated \subseteq outdated',
           \A s \in Threads : Changing(th[s]) => /\ user'[th[s].at].version = user[th[s].at].version
                                                 /\ user'[th[s].at].pwd = user[th[s].at].pwd,
           \A u \in Users : user'[u].version = user[u].version /\ user'[u].pwd = user[u].pwd
    PROVE  KeyInv'
<1>1. \A u : Rekeying(u)' <=> Rekeying(u)
  BY DEF Rekeying, Changing
<1> QED
  BY <1>1 DEF KeyInv, Changing, At

\* Steps that change neither passwords nor versions.
LEMMA SameKeys ==
    ASSUME TypeInv, NEW t \in Threads, Step(t), ~(Store(t) \/ Version(t) \/ Hash(t))
    PROVE  \A u \in Users : user'[u].version = user[u].version /\ user'[u].pwd = user[u].pwd
<1>1. user \in [Users -> User]
  BY DEF TypeInv, StateTypes
<1>2. \/ user' = user
      \/ \E m : user' = [user EXCEPT ![th[t].at].mail = m]
      \/ \E m : user' = [user EXCEPT ![th[t].at].role = m]
  BY DEF Step, LoadHit, Query, Verify, Issue, CheckVersion, CheckRole, Save, AskRetrieve, AskBind,
         CheckMail, CheckCode,
         CheckBind, WriteMail, SetMail, WriteRole, SetRole, Delete, Evict
<1>3. ASSUME NEW m, user' = [user EXCEPT ![th[t].at].mail = m]
             \/ user' = [user EXCEPT ![th[t].at].role = m]
      PROVE  \A u \in Users : user'[u].version = user[u].version /\ user'[u].pwd = user[u].pwd
  <2> SUFFICES ASSUME NEW u \in Users
               PROVE  user'[u].version = user[u].version /\ user'[u].pwd = user[u].pwd
    OBVIOUS
  <2>1. user[u] \in User
    BY <1>1
  <2>2. user'[u] \in {user[u], [user[u] EXCEPT !.mail = m], [user[u] EXCEPT !.role = m]}
    BY <1>1, <1>3
  <2> QED
    BY <2>1, <2>2 DEF User
<1> QED
  BY <1>2, <1>3

LEMMA KeyPassword ==
    ASSUME TypeInv, KeyInv, NEW t \in Threads, Version(t) \/ Hash(t) \/ Save(t)
    PROVE  KeyInv'
<1>0. ThreadsInv /\ th[t] \in Tasks /\ Suits(th[t]) /\ user \in [Users -> User]
  BY DEF TypeInv, ThreadsInv, StateTypes
<1> DEFINE u == th[t].at
<1>1. /\ u \in Users /\ \A s \in Threads : Changing(th[s]) => th[s].at \in Users
  BY <1>0 DEF Suits, TypeInv, ThreadsInv, Changing, Version, Hash, Save, At
<1>2. CASE Version(t)
  <2>1. /\ th[t].pc = "allowed" /\ user' = [user EXCEPT ![u].version = th[t].pwd]
        /\ outdated' = IF Changers(u) = {} THEN outdated ELSE outdated \cup {u}
        /\ th'[t].pc = "hash" /\ th'[t].at = u /\ th'[t].pwd = th[t].pwd
        /\ \A s \in Threads \ {t} : th'[s] = th[s]
    BY <1>0, <1>2, GotoIs DEF Version, At
  <2>2. /\ user'[u].version = th[t].pwd
        /\ \A v \in Users \ {u} : user'[v] = user[v]
    BY <1>0, <1>1, <2>1 DEF User
  <2>3. \A s \in Threads : Changing(th[s]) /\ th[s].at = u => u \in outdated'
    BY <2>1 DEF Changers, Changing
  <2>4. \A v : Rekeying(v) => Rekeying(v)'
    BY <2>1 DEF Rekeying
  <2>5. Rekeying(u)'
    BY <2>1 DEF Rekeying
  <2>6. \A v \in Users : user'[v].version = user'[v].pwd \/ Rekeying(v)' \/ v \in outdated'
    BY <2>1, <2>2, <2>4, <2>5 DEF KeyInv
  <2> HIDE DEF u
  <2>7. ASSUME NEW s \in Threads, Changing(th'[s])
        PROVE  \/ /\ user'[th'[s].at].version = th'[s].pwd
                  /\ th'[s].pc = "save" => user'[th'[s].at].pwd = th'[s].pwd
               \/ th'[s].at \in outdated'
    <3>1. CASE s = t
      BY <2>1, <2>2, <3>1
    <3>2. CASE s # t /\ th[s].at = u
      BY <2>1, <2>3, <2>7, <3>2
    <3>3. CASE s # t /\ th[s].at # u
      BY <1>1, <2>1, <2>2, <2>7, <3>3 DEF KeyInv, At
    <3> QED
      BY <3>1, <3>2, <3>3
  <2>8. \A r, s \in Threads : Changing(th'[r]) /\ Changing(th'[s]) /\ th'[r].at = th'[s].at =>
            r = s \/ th'[s].at \in outdated'
    BY <2>1, <2>3 DEF KeyInv
  <2> QED
    BY <2>6, <2>7, <2>8 DEF KeyInv, At
<1>3. CASE Hash(t)
  <2>1. /\ th[t].pc = "hash" /\ user' = [user EXCEPT ![u].pwd = th[t].pwd] /\ outdated' = outdated
        /\ th'[t].pc = "save" /\ th'[t].at = u /\ th'[t].pwd = th[t].pwd
        /\ \A s \in Threads \ {t} : th'[s] = th[s]
    BY <1>0, <1>3, GotoIs DEF Hash, At
  <2>2. /\ user'[u].pwd = th[t].pwd /\ user'[u].version = user[u].version
        /\ \A v \in Users \ {u} : user'[v] = user[v]
    BY <1>0, <1>1, <2>1 DEF User
  <2>3. \A s \in Threads \ {t} : Changing(th[s]) /\ th[s].at = u => u \in outdated
    BY <2>1 DEF KeyInv, Changing
  <2>4. \A v : v # u /\ Rekeying(v) => Rekeying(v)'
    BY <2>1 DEF Rekeying
  <2>5. user[u].version = th[t].pwd \/ u \in outdated
    BY <2>1 DEF KeyInv, Changing
  <2> HIDE DEF u
  <2>6. \A v \in Users : user'[v].version = user'[v].pwd \/ Rekeying(v)' \/ v \in outdated'
    BY <1>1, <2>1, <2>2, <2>4, <2>5 DEF KeyInv
  <2>7. ASSUME NEW s \in Threads, Changing(th'[s])
        PROVE  \/ /\ user'[th'[s].at].version = th'[s].pwd
                  /\ th'[s].pc = "save" => user'[th'[s].at].pwd = th'[s].pwd
               \/ th'[s].at \in outdated'
    <3>1. CASE s = t
      BY <2>1, <2>2, <2>5, <3>1
    <3>2. CASE s # t /\ th[s].at = u
      BY <2>1, <2>3, <2>7, <3>2
    <3>3. CASE s # t /\ th[s].at # u
      BY <1>1, <2>1, <2>2, <2>7, <3>3 DEF KeyInv, At
    <3> QED
      BY <3>1, <3>2, <3>3
  <2>8. \A r, s \in Threads : Changing(th'[r]) /\ Changing(th'[s]) /\ th'[r].at = th'[s].at =>
            r = s \/ th'[s].at \in outdated'
    BY <2>1, <2>3 DEF KeyInv
  <2> QED
    BY <2>6, <2>7, <2>8 DEF KeyInv, At
<1>4. CASE Save(t)
  <2>1. /\ th[t].pc = "save" /\ user' = user /\ outdated \subseteq outdated'
        /\ Over(t) \/ Goto(t, "issue")
    BY <1>4 DEF Save, At
  <2>2. th'[t].pc \in {"idle", "issue"} /\ \A s \in Threads \ {t} : th'[s] = th[s]
    BY <1>0, <2>1, OverIs, GotoIs, IdleIs
  <2>3. \A v : Rekeying(v)' <=> Rekeying(v)
    BY <2>1, <2>2 DEF Rekeying
  <2> QED
    BY <2>1, <2>2, <2>3 DEF KeyInv, Changing, At
<1> QED
  BY <1>2, <1>3, <1>4

LEMMA KeyStore ==
    ASSUME TypeInv, KeyInv, NEW t \in Threads, Store(t)
    PROVE  KeyInv'
<1>1. /\ th[t].pc = "store" /\ th[t].seen \in Row /\ \A s \in Threads \ {t} : th'[s] = th[s]
      /\ user \in [Users -> User]
  BY StoreIs DEF TypeInv, StateTypes
<1>2. PICK u \in Users :
        /\ th'[t].pc = Begins(th[t].op)
        /\ \/ user' = user /\ outdated' = outdated
           \/ /\ \A s \in Threads : th[s].at # u
              /\ user' = [user EXCEPT ![u] = Loaded(th[t])]
              /\ outdated \ {u} \subseteq outdated'
  BY StoreIs
<1>3. ~Changing(th[t]) /\ ~Changing(th'[t])
  BY <1>1, <1>2, BeginsIs DEF Changing
<1>4. CASE user' = user /\ outdated' = outdated
  BY <1>1, <1>3, <1>4, KeyStays
<1>5. CASE /\ \A s \in Threads : th[s].at # u
           /\ user' = [user EXCEPT ![u] = Loaded(th[t])]
           /\ outdated \ {u} \subseteq outdated'
  <2>1. user'[u].version = user'[u].pwd /\ \A v \in Users \ {u} : user'[v] = user[v]
    BY <1>1, <1>5 DEF Loaded
  <2>2. \A v : Rekeying(v)' <=> Rekeying(v)
    BY <1>1, <1>3 DEF Rekeying, Changing
  <2>3. \A v \in Users : user'[v].version = user'[v].pwd \/ Rekeying(v)' \/ v \in outdated'
    BY <1>5, <2>1, <2>2 DEF KeyInv
  <2>4. \A s \in Threads : Changing(th[s]) => th[s].at \in Users \ {u}
    BY <1>5 DEF TypeInv, ThreadsInv, Suits, Changing
  <2>5. ASSUME NEW s \in Threads, Changing(th'[s])
        PROVE  /\ s # t /\ th'[s] = th[s] /\ user'[th[s].at] = user[th[s].at]
               /\ th[s].at \in outdated => th[s].at \in outdated'
    BY <1>1, <1>3, <1>5, <2>1, <2>4, <2>5
  <2> QED
    BY <2>3, <2>5 DEF KeyInv, At
<1> QED
  BY <1>2, <1>4, <1>5

LEMMA KeyStep ==
    ASSUME TypeInv, KeyInv, NEW t \in Threads, Step(t)
    PROVE  KeyInv'
<1>1. CASE Store(t) \/ Version(t) \/ Hash(t) \/ Save(t)
  BY <1>1, KeyStore, KeyPassword
<1>2. CASE ~(Store(t) \/ Version(t) \/ Hash(t) \/ Save(t))
  <2>0. ThreadsInv /\ th[t] \in Tasks
    BY DEF TypeInv, ThreadsInv
  <2>1. /\ \A u \in Users : user'[u].version = user[u].version /\ user'[u].pwd = user[u].pwd
        /\ Goes(t)
    BY <1>2, SameKeys, StepTypes
  <2>2. \A s \in Threads : Changing(th[s]) => th[s].at \in Users
    BY DEF TypeInv, ThreadsInv, Suits, Changing
  <2>3. ~Changing(th[t]) /\ outdated \subseteq outdated'
    BY <1>2 DEF Step, LoadHit, Query, Verify, Issue, CheckVersion, CheckRole, AskRetrieve,
           AskBind, CheckMail, CheckCode,
         CheckBind, WriteMail, SetMail, WriteRole, SetRole, Delete, Evict, At, Changing
  <2>4. \/ Over(t)
        \/ \E l \in {"issue", "vet", "allowed", "redeem", "write", "mail", "role", "evict"} : Goto(t, l)
        \/ Set(t, [th[t] EXCEPT !.pc = Begins(th[t].op), !.at = cached])
        \/ Set(t, [th[t] EXCEPT !.pc = "store", !.seen = row])
    BY <1>2 DEF Step, LoadHit, Query, Verify, Issue, CheckVersion, CheckRole, AskRetrieve,
           AskBind, CheckMail, CheckCode,
         CheckBind, WriteMail, SetMail, WriteRole, SetRole, Delete, Evict
  <2>5. ~Changing(th'[t])
    <3>1. CASE Over(t)
      BY <2>0, <3>1, OverIs, IdleIs DEF Changing
    <3>2. CASE \E l \in {"issue", "vet", "allowed", "redeem", "write", "mail", "role", "evict"} : Goto(t, l)
      BY <2>0, <3>2, GotoIs DEF Changing
    <3>3. CASE Set(t, [th[t] EXCEPT !.pc = Begins(th[t].op), !.at = cached])
      <4>1. th'[t] = [th[t] EXCEPT !.pc = Begins(th[t].op), !.at = cached]
        BY <2>0, <3>3, SetIs
      <4>2. th'[t].pc = Begins(th[t].op)
        BY <2>0, <4>1 DEF Tasks
      <4> QED
        BY <4>2, BeginsIs DEF Changing
    <3>4. CASE Set(t, [th[t] EXCEPT !.pc = "store", !.seen = row])
      <4>1. th'[t] = [th[t] EXCEPT !.pc = "store", !.seen = row]
        BY <2>0, <3>4, SetIs
      <4> QED
        BY <2>0, <4>1 DEF Tasks, Changing
    <3> QED
      BY <2>4, <3>1, <3>2, <3>3, <3>4
  <2> QED
    BY <2>1, <2>2, <2>3, <2>5, KeyStays DEF Goes
<1> QED
  BY <1>1, <1>2

-----------------------------------------------------------------------------
(* The user in the cache and the account in the database. *)

\* What a thread has written is in the database until another writes it, which makes its user
\* outdated.
Written(t) ==
    /\ At(t, "mail") => row = Gone \/ row.mail = NewMail(t) \/ th[t].at \in outdated
    /\ At(t, "role") => row = Gone \/ row.role = RoleOf(th[t].op) \/ th[t].at \in outdated

\* Field by field, the user has what the account has, or a thread is about to tell it.
Told ==
    cached # None /\ row # Gone /\ cached \notin outdated =>
        /\ \/ user[cached].version = row.pwd /\ user[cached].pwd = row.pwd
           \/ \E t \in Threads : Changing(th[t]) /\ th[t].at = cached
        /\ user[cached].mail = row.mail \/ \E t \in Threads : At(t, "mail")
        /\ user[cached].role = row.role \/ \E t \in Threads : At(t, "role")

ToldInv == Told /\ \A t \in Threads : Written(t)

\* Steps that touch neither the account nor its user objects.
LEMMA ToldStays ==
    ASSUME ToldInv, NEW t \in Threads, \A s \in Threads \ {t} : th'[s] = th[s],
           th[t].pc \notin {"mail", "role"}, ~Changing(th[t]), th'[t].pc \notin {"mail", "role"},
           row' = row, user' = user, outdated \subseteq outdated', (cached' = cached \/ cached' = None)
    PROVE  ToldInv'
<1>1. Told'
  <2> SUFFICES ASSUME cached' # None, row # Gone, cached' \notin outdated'
               PROVE  /\ \/ user[cached].version = row.pwd /\ user[cached].pwd = row.pwd
                         \/ \E s \in Threads : Changing(th'[s]) /\ th'[s].at = cached
                      /\ user[cached].mail = row.mail \/ \E s \in Threads : At(s, "mail")'
                      /\ user[cached].role = row.role \/ \E s \in Threads : At(s, "role")'
    BY DEF Told
  <2>1. \A s \in Threads : \/ Changing(th[s]) \/ At(s, "mail") \/ At(s, "role")
                           => th'[s] = th[s]
    BY DEF At
  <2> QED
    BY <2>1 DEF ToldInv, Told, At
<1>2. \A s \in Threads : Written(s)'
  BY DEF ToldInv, Written, NewMail, At
<1> QED
  BY <1>1, <1>2 DEF ToldInv

LEMMA ToldPassword ==
    ASSUME TypeInv, KeyInv, ToldInv, NEW t \in Threads, Version(t) \/ Hash(t) \/ Save(t)
    PROVE  ToldInv'
<1>0. /\ ThreadsInv /\ th[t] \in Tasks /\ Suits(th[t]) /\ user \in [Users -> User]
      /\ row \in Row \cup {Gone} /\ cached \in Users \cup {None}
  BY DEF TypeInv, ThreadsInv, StateTypes
<1> DEFINE u == th[t].at
<1>1. /\ u \in Users /\ th[t].pc \in {"allowed", "hash", "save"} /\ cached' = cached
  BY <1>0 DEF Suits, Version, Hash, Save, At
<1>2. CASE Version(t) \/ Hash(t)
  <2>1. /\ th'[t].pc \in {"hash", "save"} /\ th'[t].at = u
        /\ \A s \in Threads \ {t} : th'[s] = th[s]
        /\ row' = row /\ outdated \subseteq outdated'
    BY <1>0, <1>2, GotoIs DEF Version, Hash
  <2>2. /\ \A v \in Users \ {u} : user'[v] = user[v]
        /\ user'[u].mail = user[u].mail /\ user'[u].role = user[u].role
    <3>1. \/ user' = [user EXCEPT ![u].version = th[t].pwd]
          \/ user' = [user EXCEPT ![u].pwd = th[t].pwd]
      BY <1>2 DEF Version, Hash
    <3>2. user'[u] \in {[user[u] EXCEPT !.version = th[t].pwd], [user[u] EXCEPT !.pwd = th[t].pwd]}
      BY <1>0, <1>1, <3>1
    <3>3. user[u] \in User
      BY <1>0, <1>1
    <3>4. user'[u].mail = user[u].mail /\ user'[u].role = user[u].role
      BY <3>2, <3>3 DEF User
    <3>5. \A v \in Users \ {u} : user'[v] = user[v]
      BY <1>0, <1>1, <3>1
    <3> QED
      BY <3>4, <3>5
  <2>3. \A s \in Threads : Written(s)'
    BY <1>1, <2>1 DEF ToldInv, Written, NewMail, At
  <2>4. \A s \in Threads : Changing(th[s]) => Changing(th'[s]) /\ th'[s].at = th[s].at
    BY <2>1 DEF Changing
  <2>5. \A s \in Threads : (At(s, "mail") => At(s, "mail")') /\ (At(s, "role") => At(s, "role")')
    BY <1>1, <2>1 DEF At
  <2>6. Changing(th'[t])
    BY <2>1 DEF Changing
  <2> HIDE DEF u
  <2>7. CASE cached = u
    <3>1. \E s \in Threads : Changing(th'[s]) /\ th'[s].at = cached
      BY <2>1, <2>6, <2>7
    <3> QED
      BY <1>1, <2>1, <2>2, <2>3, <2>5, <2>7, <3>1 DEF ToldInv, Told
  <2>8. CASE cached # u
    <3>1. cached # None => user'[cached] = user[cached]
      BY <1>0, <2>2, <2>8
    <3> QED
      BY <1>1, <2>1, <2>3, <2>4, <2>5, <3>1 DEF ToldInv, Told
  <2> QED
    BY <2>7, <2>8
<1>3. CASE Save(t)
  <2>1. /\ th[t].pc = "save" /\ user' = user
        /\ (Over(t) \/ Goto(t, "issue"))
    BY <1>3 DEF Save, At
  <2>2. th'[t].pc \in {"idle", "issue"} /\ \A s \in Threads \ {t} : th'[s] = th[s]
    BY <1>0, <2>1, OverIs, GotoIs, IdleIs
  <2>3. \A s \in Threads : /\ At(s, "mail")' <=> At(s, "mail")
                           /\ At(s, "role")' <=> At(s, "role")
    BY <1>1, <2>2 DEF At
  <2>4. CASE row # Gone /\ row' = [row EXCEPT !.pwd = th[t].pwd] /\ outdated' = outdated \cup Other(t)
    <3>1. row'.pwd = th[t].pwd /\ row'.mail = row.mail /\ row'.role = row.role
      BY <1>0, <2>4 DEF Row
    <3>2. \A s \in Threads : Written(s)'
      BY <2>2, <2>3, <2>4, <3>1 DEF ToldInv, Written, NewMail, At
    <3>3. \/ user[u].version = th[t].pwd /\ user[u].pwd = th[t].pwd
          \/ u \in outdated
      BY <2>1 DEF KeyInv, Changing, At
    <3>4. cached # None /\ cached # u => cached \in outdated'
      BY <2>4 DEF Other
    <3> HIDE DEF u
    <3> QED
      BY <1>1, <2>1, <2>3, <2>4, <3>1, <3>2, <3>3, <3>4 DEF ToldInv, Told
  <2>5. CASE row' = row /\ outdated' = outdated \cup {u}
    <3>1. \A s \in Threads : Written(s)'
      BY <2>2, <2>3, <2>5 DEF ToldInv, Written, NewMail, At
    <3>2. cached # u => \A s \in Threads : Changing(th[s]) /\ th[s].at = cached => th'[s] = th[s]
      BY <2>2
    <3> HIDE DEF u
    <3> QED
      BY <1>1, <2>1, <2>3, <2>5, <3>1, <3>2 DEF ToldInv, Told
  <2> QED
    BY <1>3, <2>4, <2>5 DEF Save
<1> QED
  BY <1>2, <1>3

LEMMA ToldField ==
    ASSUME TypeInv, ToldInv, NEW t \in Threads, WriteMail(t) \/ SetMail(t) \/ WriteRole(t) \/ SetRole(t)
    PROVE  ToldInv'
<1>0. /\ ThreadsInv /\ th[t] \in Tasks /\ Suits(th[t]) /\ user \in [Users -> User]
      /\ row \in Row \cup {Gone} /\ cached \in Users \cup {None}
  BY DEF TypeInv, ThreadsInv, StateTypes
<1> DEFINE u == th[t].at
<1>1. /\ u \in Users /\ th[t].pc \in {"write", "allowed", "mail", "role"} /\ cached' = cached
      /\ ~Changing(th[t])
  BY <1>0 DEF Suits, WriteMail, SetMail, WriteRole, SetRole, At, Changing
<1>2. CASE Over(t) /\ row' = row /\ user' = user /\ outdated' = outdated
           /\ th[t].pc \in {"write", "allowed"}
  BY <1>0, <1>1, <1>2, OverIs, IdleIs, ToldStays
<1>3. ASSUME NEW l \in {"mail", "role"}, NEW f, row # Gone, user' = user, Goto(t, l),
             th[t].pc \in {"write", "allowed"},
             outdated' = outdated \cup {th[s].at : s \in {q \in Threads : th[q].pc = l}},
             \/ l = "mail" /\ f = NewMail(t) /\ row' = [row EXCEPT !.mail = f]
             \/ l = "role" /\ f = RoleOf(th[t].op) /\ row' = [row EXCEPT !.role = f]
      PROVE  ToldInv'
  <2>1. /\ row'.pwd = row.pwd
        /\ l = "mail" => row'.mail = f /\ row'.role = row.role
        /\ l = "role" => row'.role = f /\ row'.mail = row.mail
    BY <1>0, <1>3 DEF Row
  <2>2. /\ th'[t].pc = l /\ th'[t].at = u /\ th'[t].op = th[t].op /\ th'[t].code = th[t].code
        /\ \A s \in Threads \ {t} : th'[s] = th[s]
    BY <1>0, <1>3, GotoIs
  <2>3. \A s \in Threads : Written(s)'
    <3>1. Written(t)'
      BY <1>3, <2>1, <2>2 DEF Written, NewMail, At
    <3>2. ASSUME NEW s \in Threads \ {t}
          PROVE  Written(s)'
      <4>1. th[s].pc = l => th[s].at \in outdated'
        BY <1>3
      <4>2. Written(s) /\ outdated \subseteq outdated' /\ th'[s] = th[s]
        BY <1>3, <2>2 DEF ToldInv
      <4> QED
        BY <1>3, <2>1, <4>1, <4>2 DEF Written, NewMail, At
    <3> QED
      BY <3>1, <3>2
  <2>4. \A s \in Threads : Changing(th[s]) => th'[s] = th[s]
    BY <1>1, <2>2
  <2>5. \A s \in Threads : (At(s, "mail") => At(s, "mail")') /\ (At(s, "role") => At(s, "role")')
    BY <1>3, <2>2 DEF At
  <2>6. At(t, l)'
    BY <2>2 DEF At
  <2> QED
    BY <1>1, <1>3, <2>1, <2>3, <2>4, <2>5, <2>6 DEF ToldInv, Told
<1>4. ASSUME NEW f, Over(t), row' = row, outdated' = outdated \cup Other(t),
             \/ /\ th[t].pc = "mail" /\ f = NewMail(t)
                /\ user' = [user EXCEPT ![u].mail = f]
             \/ /\ th[t].pc = "role" /\ f = RoleOf(th[t].op)
                /\ user' = [user EXCEPT ![u].role = f]
      PROVE  ToldInv'
  <2>1. user'[u] \in {[user[u] EXCEPT !.mail = f], [user[u] EXCEPT !.role = f]}
    BY <1>0, <1>1, <1>4
  <2>2. user[u] \in User
    BY <1>0, <1>1
  <2>3. user'[u].version = user[u].version /\ user'[u].pwd = user[u].pwd
    BY <2>1, <2>2 DEF User
  <2>4. /\ th[t].pc = "mail" => user'[u].mail = f /\ user'[u].role = user[u].role
        /\ th[t].pc = "role" => user'[u].role = f /\ user'[u].mail = user[u].mail
    BY <1>0, <1>1, <1>4, <2>2 DEF User
  <2>5. th'[t] = Idle /\ \A s \in Threads \ {t} : th'[s] = th[s]
    BY <1>0, <1>4, OverIs
  <2>6. \A s \in Threads : Written(s)'
    BY <1>4, <2>5, IdleIs DEF ToldInv, Written, NewMail, At
  <2>7. \A s \in Threads : Changing(th[s]) => th'[s] = th[s]
    BY <1>1, <2>5
  <2>8. /\ th[t].pc = "mail" => row = Gone \/ row.mail = f \/ u \in outdated
        /\ th[t].pc = "role" => row = Gone \/ row.role = f \/ u \in outdated
    BY <1>4 DEF ToldInv, Written, At
  <2>9. /\ th[t].pc = "mail" => \A s \in Threads : At(s, "role") => At(s, "role")'
        /\ th[t].pc = "role" => \A s \in Threads : At(s, "mail") => At(s, "mail")'
    BY <2>5 DEF At
  <2> HIDE DEF u
  <2>10. CASE cached = u
    BY <1>1, <1>4, <2>3, <2>4, <2>6, <2>7, <2>8, <2>9, <2>10 DEF ToldInv, Told
  <2>11. CASE cached # u
    <3>1. cached # None => cached \in outdated'
      BY <1>4, <2>11 DEF Other, u
    <3> QED
      BY <1>1, <2>6, <3>1 DEF ToldInv, Told
  <2> QED
    BY <2>10, <2>11
<1>5. CASE WriteMail(t) \/ WriteRole(t)
  BY <1>2, <1>3, <1>5 DEF WriteMail, WriteRole, Movers, Promoters, At
<1>6. CASE SetMail(t) \/ SetRole(t)
  BY <1>4, <1>6 DEF SetMail, SetRole, At
<1> QED
  BY <1>5, <1>6

LEMMA ToldStore ==
    ASSUME TypeInv, ToldInv, NEW t \in Threads, Store(t)
    PROVE  ToldInv'
<1>1. /\ th[t].pc = "store" /\ th[t].seen \in Row /\ \A s \in Threads \ {t} : th'[s] = th[s]
      /\ row' = row /\ user \in [Users -> User]
  BY StoreIs DEF TypeInv, StateTypes
<1>2. PICK u \in Users :
        /\ cached' = u /\ th'[t].pc = Begins(th[t].op)
        /\ \/ cached = u /\ user' = user /\ outdated' = outdated
           \/ /\ \A s \in Threads : th[s].at # u
              /\ user' = [user EXCEPT ![u] = Loaded(th[t])]
              /\ outdated' = IF th[t].seen = row THEN outdated \ {u} ELSE outdated \cup {u}
  BY StoreIs
<1>3. ~Changing(th[t]) /\ th'[t].pc \notin {"mail", "role"}
  BY <1>1, <1>2, BeginsIs DEF Changing
<1>4. CASE cached = u /\ user' = user /\ outdated' = outdated
  BY <1>1, <1>2, <1>3, <1>4, ToldStays
<1>5. CASE /\ \A s \in Threads : th[s].at # u
           /\ user' = [user EXCEPT ![u] = Loaded(th[t])]
           /\ outdated' = IF th[t].seen = row THEN outdated \ {u} ELSE outdated \cup {u}
  <2>1. \A s \in Threads : Written(s)'
    <3>1. \A s \in Threads : th[s].at \in outdated => th[s].at \in outdated'
      BY <1>5
    <3> QED
      BY <1>1, <1>3, <3>1 DEF ToldInv, Written, NewMail, At
  <2>2. u \notin outdated' => user'[u] = Loaded(th[t]) /\ th[t].seen = row
    BY <1>1, <1>5
  <2> QED
    BY <1>1, <1>2, <2>1, <2>2 DEF ToldInv, Told, Loaded
<1> QED
  BY <1>2, <1>4, <1>5

LEMMA ToldStep ==
    ASSUME TypeInv, KeyInv, ToldInv, NEW t \in Threads, Step(t)
    PROVE  ToldInv'
<1>0. ThreadsInv /\ th[t] \in Tasks
  BY DEF TypeInv, ThreadsInv
<1>1. CASE Version(t) \/ Hash(t) \/ Save(t) \/ Store(t)
  BY <1>1, ToldPassword, ToldStore
<1>2. CASE WriteMail(t) \/ SetMail(t) \/ WriteRole(t) \/ SetRole(t)
  BY <1>2, ToldField
<1>3. CASE Delete(t)
  <2>1. /\ row' = Gone /\ outdated' = outdated
        /\ (Over(t) \/ Goto(t, "evict"))
    BY <1>3 DEF Delete
  <2>2. th'[t].pc \in {"idle", "evict"} /\ \A s \in Threads \ {t} : th'[s] = th[s]
    BY <1>0, <2>1, OverIs, GotoIs, IdleIs
  <2> QED
    BY <2>1, <2>2 DEF ToldInv, Told, Written, At
<1>4. CASE \/ Verify(t) \/ Issue(t) \/ CheckVersion(t) \/ CheckRole(t) \/ Evict(t)
           \/ AskRetrieve(t) \/ AskBind(t) \/ CheckMail(t) \/ CheckCode(t) \/ CheckBind(t)
  <2>1. /\ th[t].pc \notin {"mail", "role"} /\ ~Changing(th[t])
        /\ row' = row /\ user' = user /\ outdated' = outdated
        /\ (cached' = cached \/ cached' = None)
        /\ Over(t) \/ \E l \in {"issue", "vet", "allowed", "redeem", "write"} : Goto(t, l)
    BY <1>4 DEF Verify, Issue, CheckVersion, CheckRole, Evict, AskRetrieve, AskBind, CheckMail,
           CheckCode, CheckBind, At,
                Changing
  <2>2. th'[t].pc \notin {"mail", "role"} /\ \A s \in Threads \ {t} : th'[s] = th[s]
    BY <1>0, <2>1, OverIs, GotoIs, IdleIs
  <2> QED
    BY <2>1, <2>2, ToldStays
<1>5. CASE LoadHit(t) \/ Query(t)
  <2>1. /\ th[t].pc \notin {"mail", "role"} /\ ~Changing(th[t])
        /\ row' = row /\ user' = user /\ outdated' = outdated /\ cached' = cached
        /\ \/ Over(t) \/ Set(t, [th[t] EXCEPT !.pc = "store", !.seen = row])
           \/ Set(t, [th[t] EXCEPT !.pc = Begins(th[t].op), !.at = cached])
    BY <1>5 DEF LoadHit, Query, At, Changing
  <2>2. /\ \A s \in Threads \ {t} : th'[s] = th[s]
        /\ th'[t] \in {Idle, [th[t] EXCEPT !.pc = "store", !.seen = row],
                       [th[t] EXCEPT !.pc = Begins(th[t].op), !.at = cached]}
    BY <1>0, <2>1, OverIs, SetIs
  <2>3. th'[t].pc \in {"idle", "store", Begins(th[t].op)}
    BY <1>0, <2>2, IdleIs DEF Tasks
  <2> QED
    BY <2>1, <2>2, <2>3, BeginsIs, ToldStays
<1> QED
  BY <1>1, <1>2, <1>3, <1>4, <1>5 DEF Step

-----------------------------------------------------------------------------
(* Logins and tokens. *)

\* Who logs in has given the password whose version it reads, unless the password was changed
\* meanwhile.
LogsIn(t) ==
    th[t].pc \in {"verify", "issue"} =>
        \/ /\ ~Rekeying(th[t].at)
           /\ At(t, "issue") => user[th[t].at].version = th[t].pwd
        \/ t \in crossed \/ th[t].at \in outdated

LoginInv ==
    /\ \A t \in Threads : LogsIn(t)
    /\ \A t \in Threads : th[t].op \in ByToken => th[t].token \in tokens
    /\ TokenMatchesPassword

\* The thread that moves does not log in.
LEMMA LoginStays ==
    ASSUME TypeInv, LoginInv, NEW t \in Threads, \A s \in Threads \ {t} : th'[s] = th[s],
           th'[t].pc \notin {"verify", "issue"}, tokens' = tokens,
           th'[t].op \in ByToken => th'[t].token \in tokens,
           crossed \ {t} \subseteq crossed', outdated \subseteq outdated',
           \A u : Rekeying(u)' => Rekeying(u),
           \A u \in Users : user'[u].version = user[u].version
    PROVE  LoginInv'
<1>1. ASSUME NEW s \in Threads
      PROVE  LogsIn(s)'
  <2>1. CASE s = t
    BY <2>1 DEF LogsIn
  <2>2. CASE s # t
    <3>1. th[s].pc \in {"verify", "issue"} => th[s].at \in Users
      BY DEF TypeInv, ThreadsInv, Suits
    <3> QED
      BY <2>2, <3>1 DEF LoginInv, LogsIn, At
  <2> QED
    BY <2>1, <2>2
<1>2. TokenMatchesPassword'
  <2>1. t \notin tokens
    BY Constants DEF TypeInv, StateTypes
  <2> QED
    BY <2>1 DEF LoginInv, TokenMatchesPassword
<1> QED
  BY <1>1, <1>2 DEF LoginInv

LEMMA LoginStore ==
    ASSUME TypeInv, LoginInv, NEW t \in Threads, Store(t)
    PROVE  LoginInv'
<1>1. /\ th[t].pc = "store" /\ \A s \in Threads \ {t} : th'[s] = th[s]
      /\ tokens' = tokens /\ user \in [Users -> User]
  BY StoreIs DEF TypeInv, StateTypes
<1>2. PICK u \in Users :
        /\ th'[t].pc = Begins(th[t].op) /\ th'[t].at = u /\ th'[t].op = th[t].op
        /\ \/ user' = user /\ outdated' = outdated /\ crossed' = Crosses(t, u)
           \/ /\ \A s \in Threads : th[s].at # u
              /\ user' = [user EXCEPT ![u] = Loaded(th[t])]
              /\ outdated \ {u} \subseteq outdated' /\ crossed' = crossed \ {t}
  BY StoreIs
<1>3. th'[t].token = th[t].token
  BY IdleIs, LoadTypes, <1>1, <1>2, BeginsIs DEF Goes
<1>4. crossed \ {t} \subseteq crossed'
  BY <1>2 DEF Crosses
<1>5. \A v : Rekeying(v)' <=> Rekeying(v)
  BY <1>1, <1>2, BeginsIs DEF Rekeying
<1>6. LogsIn(t)'
  <2>1. th'[t].pc # "issue"
    BY <1>2, BeginsIs
  <2>2. Rekeying(u) => t \in crossed'
    BY <1>2 DEF Crosses, Rekeying
  <2> QED
    BY <1>2, <1>5, <2>1, <2>2 DEF LogsIn, At
<1>7. ASSUME NEW s \in Threads \ {t}
      PROVE  LogsIn(s)'
  <2>1. th[s].pc \in {"verify", "issue"} => th[s].at \in Users
    BY DEF TypeInv, ThreadsInv, Suits
  <2>2. \/ outdated' = outdated /\ user' = user
        \/ /\ th[s].at # u /\ outdated \ {u} \subseteq outdated'
           /\ \A v \in Users \ {u} : user'[v] = user[v]
    BY <1>1, <1>2
  <2> QED
    BY <1>1, <1>4, <1>5, <2>1, <2>2 DEF LoginInv, LogsIn, At
<1>8. TokenMatchesPassword'
  <2>1. t \notin tokens
    BY Constants DEF TypeInv, StateTypes
  <2> QED
    BY <1>1, <1>4, <2>1 DEF LoginInv, TokenMatchesPassword
<1> QED
  BY <1>1, <1>2, <1>3, <1>6, <1>7, <1>8 DEF LoginInv

LEMMA LoginIssue ==
    ASSUME TypeInv, KeyInv, LoginInv, NEW t \in Threads, Verify(t) \/ Issue(t)
    PROVE  LoginInv'
<1>0. /\ ThreadsInv /\ th[t] \in Tasks /\ Suits(th[t]) /\ user \in [Users -> User]
      /\ th[t].at \in Users /\ user' = user /\ outdated' = outdated
  BY DEF TypeInv, ThreadsInv, StateTypes, Suits, Verify, Issue, At
<1>1. CASE Over(t) /\ tokens' = tokens /\ crossed \ {t} \subseteq crossed'
  <2>1. th'[t] = Idle /\ \A s \in Threads \ {t} : th'[s] = th[s]
    BY <1>0, <1>1, OverIs
  <2>2. \A u : Rekeying(u)' => Rekeying(u)
    BY <2>1, IdleIs DEF Rekeying
  <2>3. th'[t].op \notin ByToken
    BY <2>1, IdleIs DEF ByToken
  <2> QED
    BY <1>0, <1>1, <2>1, <2>2, <2>3, IdleIs, LoginStays
<1>2. CASE Verify(t) /\ Goto(t, "issue")
  <2>1. /\ th[t].pc = "verify" /\ user[th[t].at].pwd = th[t].pwd
        /\ UNCHANGED <<tokens, crossed>>
    BY <1>0, <1>2, OverIs, GotoIs, IdleIs DEF Verify, At
  <2>2. /\ th'[t].pc = "issue" /\ th'[t].at = th[t].at /\ th'[t].op = th[t].op
        /\ th'[t].pwd = th[t].pwd /\ th'[t].token = th[t].token
        /\ \A s \in Threads \ {t} : th'[s] = th[s]
    BY <1>0, <1>2, GotoIs
  <2>3. \A u : Rekeying(u)' <=> Rekeying(u)
    BY <2>1, <2>2 DEF Rekeying
  <2>4. user[th[t].at].version = th[t].pwd \/ Rekeying(th[t].at) \/ th[t].at \in outdated
    BY <1>0, <2>1 DEF KeyInv
  <2>5. LogsIn(t)'
    BY <1>0, <2>1, <2>2, <2>3, <2>4 DEF LoginInv, LogsIn, At
  <2>6. \A s \in Threads \ {t} : LogsIn(s)'
    BY <1>0, <2>1, <2>2, <2>3 DEF LoginInv, LogsIn, At
  <2> QED
    BY <2>1, <2>2, <2>5, <2>6 DEF LoginInv, TokenMatchesPassword
<1>3. CASE Issue(t)
  <2> DEFINE token == [version |-> user[th[t].at].version, pwd |-> th[t].pwd]
  <2>1. /\ th[t].pc = "issue" /\ Over(t)
        /\ \/ tokens' = tokens /\ crossed' = crossed
           \/ /\ tokens' = tokens \cup {token}
              /\ crossed' = (crossed \ {t})
                   \cup (IF t \in crossed \/ th[t].at \in outdated THEN {token} ELSE {})
    BY <1>3 DEF Issue, At
  <2>2. th'[t] = Idle /\ \A s \in Threads \ {t} : th'[s] = th[s]
    BY <1>0, <2>1, OverIs
  <2>3. \A u : Rekeying(u)' => Rekeying(u)
    BY <2>2, IdleIs DEF Rekeying
  <2>4. crossed \ {t} \subseteq crossed' /\ tokens \subseteq tokens'
    BY <2>1
  <2>5. t \notin tokens
    BY Constants DEF TypeInv, StateTypes
  <2>6. token.version = user[th[t].at].version /\ token.pwd = th[t].pwd
    OBVIOUS
  <2> HIDE DEF token
  <2>7. token.version = token.pwd \/ t \in crossed \/ th[t].at \in outdated
    BY <2>1, <2>6 DEF LoginInv, LogsIn, At
  <2>8. TokenMatchesPassword'
    BY <2>1, <2>4, <2>5, <2>7 DEF LoginInv, TokenMatchesPassword
  <2>9. \A s \in Threads : LogsIn(s)'
    BY <1>0, <2>2, <2>3, <2>4, IdleIs DEF LoginInv, LogsIn, At
  <2>10. \A s \in Threads : th'[s].op \in ByToken => th'[s].token \in tokens'
    BY <2>2, <2>4, IdleIs DEF LoginInv, ByToken
  <2> QED
    BY <2>8, <2>9, <2>10 DEF LoginInv
<1> QED
  BY <1>1, <1>2, <1>3 DEF Verify

LEMMA LoginPassword ==
    ASSUME TypeInv, KeyInv, LoginInv, NEW t \in Threads, Version(t) \/ Save(t)
    PROVE  LoginInv'
<1>0. /\ ThreadsInv /\ th[t] \in Tasks /\ Suits(th[t]) /\ user \in [Users -> User]
      /\ th[t].at \in Users /\ th[t].op \in SetsPassword
  BY DEF TypeInv, ThreadsInv, StateTypes, Suits, Version, Save, At
<1> DEFINE u == th[t].at
<1>1. CASE Version(t)
  <2>1. /\ user' = [user EXCEPT ![u].version = th[t].pwd] /\ tokens' = tokens
        /\ crossed' = crossed \cup LoggingIn(u) /\ outdated \subseteq outdated'
        /\ th'[t].pc = "hash" /\ th'[t].at = u /\ th'[t].op = th[t].op
        /\ th'[t].token = th[t].token /\ \A s \in Threads \ {t} : th'[s] = th[s]
    BY <1>0, <1>1, GotoIs DEF Version
  <2>2. \A v \in Users \ {u} : user'[v] = user[v] /\ (Rekeying(v)' => Rekeying(v))
    BY <1>0, <2>1 DEF Rekeying
  <2>3. ASSUME NEW s \in Threads
        PROVE  LogsIn(s)'
    <3>1. CASE s = t
      BY <2>1, <3>1 DEF LogsIn
    <3>2. CASE s # t /\ th[s].at = u
      <4>1. th[s].pc \in {"verify", "issue"} => s \in crossed'
        BY <2>1, <3>2 DEF LoggingIn
      <4> QED
        BY <2>1, <3>2, <4>1 DEF LogsIn
    <3>3. CASE s # t /\ th[s].at # u
      <4>1. th[s].pc \in {"verify", "issue"} => th[s].at \in Users \ {u}
        BY <3>3 DEF TypeInv, ThreadsInv, Suits
      <4> QED
        BY <2>1, <2>2, <3>3, <4>1 DEF LoginInv, LogsIn, At
    <3> QED
      BY <3>1, <3>2, <3>3
  <2> QED
    BY <2>1, <2>3 DEF LoginInv, TokenMatchesPassword
<1>2. CASE Save(t)
  <2>1. /\ th[t].pc = "save" /\ user' = user /\ tokens' = tokens /\ crossed' = crossed
        /\ outdated \subseteq outdated' /\ (Over(t) \/ Goto(t, "issue"))
    BY <1>2 DEF Save, At
  <2>2. CASE Over(t)
    <3>1. th'[t] = Idle /\ \A s \in Threads \ {t} : th'[s] = th[s]
      BY <1>0, <2>2, OverIs
    <3>2. \A v : Rekeying(v)' => Rekeying(v)
      BY <3>1, IdleIs DEF Rekeying
    <3>3. th'[t].op \notin ByToken
      BY <3>1, IdleIs DEF ByToken
    <3> QED
      BY <2>1, <3>1, <3>2, <3>3, IdleIs, LoginStays
  <2>3. CASE Goto(t, "issue")
    <3>1. /\ th'[t].pc = "issue" /\ th'[t].at = u /\ th'[t].op = th[t].op
          /\ th'[t].pwd = th[t].pwd /\ th'[t].token = th[t].token
          /\ \A s \in Threads \ {t} : th'[s] = th[s]
      BY <1>0, <2>3, GotoIs
    <3>2. \A v : Rekeying(v)' <=> Rekeying(v)
      BY <2>1, <3>1 DEF Rekeying
    <3>3. user[u].version = th[t].pwd \/ u \in outdated
      BY <2>1 DEF KeyInv, Changing
    <3>4. ~Rekeying(u) \/ u \in outdated
      BY <2>1 DEF KeyInv, Changing, Rekeying
    <3>5. LogsIn(t)'
      BY <2>1, <3>1, <3>2, <3>3, <3>4 DEF LogsIn, At
    <3>6. \A s \in Threads \ {t} : LogsIn(s)'
      BY <2>1, <3>1, <3>2 DEF LoginInv, LogsIn, At
    <3> QED
      BY <2>1, <3>1, <3>5, <3>6 DEF LoginInv, TokenMatchesPassword
  <2> QED
    BY <2>1, <2>2, <2>3
<1> QED
  BY <1>1, <1>2

LEMMA LoginStep ==
    ASSUME TypeInv, KeyInv, LoginInv, NEW t \in Threads, Step(t)
    PROVE  LoginInv'
<1>0. ThreadsInv /\ th[t] \in Tasks /\ Suits(th[t]) /\ Goes(t) /\ user \in [Users -> User]
  BY StepTypes DEF TypeInv, ThreadsInv, StateTypes
<1>1. CASE Store(t) \/ Verify(t) \/ Issue(t) \/ Version(t) \/ Save(t)
  BY <1>1, LoginStore, LoginIssue, LoginPassword
<1>2. CASE ~(Store(t) \/ Verify(t) \/ Issue(t) \/ Version(t) \/ Save(t))
  <2>1. tokens' = tokens /\ crossed' = crossed /\ outdated \subseteq outdated'
    BY <1>2 DEF Step, LoadHit, Query, CheckVersion, CheckRole, Hash, AskRetrieve, AskBind,
           CheckMail, CheckCode,
         CheckBind, WriteMail, SetMail, WriteRole, SetRole, Delete, Evict
  <2>2. \A u \in Users : user'[u].version = user[u].version
    <3>1. CASE Hash(t)
      <4>1. user' = [user EXCEPT ![th[t].at].pwd = th[t].pwd]
        BY <3>1 DEF Hash
      <4> QED
        BY <1>0, <4>1 DEF User
    <3> QED
      BY <1>2, <3>1, SameKeys
  <2>3. \/ Over(t)
        \/ \E l \in {"save", "vet", "allowed", "redeem", "write", "mail", "role", "evict"} : Goto(t, l)
        \/ th[t].pc = "load" /\ Set(t, [th[t] EXCEPT !.pc = Begins(th[t].op), !.at = cached])
        \/ Set(t, [th[t] EXCEPT !.pc = "store", !.seen = row])
    BY <1>2 DEF Step, LoadHit, Query, CheckVersion, CheckRole, Hash, AskRetrieve, AskBind,
           CheckMail, CheckCode,
         CheckBind, WriteMail, SetMail, WriteRole, SetRole, Delete, Evict, At
  <2>4. th'[t].pc \notin {"verify", "issue", "hash"}
    <3>1. CASE Over(t)
      BY <1>0, <3>1, OverIs, IdleIs
    <3>2. CASE \E l \in {"save", "vet", "allowed", "redeem", "write", "mail", "role", "evict"} : Goto(t, l)
      BY <1>0, <3>2, GotoIs
    <3>3. CASE /\ th[t].pc = "load"
               /\ Set(t, [th[t] EXCEPT !.pc = Begins(th[t].op), !.at = cached])
      <4>1. th'[t] = [th[t] EXCEPT !.pc = Begins(th[t].op), !.at = cached]
        BY <1>0, <3>3, SetIs
      <4>2. th'[t].pc = Begins(th[t].op)
        BY <1>0, <4>1 DEF Tasks
      <4>3. th[t].op # "login"
        BY <1>0, <3>3 DEF Suits, ByName
      <4> QED
        BY <4>2, <4>3, BeginsIs
    <3>4. CASE Set(t, [th[t] EXCEPT !.pc = "store", !.seen = row])
      <4>1. th'[t] = [th[t] EXCEPT !.pc = "store", !.seen = row]
        BY <1>0, <3>4, SetIs
      <4> QED
        BY <1>0, <4>1 DEF Tasks
    <3> QED
      BY <2>3, <3>1, <3>2, <3>3, <3>4
  <2>5. \A u : Rekeying(u)' => Rekeying(u)
    BY <1>0, <2>4 DEF Rekeying, Goes
  <2>6. th'[t].op \in ByToken => th'[t].token \in tokens
    BY <1>0, IdleIs DEF Goes, LoginInv, ByToken
  <2> QED
    BY <1>0, <2>1, <2>2, <2>4, <2>5, <2>6, LoginStays DEF Goes
<1> QED
  BY <1>1, <1>2

-----------------------------------------------------------------------------
(* The account. *)

AccountsInv ==
    /\ TypeInv
    /\ MailInv
    /\ PinInv
    /\ KeyInv
    /\ ToldInv
    /\ LoginInv

LEMMA InitAccounts == Init => AccountsInv
<1> SUFFICES ASSUME Init
             PROVE  AccountsInv
  OBVIOUS
<1>1. /\ \A t \in Threads : th[t] = Idle
      /\ cached = None /\ row # Gone /\ row.pwd = 0
  <2>1. row \in Row
    BY InitTypes, Constants DEF Init, TypeInv, StateTypes, Row, Roles
  <2> QED
    BY <2>1, Constants DEF Init
<1>2. PinInv
  BY <1>1, IdleIs DEF PinInv, Holds, At
<1>3. KeyInv
  BY <1>1, IdleIs DEF KeyInv, Changing, Init
<1>4. ToldInv
  BY <1>1, IdleIs DEF ToldInv, Told, Written, At
<1>5. LoginInv
  <2>1. TokenMatchesPassword
    BY DEF Init, TokenMatchesPassword
  <2> QED
    BY <1>1, <2>1, IdleIs DEF LoginInv, LogsIn, ByToken
<1> QED
  BY <1>2, <1>3, <1>4, <1>5, InitTypes DEF AccountsInv

LEMMA StartAccounts ==
    ASSUME AccountsInv, NEW t \in Threads, NEW o \in Ops, NEW cred \in Credentials(o),
           Start(t, o, cred[1], cred[2], cred[3])
    PROVE  AccountsInv'
<1>0. TypeInv /\ mailed \subseteq Codes
  BY Numbered DEF AccountsInv
<1>1. /\ th[t].pc = "idle" /\ th'[t].pc \in {"query", "load"}
      /\ th'[t].op = o /\ th'[t].token = cred[1] /\ \A s \in Threads \ {t} : th'[s] = th[s]
      /\ UNCHANGED <<row, cached, user, tokens, outdated, crossed>>
  BY <1>0, StartTypes
<1>2. TypeInv' /\ MailInv' /\ PinInv'
  BY <1>0, StartTypes, StartMail, PinStart DEF AccountsInv
<1>3. ~Changing(th[t]) /\ ~Changing(th'[t])
  BY <1>1 DEF Changing
<1>4. KeyInv'
  BY <1>1, <1>3, KeyStays DEF AccountsInv
<1>5. ToldInv'
  BY <1>1, <1>3, ToldStays DEF AccountsInv
<1>6. LoginInv'
  <2>1. o \in ByToken => cred[1] \in tokens
    BY <1>0, CredentialTypes
  <2>2. \A u : Rekeying(u)' => Rekeying(u)
    BY <1>1 DEF Rekeying
  <2> QED
    BY <1>0, <1>1, <2>1, <2>2, LoginStays DEF AccountsInv
<1> QED
  BY <1>2, <1>4, <1>5, <1>6 DEF AccountsInv

LEMMA ExpireAccounts ==
    ASSUME AccountsInv, Expire
    PROVE  AccountsInv'
<1>1. UNCHANGED <<row, user, tokens, th, ops, outdated, crossed, box, mailed, spent>> /\ cached' = None
  BY DEF Expire, mailVars
<1>2. TypeInv' /\ PinInv'
  BY ExpireTypes, PinExpire DEF AccountsInv
<1>3. MailInv'
  BY <1>1 DEF AccountsInv, MailInv, Issued, Active, Brings, At
<1>4. KeyInv'
  BY <1>1 DEF AccountsInv, KeyInv, Changing, Rekeying, At
<1>5. ToldInv'
  BY <1>1 DEF AccountsInv, ToldInv, Told, Written, NewMail, At
<1>6. LoginInv'
  BY <1>1 DEF AccountsInv, LoginInv, LogsIn, Rekeying, TokenMatchesPassword, At
<1> QED
  BY <1>2, <1>3, <1>4, <1>5, <1>6 DEF AccountsInv

LEMMA NextAccounts ==
    ASSUME AccountsInv, [Next]_vars
    PROVE  AccountsInv'
<1>1. ASSUME NEW t \in Threads, Step(t)
      PROVE  AccountsInv'
  BY <1>1, StepTypes, StepMail, PinStep, KeyStep, ToldStep, LoginStep DEF AccountsInv
<1>2. ASSUME NEW t \in Threads, NEW o \in Ops, NEW cred \in Credentials(o),
             Start(t, o, cred[1], cred[2], cred[3])
      PROVE  AccountsInv'
  BY <1>2, StartAccounts
<1>3. CASE UNCHANGED vars
  <2>1. TypeInv' /\ MailInv'
    BY <1>3, NextTypes DEF AccountsInv
  <2>2. UNCHANGED <<row, cached, user, tokens, th, outdated, crossed>>
    BY <1>3 DEF vars
  <2>3. PinInv' /\ KeyInv'
    BY <2>2 DEF AccountsInv, PinInv, Holds, Evicting, KeyInv, Changing, Rekeying, At
  <2>4. ToldInv' /\ LoginInv'
    BY <2>2 DEF AccountsInv, ToldInv, Told, Written, NewMail, LoginInv, LogsIn, Rekeying, Changing,
                TokenMatchesPassword, At
  <2> QED
    BY <2>1, <2>3, <2>4 DEF AccountsInv
<1> QED
  BY <1>1, <1>2, <1>3, ExpireAccounts DEF Next, Finished

\* The invariant that the theorems below follow from: the types and the codes, who holds the user
\* in the cache, the passwords of user objects, what the cache is told, logins.
THEOREM AccountsKept == Spec => []AccountsInv
<1>1. AccountsInv /\ [Next]_vars => AccountsInv'
  BY NextAccounts
<1> QED
  BY <1>1, InitAccounts, PTL DEF Spec

\* The user in the cache while nobody changes the account.
LEMMA Settled ==
    ASSUME AccountsInv, cached # None, cached \notin outdated, ~Evicting
    PROVE  row # Gone /\ Told
BY DEF AccountsInv, PinInv, ToldInv

\* The user in the cache is the account, whatever requests cross: unless a change is under way,
\* or one of those that CacheTellsTruth names has made the object outdated (users.go:25-47).
THEOREM CacheIsAccount == Spec => []CacheTellsTruth
<1>1. AccountsInv => CacheTellsTruth
  <2> SUFFICES ASSUME AccountsInv, cached # None, cached \notin outdated,
                      \A t \in Threads : th[t].pc \notin {"role", "hash", "save", "mail", "evict"}
               PROVE  user[cached] = [version |-> row.pwd, pwd |-> row.pwd, role |-> row.role,
                                      mail |-> row.mail]
    BY DEF CacheTellsTruth
  <2>1. row # Gone /\ Told
    BY Settled DEF Evicting, At
  <2>2. user[cached] \in User
    BY DEF AccountsInv, TypeInv, StateTypes
  <2>3. /\ user[cached].version = row.pwd /\ user[cached].pwd = row.pwd
        /\ user[cached].mail = row.mail /\ user[cached].role = row.role
    BY <2>1 DEF Told, Changing, At
  <2> QED
    BY <2>2, <2>3 DEF User
<1> QED
  BY <1>1, AccountsKept, PTL

\* A token has the version of the password that its owner gave, unless the login crossed a change
\* of the password (user.go:72-91, handlers/user.go:84-96).
THEOREM TokensFit == Spec => []TokenMatchesPassword
<1>1. AccountsInv => TokenMatchesPassword
  BY DEF AccountsInv, LoginInv
<1> QED
  BY <1>1, AccountsKept, PTL

\* Only a thread itself passes its checks.
LEMMA WhoPasses ==
    ASSUME AccountsInv, [Next]_vars, NEW t \in Threads, th'[t].pc # th[t].pc,
           th[t].pc # "idle"
    PROVE  Step(t)
<1>1. ASSUME NEW s \in Threads, Step(s)
      PROVE  s = t
  BY <1>1, StepTypes DEF Goes, AccountsInv
<1>2. ASSUME NEW s \in Threads, NEW o \in Ops, NEW cred \in Credentials(o),
             Start(s, o, cred[1], cred[2], cred[3])
      PROVE  FALSE
  <2>1. mailed \subseteq Codes /\ TypeInv
    BY Numbered DEF AccountsInv
  <2>2. th[s].pc = "idle" /\ \A q \in Threads \ {s} : th'[q] = th[q]
    BY <1>2, <2>1, StartTypes
  <2> QED
    BY <2>2
<1>3. ~Expire /\ ~UNCHANGED vars
  BY DEF Expire, vars
<1> QED
  BY <1>1, <1>2, <1>3 DEF Next, Finished

\* A token passes only while it is of the account's password, and its request is let in only while
\* the account may act; the exceptions are those LetsInOnlyOwners names (auth.go:90-139).
THEOREM OnlyOwners == Spec => LetsInOnlyOwners
<1>0. ASSUME AccountsInv, [Next]_vars, NEW t \in Threads,
             \/ At(t, "validate") /\ th'[t].pc = "vet"
             \/ At(t, "vet") /\ th'[t].pc = "allowed"
      PROVE  /\ ThreadsInv /\ th[t] \in Tasks /\ Suits(th[t]) /\ Step(t) /\ ~Over(t)
             /\ th[t].at = cached => cached # None
  <2>1. ThreadsInv /\ th[t] \in Tasks /\ Suits(th[t])
    BY <1>0 DEF AccountsInv, TypeInv, ThreadsInv
  <2>2. Step(t)
    BY <1>0, <2>1, WhoPasses DEF At
  <2>3. ~Over(t)
    BY <1>0, <2>1, OverIs, IdleIs
  <2> QED
    BY <1>0, <2>1, <2>2, <2>3, Constants DEF Suits, At
<1>1. ASSUME AccountsInv, [Next]_vars, NEW t \in Threads, At(t, "validate"), th'[t].pc = "vet",
             th[t].token \notin crossed, th[t].at \notin outdated, th[t].at = cached,
             \A s \in Threads : th[s].pc \notin {"hash", "save", "evict"}
      PROVE  row.pwd = th[t].token.pwd
  <2>0. /\ ThreadsInv /\ th[t] \in Tasks /\ Suits(th[t]) /\ Step(t) /\ ~Over(t)
        /\ cached # None /\ th[t].pc = "validate"
    BY <1>0, <1>1 DEF At
  <2>1. CheckVersion(t)
    BY <1>1, <2>0 DEF Step, At, LoadHit, Query, Store, Verify, Issue, CheckRole, Version, Hash,
           Save,
       AskRetrieve, AskBind, CheckMail, CheckCode, CheckBind, WriteMail, SetMail, WriteRole, SetRole,
       Delete, Evict
  <2>2. user[cached].version = th[t].token.version
    BY <1>1, <2>0, <2>1 DEF CheckVersion
  <2>3. row # Gone /\ Told
    BY <1>1, <2>0, Settled DEF Evicting, At
  <2>4. user[cached].version = row.pwd
    BY <1>1, <2>0, <2>3 DEF Told, Changing, At
  <2>5. th[t].token.version = th[t].token.pwd
    BY <1>1, <2>0 DEF AccountsInv, LoginInv, TokenMatchesPassword, Suits
  <2> QED
    BY <2>2, <2>4, <2>5
<1>2. ASSUME AccountsInv, [Next]_vars, NEW t \in Threads, At(t, "vet"), th'[t].pc = "allowed",
             th[t].at \notin outdated, th[t].at = cached,
             \A s \in Threads : th[s].pc \notin {"role", "evict"}
      PROVE  MayAct(row.role)
  <2>0. /\ ThreadsInv /\ th[t] \in Tasks /\ Suits(th[t]) /\ Step(t) /\ ~Over(t)
        /\ cached # None /\ th[t].pc = "vet"
    BY <1>0, <1>2 DEF At
  <2>1. CheckRole(t)
    BY <1>2, <2>0 DEF Step, At, LoadHit, Query, Store, Verify, Issue, CheckVersion, Version, Hash,
       Save, AskRetrieve, AskBind, CheckMail, CheckCode, CheckBind, WriteMail, SetMail, WriteRole,
       SetRole, Delete, Evict
  <2>2. MayAct(user[cached].role)
    BY <1>2, <2>0, <2>1 DEF CheckRole
  <2>3. row # Gone /\ Told
    BY <1>2, <2>0, Settled DEF Evicting, At
  <2>4. user[cached].role = row.role
    BY <1>2, <2>0, <2>3 DEF Told, At
  <2> QED
    BY <2>2, <2>4
<1>3. AccountsInv /\ [Next]_vars =>
        [\A t \in Threads :
          /\ At(t, "validate") /\ th'[t].pc = "vet"
             => \/ row.pwd = th[t].token.pwd \/ th[t].token \in crossed
                \/ \E s \in Threads : th[s].pc \in {"hash", "save", "evict"}
                \/ th[t].at \in outdated \/ th[t].at # cached
          /\ At(t, "vet") /\ th'[t].pc = "allowed"
             => \/ MayAct(row.role)
                \/ \E s \in Threads : th[s].pc \in {"role", "evict"}
                \/ th[t].at \in outdated \/ th[t].at # cached]_vars
  BY <1>1, <1>2
<1> QED
  BY <1>3, AccountsKept, PTL DEF Spec, LetsInOnlyOwners

\* A code that was mailed is accepted once, and that of a request that resets the password is
\* looked at only if the account had its address when the two were compared; the exceptions are
\* those CodesWorkOnce names (user.go:561-566, email.go:368-393).
THEOREM CodesOnce == Spec => CodesWorkOnce
<1>0. ASSUME AccountsInv, [Next]_vars, NEW t \in Threads,
             \/ At(t, "code") /\ th'[t].pc = "redeem"
             \/ At(t, "redeem") /\ th'[t].pc = "allowed"
             \/ At(t, "allowed") /\ th'[t].pc = "write"
      PROVE  /\ TypeInv /\ MailInv /\ th[t] \in Tasks /\ Suits(th[t])
             /\ Step(t) /\ Goes(t) /\ ~Over(t)
  <2>1. TypeInv /\ MailInv /\ ThreadsInv /\ th[t] \in Tasks /\ Suits(th[t])
    BY <1>0 DEF AccountsInv, TypeInv, ThreadsInv
  <2>2. Step(t) /\ Goes(t)
    BY <1>0, <2>1, WhoPasses, StepTypes DEF At
  <2>3. ~Over(t)
    BY <1>0, <2>1, OverIs, IdleIs
  <2> QED
    BY <2>1, <2>2, <2>3
<1>1. ASSUME AccountsInv, [Next]_vars, NEW t \in Threads,
             \/ At(t, "redeem") /\ th'[t].pc = "allowed"
             \/ At(t, "allowed") /\ th'[t].pc = "write"
      PROVE  th[t].code \notin spent
  <2>0. /\ TypeInv /\ MailInv /\ ThreadsInv /\ th[t] \in Tasks /\ Suits(th[t])
        /\ Step(t) /\ Goes(t) /\ ~Over(t)
    BY <1>0, <1>1 DEF TypeInv
  <2>1. CheckCode(t) \/ CheckBind(t)
    <3>1. CASE At(t, "redeem")
      BY <2>0, <3>1 DEF Step, At, LoadHit, Query, Store, Verify, Issue, CheckVersion, CheckRole,
         Version, Hash, Save, AskRetrieve, AskBind, CheckMail, CheckBind, WriteMail, SetMail,
         WriteRole, SetRole, Delete, Evict
    <3>2. CASE At(t, "allowed") /\ th'[t].pc = "write"
      <4>1. ~(\E l \in {"hash", "mail", "role", "evict"} : Goto(t, l))
        BY <2>0, <3>2, GotoIs
      <4> QED
        BY <2>0, <3>2, <4>1 DEF Step, At, LoadHit, Query, Store, Verify, Issue, CheckVersion,
           CheckRole, Version, Hash, Save, AskRetrieve, AskBind, CheckMail, CheckCode, WriteMail,
           SetMail, WriteRole, SetRole, Delete, Evict
    <3> QED
      BY <1>1, <3>1, <3>2
  <2>2. Accept(th[t].code)
    BY <2>0, <2>1 DEF CheckCode, CheckBind
  <2>3. th[t].op \in {"retrieve", "bind"}
    BY <2>0, <2>1 DEF CheckCode, CheckBind, Suits, At
  <2> QED
    BY <2>0, <2>2, <2>3, CompareMail
<1>2. ASSUME AccountsInv, [Next]_vars, NEW t \in Threads, At(t, "code"), th'[t].pc = "redeem",
             \A s \in Threads : th[s].pc \notin {"mail", "evict"},
             th[t].at \notin outdated, th[t].at = cached
      PROVE  row.mail = th[t].code.mail
  <2>0. th[t] \in Tasks /\ Suits(th[t]) /\ Step(t) /\ ~Over(t)
    BY <1>0, <1>2
  <2>1. CheckMail(t)
    BY <1>2, <2>0 DEF Step, At, LoadHit, Query, Store, Verify, Issue, CheckVersion, CheckRole,
       Version, Hash, Save, AskRetrieve, AskBind, CheckCode, CheckBind, WriteMail, SetMail,
       WriteRole, SetRole, Delete, Evict
  <2>2. user[cached].mail = th[t].code.mail
    BY <1>2, <2>0, <2>1 DEF CheckMail
  <2>3. cached # None
    BY <1>2, <2>0, Constants DEF Suits, At
  <2>4. row # Gone /\ Told
    BY <1>2, <2>3, Settled DEF Evicting, At
  <2> QED
    BY <1>2, <2>2, <2>3, <2>4 DEF Told, At
<1>3. AccountsInv /\ [Next]_vars =>
        [\A t \in Threads :
          /\ \/ At(t, "redeem") /\ th'[t].pc = "allowed"
             \/ At(t, "allowed") /\ th'[t].pc = "write"
             => th[t].code \notin spent
          /\ At(t, "code") /\ th'[t].pc = "redeem"
             => \/ row.mail = th[t].code.mail
                \/ \E s \in Threads : th[s].pc \in {"mail", "evict"}
                \/ th[t].at \in outdated \/ th[t].at # cached]_vars
  BY <1>1, <1>2
<1> QED
  BY <1>3, AccountsKept, PTL DEF Spec, CodesWorkOnce
================================================================================
