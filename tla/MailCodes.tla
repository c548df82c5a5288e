------------------------------ MODULE MailCodes ------------------------------
(***************************************************************************)
(* The codes that internal/email/email.go sends by e-mail and keeps in     *)
(* memory for five minutes, one for each use and address: to retrieve a    *)
(* password, and to bind an address to the account.  The codes of a use    *)
(* and an address are numbered.  Accounts uses this module.                *)
(***************************************************************************)
EXTENDS Integers, FiniteSets

CONSTANT Mails    \* e-mail addresses

VARIABLES
    box,     \* emailCaptcha: the code kept for each use and address, or 0
    mailed,  \* the codes that were mailed
    spent    \* history: the codes that were accepted

mailVars == <<box, mailed, spent>>

Keys == {"retrieve", "bind"} \X Mails

Code(use, mail, nr) == [use |-> use, mail |-> mail, nr |-> nr]
KeyOf(code) == <<code.use, code.mail>>

\* The codes of a key that there have been.
Issued(key) == {c \in mailed \cup spent : KeyOf(c) = key}

\* LoadOrStore: the code that is kept is mailed again, unless its time is over, or else a
\* new one.
CodesFor(key) == ({box[key]} \ {0}) \cup {Cardinality(Issued(key)) + 1}

\* Send*CaptchaEmail: the code is kept even if the mail cannot be sent.
SendCode(use, mail) ==
    \E nr \in CodesFor(<<use, mail>>) :
        /\ box' = [box EXCEPT ![<<use, mail>>] = nr]
        /\ mailed' \in {mailed, mailed \cup {Code(use, mail, nr)}}
        /\ UNCHANGED spent

Fits(code) == box[KeyOf(code)] = code.nr

\* Verify*CaptchaEmail: CompareValueAndDelete.
Accept(code) ==
    /\ Fits(code)
    /\ box' = [box EXCEPT ![KeyOf(code)] = 0]
    /\ spent' = spent \cup {code}
    /\ UNCHANGED mailed

\* Another code is kept, or its five minutes are over.
Refuse(code) ==
    /\ box' = IF Fits(code) THEN [box EXCEPT ![KeyOf(code)] = 0] ELSE box
    /\ UNCHANGED <<mailed, spent>>
==============================================================================
