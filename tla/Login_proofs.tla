---------------------------- MODULE Login_proofs ----------------------------
(***************************************************************************)
(* Proofs about login, for any number of requests of any kinds: types, one *)
(* mail per throttle period, tokens that stay out once they ended, the     *)
(* rows of a member, the fate of a code, and whose browser it is.          *)
(***************************************************************************)
EXTENDS Login, FiniteSetTheorems, TLAPS

(***************************************************************************)
(* What a request has in hand at a call: the record it acts on, with a try *)
(* left where one is counted, and the user it acts for.                    *)
(***************************************************************************)
Routes == \A r \in Requests :
  /\ pc[r] \in {"ttl", "rewrite", "drop", "consume"} => seen[r] \in Record
  /\ pc[r] \in {"ttl", "rewrite"} => seen[r].attempts < MaxAttempts
  /\ pc[r] \in {"touch", "handle"} => who[r] \in Users
  /\ pc[r] = "clear" => who[r] \in Tokens

(***************************************************************************)
(* In every initial state nobody has anything in hand.                     *)
(***************************************************************************)
LEMMA InitTypes == Init => TypeOK /\ Routes
<1> SUFFICES ASSUME Init PROVE TypeOK /\ Routes
  OBVIOUS
<1>1. otp \in Record \cup {NoCode}
  BY LimitIsNat DEF Init, Record, Codes
<1>2. /\ newest \in Codes \cup {NoCode} /\ inbox \subseteq Codes
      /\ sess \in [Tokens -> Users \cup {NoUser}]
      /\ rows \subseteq Users /\ cookie \in Tokens \cup {NoToken}
  BY DEF Init, Codes, Tokens, Users
<1> QED BY <1>1, <1>2 DEF Init, TypeOK, Routes, Calls

(***************************************************************************)
(* What verify_otp read fits the call it makes next.                       *)
(***************************************************************************)
LEMMA AfterGetFits ==
  ASSUME NEW r \in Requests, otp \in Record \cup {NoCode}
  PROVE  /\ AfterGet(r) \in {"done", "drop", "ttl", "consume"}
         /\ AfterGet(r) # "done" => otp \in Record
         /\ AfterGet(r) = "ttl" => otp.attempts < MaxAttempts
<1>1. CASE otp = NoCode
  BY <1>1, NamesDiffer DEF AfterGet
<1>2. CASE otp # NoCode
  <2>1. otp \in Record /\ otp.attempts \in Nat
    BY <1>2, LimitIsNat DEF Record
  <2> QED BY <1>2, <2>1, LimitIsNat DEF AfterGet
<1> QED BY <1>1, <1>2

(***************************************************************************)
(* A counted record is a record: a request only counts below the limit.    *)
(***************************************************************************)
LEMMA CountedFits ==
  ASSUME TypeOK, Routes, NEW r \in Requests, pc[r] = "rewrite"
  PROVE  Counted(r) \in Record
<1>1. seen[r] \in Record /\ seen[r].attempts < MaxAttempts
  BY DEF Routes
<1> QED BY <1>1, LimitIsNat DEF Counted, Record, TypeOK

(***************************************************************************)
(* The calls about codes and mails keep types and routes.                  *)
(***************************************************************************)
LEMMA CodeSteps ==
  ASSUME TypeOK, Routes, NEW r \in Requests,
         \/ Throttle(r) \/ Store(r) \/ Mail(r) \/ Unthrottle(r)
         \/ Read(r) \/ Ttl(r) \/ Rewrite(r) \/ DropSpent(r) \/ Consume(r)
  PROVE  TypeOK' /\ Routes'
<1> USE DEF TypeOK, Routes, Calls, Goto, identity, mine, try, code
<1>1. CASE Throttle(r)
  BY <1>1 DEF Throttle
<1>2. CASE Store(r)
  <2>1. [code |-> r, attempts |-> 0, renewed |-> FALSE] \in Record
    BY LimitIsNat DEF Record, Codes
  <2> QED BY <1>2, <2>1 DEF Store
<1>3. CASE Mail(r)
  BY <1>3 DEF Mail, Mailed, Codes
<1>4. CASE Unthrottle(r)
  BY <1>4 DEF Unthrottle
<1>5. CASE Read(r)
  BY <1>5, AfterGetFits DEF Read
<1>6. CASE Ttl(r)
  BY <1>6 DEF Ttl
<1>7. CASE Rewrite(r)
  BY <1>7, CountedFits DEF Rewrite, Writes
<1>8. CASE DropSpent(r)
  BY <1>8 DEF DropSpent, Writes
<1>9. CASE Consume(r)
  BY <1>9 DEF Consume, Writes
<1> QED BY <1>1, <1>2, <1>3, <1>4, <1>5, <1>6, <1>7, <1>8, <1>9

(***************************************************************************)
(* Requests about sessions and cookies keep types and routes.              *)
(***************************************************************************)
LEMMA SessionSteps ==
  ASSUME TypeOK, Routes, NEW r \in Requests,
         \/ Send(r) \/ Arrive(r) \/ Load(r) \/ Touch(r) \/ Clear(r)
         \/ Issue(r) \/ Handle(r) \/ Forget(r) \/ Fail(r)
  PROVE  TypeOK' /\ Routes'
<1> USE DEF TypeOK, Routes, Calls, Goto, identity, mine, try, code
<1>0. r \in Tokens /\ r \in Users /\ Member \in Users
  BY DEF Tokens, Users
<1>1. CASE Send(r)
  <2>1. kind[r] \in {"request", "verify", "logout", "me", "create", "post"}
    BY KindsAreKnown
  <2>2. FirstCall[kind[r]] \in {"throttle", "get", "forget", "load"}
    BY <2>1 DEF FirstCall
  <2> QED BY <1>1, <2>2 DEF Send
<1>2. CASE Arrive(r)
  BY <1>2 DEF Arrive
<1>3. CASE Load(r)
  <2>1. UserOf(jar[r]) \in Users \cup {NoUser}
    BY DEF UserOf
  <2> QED BY <1>3, <2>1 DEF Load
<1>4. CASE Touch(r)
  <2>1. pc'[r] \in {"handle", "clear", "issue"} /\ (pc'[r] = "clear" => who[r] \in Tokens)
    BY <1>4 DEF Touch, IsGuest
  <2> QED BY <1>4, <2>1 DEF Touch, Touched
<1>5. CASE Clear(r)
  BY <1>5 DEF Clear
<1>6. CASE Issue(r)
  <2>1. NewUser(r) \in Users /\ Announced(r) \in Tokens \cup {NoToken}
    BY <1>0 DEF NewUser, Announced
  <2> QED BY <1>6, <1>0, <2>1 DEF Issue
<1>7. CASE Handle(r)
  BY <1>7 DEF Handle
<1>8. CASE Forget(r)
  BY <1>8 DEF Forget
<1>9. CASE Fail(r)
  BY <1>9 DEF Fail
<1> QED BY <1>1, <1>2, <1>3, <1>4, <1>5, <1>6, <1>7, <1>8, <1>9

(***************************************************************************)
(* So do the clocks of Redis.                                              *)
(***************************************************************************)
LEMMA ClockSteps ==
  ASSUME TypeOK, Routes,
         CodeLapses \/ ThrottleLapses \/ \E t \in Tokens : SessionLapses(t)
  PROVE  TypeOK' /\ Routes'
<1> USE DEF TypeOK, Routes, identity, mine, try, code
<1>1. CASE CodeLapses
  <2>1. otp.code \in Codes
    BY <1>1 DEF CodeLapses, Record
  <2> QED BY <1>1, <2>1 DEF CodeLapses
<1>2. CASE ThrottleLapses
  BY <1>2 DEF ThrottleLapses
<1>3. ASSUME NEW t \in Tokens, SessionLapses(t) PROVE TypeOK' /\ Routes'
  BY <1>3 DEF SessionLapses
<1> QED BY <1>1, <1>2, <1>3

(***************************************************************************)
(* Types and routes are invariant.                                         *)
(***************************************************************************)
THEOREM Inductive == Spec => [](TypeOK /\ Routes)
<1>1. Init => TypeOK /\ Routes
  BY InitTypes
<1>2. TypeOK /\ Routes /\ [Next]_vars => TypeOK' /\ Routes'
  <2>1. CASE UNCHANGED vars
    BY <2>1 DEF vars, TypeOK, Routes
  <2> QED BY <2>1, CodeSteps, SessionSteps, ClockSteps DEF Next, Step
<1> QED BY <1>1, <1>2, PTL DEF Spec

(***************************************************************************)
(* The variables keep their types: no counter passes OTP_MAX_ATTEMPTS and  *)
(* no request waits at a call its handler does not make.                   *)
(***************************************************************************)
THEOREM TypeCorrect == Spec => []TypeOK
  BY Inductive, PTL

-----------------------------------------------------------------------------
(* One mail per throttle period *)

InMail(r) == pc[r] \in {"store", "mail", "unthrottle"}

(***************************************************************************)
(* The throttle lets one request at a time reach the mail, and outlives a  *)
(* mail that was sent unless its call raised.                              *)
(***************************************************************************)
OneMailer ==
  ~late => /\ mails <= 1 + doubted /\ (~throttle => mails <= doubted)
           /\ \A r \in Requests : InMail(r) => throttle /\ mails <= doubted
           /\ \A r, q \in Requests : InMail(r) /\ InMail(q) => r = q

(***************************************************************************)
(* Calls that have no part in sending leave the mailer alone.              *)
(***************************************************************************)
LEMMA MailSteps ==
  ASSUME TypeOK, OneMailer, NEW r \in Requests,
         Throttle(r) \/ Store(r) \/ Mail(r) \/ Unthrottle(r)
  PROVE  OneMailer'
<1> USE DEF TypeOK, OneMailer, InMail, Goto
<1>1. CASE Throttle(r)
  BY <1>1 DEF Throttle
<1>2. CASE Store(r)
  BY <1>2 DEF Store
<1>3. CASE Mail(r)
  <2>1. \/ mails' = mails /\ doubted' = doubted
        \/ mails' = mails + 1 /\ doubted' = doubted + 1
        \/ mails' = mails + 1 /\ doubted' = doubted /\ pc'[r] = "done"
    BY <1>3 DEF Mail, Mailed
  <2>2. throttle' = throttle /\ late' = late /\ \A q \in Requests : InMail(q)' => InMail(q)
    BY <1>3 DEF Mail
  <2>3. InMail(r)
    BY <1>3 DEF Mail
  <2>4. ~late => throttle /\ mails <= doubted /\ \A q \in Requests : InMail(q) => q = r
    BY <2>3
  <2> QED BY <2>1, <2>2, <2>4
<1>4. CASE Unthrottle(r)
  BY <1>4 DEF Unthrottle
<1> QED BY <1>1, <1>2, <1>3, <1>4

(***************************************************************************)
(* No other step touches the throttle or the count, or brings a request to *)
(* the mail; a throttle that runs out early is noted in late.              *)
(***************************************************************************)
LEMMA OtherMailSteps ==
  ASSUME TypeOK, OneMailer, [Next]_vars,
         ~\E r \in Requests : Throttle(r) \/ Store(r) \/ Mail(r) \/ Unthrottle(r)
  PROVE  OneMailer'
<1> USE DEF TypeOK, OneMailer, InMail, Goto, code
<1>1. ASSUME NEW r \in Requests, Send(r) PROVE OneMailer'
  <2>1. kind[r] \in {"request", "verify", "logout", "me", "create", "post"}
    BY KindsAreKnown
  <2>2. FirstCall[kind[r]] \in {"throttle", "get", "forget", "load"}
    BY <2>1 DEF FirstCall
  <2> QED BY <1>1, <2>2 DEF Send
<1>2. ASSUME NEW r \in Requests, Read(r) PROVE OneMailer'
  BY <1>2, AfterGetFits DEF Read
<1>3. ASSUME NEW r \in Requests,
             Ttl(r) \/ Rewrite(r) \/ DropSpent(r) \/ Consume(r)
      PROVE  OneMailer'
  BY <1>3 DEF Ttl, Rewrite, DropSpent, Consume, Writes
<1>4. ASSUME NEW r \in Requests, Arrive(r) \/ Load(r) \/ Clear(r) PROVE OneMailer'
  BY <1>4 DEF Arrive, Load, Clear
<1>5. ASSUME NEW r \in Requests, Touch(r) PROVE OneMailer'
  <2>1. pc'[r] \in {"handle", "clear", "issue"}
    BY <1>5 DEF Touch
  <2> QED BY <1>5, <2>1 DEF Touch
<1>6. ASSUME NEW r \in Requests, Issue(r) \/ Handle(r) \/ Forget(r) \/ Fail(r)
      PROVE  OneMailer'
  BY <1>6 DEF Issue, Handle, Forget, Fail
<1>7. CASE CodeLapses
  BY <1>7 DEF CodeLapses
<1>8. CASE ThrottleLapses
  <2>1. ~late' => ~late /\ \A r \in Requests : ~InMail(r)
    BY <1>8, Zenon DEF ThrottleLapses
  <2>2. mails' = 0 /\ doubted' = 0 /\ pc' = pc
    BY <1>8 DEF ThrottleLapses
  <2> QED BY <2>1, <2>2
<1>9. ASSUME NEW t \in Tokens, SessionLapses(t) PROVE OneMailer'
  BY <1>9 DEF SessionLapses
<1>10. CASE UNCHANGED vars
  BY <1>10 DEF vars
<1> QED
  BY <1>1, <1>2, <1>3, <1>4, <1>5, <1>6, <1>7, <1>8, <1>9, <1>10 DEF Next, Step

(***************************************************************************)
(* However many requests ask for a code at once and whatever mails fail, a *)
(* throttle period sees one mail and one more for each mail whose call     *)
(* raised although it went out, unless a mail outlasts the period.         *)
(***************************************************************************)
THEOREM MailsAreSpaced == Spec => []MailsSpaced
<1>1. Init => OneMailer
  BY DEF Init, OneMailer, InMail
<1>2. TypeOK /\ OneMailer /\ [Next]_vars => OneMailer'
  BY MailSteps, OtherMailSteps
<1>3. OneMailer => MailsSpaced
  BY DEF OneMailer, MailsSpaced
<1> QED BY <1>1, <1>2, <1>3, TypeCorrect, PTL DEF Spec

-----------------------------------------------------------------------------
(* Tokens *)

Unissued(r) == pc[r] \notin {"answered", "handle", "done"}

(***************************************************************************)
(* A token nobody was given yet is nowhere: not in Redis, in no browser    *)
(* and in no request; and an answer sets a token of its own or none.       *)
(***************************************************************************)
Fresh == \A r \in Requests :
  /\ reply[r] \in {r, NoToken}
  /\ Unissued(r) =>
       /\ reply[r] = NoToken /\ sess[r] = NoUser /\ cookie # r /\ r \notin ended
       /\ \A q \in Requests : jar[q] # r

(***************************************************************************)
(* The only step that gives a token a user is the one that draws it.       *)
(***************************************************************************)
LEMMA FreshStep == TypeOK /\ Fresh /\ EndedStaysOut /\ [Next]_vars
                     => Fresh' /\ EndedStaysOut'
<1> SUFFICES ASSUME TypeOK, Fresh, EndedStaysOut, [Next]_vars
             PROVE  Fresh' /\ EndedStaysOut'
  OBVIOUS
<1> USE DEF TypeOK, Fresh, EndedStaysOut, Unissued, Goto, code, try, identity, mine
<1>0. Requests \subseteq Tokens /\ NoToken \notin Requests
  BY NamesDiffer DEF Tokens
<1>1. ASSUME NEW r \in Requests, Send(r) PROVE Fresh' /\ EndedStaysOut'
  BY <1>1, <1>0 DEF Send
<1>2. ASSUME NEW r \in Requests,
             Throttle(r) \/ Store(r) \/ Mail(r) \/ Unthrottle(r)
      PROVE  Fresh' /\ EndedStaysOut'
  BY <1>2 DEF Throttle, Store, Mail, Unthrottle
<1>3. ASSUME NEW r \in Requests, Read(r) \/ Ttl(r) PROVE Fresh' /\ EndedStaysOut'
  BY <1>3 DEF Read, Ttl
<1>4. ASSUME NEW r \in Requests, Rewrite(r) \/ DropSpent(r) \/ Consume(r)
      PROVE  Fresh' /\ EndedStaysOut'
  BY <1>4 DEF Rewrite, DropSpent, Consume, Writes
<1>5. ASSUME NEW r \in Requests, Arrive(r) PROVE Fresh' /\ EndedStaysOut'
  BY <1>5, <1>0 DEF Arrive
<1>6. ASSUME NEW r \in Requests, Load(r) \/ Clear(r) \/ Handle(r) \/ Fail(r)
      PROVE  Fresh' /\ EndedStaysOut'
  BY <1>6 DEF Load, Clear, Handle, Fail
<1>7. ASSUME NEW r \in Requests, Touch(r) PROVE Fresh' /\ EndedStaysOut'
  BY <1>7 DEF Touch, Touched
<1>8. ASSUME NEW r \in Requests, Issue(r) PROVE Fresh' /\ EndedStaysOut'
  <2>1. r \notin ended /\ Announced(r) \in {r, NoToken}
    BY <1>8 DEF Issue, Announced
  <2> QED BY <1>8, <1>0, <2>1 DEF Issue
<1>9. ASSUME NEW r \in Requests, Forget(r) PROVE Fresh' /\ EndedStaysOut'
  BY <1>9, <1>0 DEF Forget
<1>10. ASSUME NEW t \in Tokens, SessionLapses(t) PROVE Fresh' /\ EndedStaysOut'
  BY <1>10, <1>0 DEF SessionLapses
<1>11. CASE CodeLapses \/ ThrottleLapses \/ UNCHANGED vars
  BY <1>11 DEF CodeLapses, ThrottleLapses, vars
<1> QED
  BY <1>1, <1>2, <1>3, <1>4, <1>5, <1>6, <1>7, <1>8, <1>9, <1>10, <1>11 DEF Next, Step

(***************************************************************************)
(* A token that was logged out or ran out stands for nobody ever again,    *)
(* whatever requests with it are still under way.                          *)
(***************************************************************************)
THEOREM EndedTokensStayOut == Spec => []EndedStaysOut
<1>1. Init => Fresh /\ EndedStaysOut
  BY NamesDiffer DEF Init, Fresh, EndedStaysOut, Unissued, Tokens
<1> QED BY <1>1, FreshStep, TypeCorrect, PTL DEF Spec

(***************************************************************************)
(* No step of the program removes a member's rows: only Clear removes any, *)
(* and by Routes it acts for a guest.                                      *)
(***************************************************************************)
THEOREM MembersKeepRows == Spec => MemberRowsStay
<1>1. TypeOK /\ Routes /\ [Next]_vars => (Member \in rows => Member \in rows')
  <2> SUFFICES ASSUME TypeOK, Routes, [Next]_vars, Member \in rows PROVE Member \in rows'
    OBVIOUS
  <2> USE DEF Goto, code, try, identity, mine
  <2>1. ASSUME NEW r \in Requests, Clear(r) PROVE Member \in rows'
    <3>1. who[r] \in Tokens
      BY <2>1 DEF Routes, Clear
    <3> QED BY <2>1, <3>1, NamesDiffer DEF Clear
  <2>2. ASSUME NEW r \in Requests, Handle(r) PROVE Member \in rows'
    BY <2>2 DEF Handle
  <2>3. ASSUME NEW r \in Requests,
               \/ Send(r) \/ Arrive(r) \/ Throttle(r) \/ Store(r) \/ Mail(r)
               \/ Unthrottle(r) \/ Read(r) \/ Ttl(r) \/ Rewrite(r) \/ DropSpent(r)
               \/ Consume(r) \/ Load(r) \/ Touch(r) \/ Issue(r) \/ Forget(r) \/ Fail(r)
        PROVE  Member \in rows'
    BY <2>3 DEF Send, Arrive, Throttle, Store, Mail, Unthrottle, Read, Ttl, Rewrite,
                DropSpent, Consume, Writes, Load, Touch, Issue, Forget, Fail
  <2>4. CASE CodeLapses \/ ThrottleLapses \/ \E t \in Tokens : SessionLapses(t)
    BY <2>4 DEF CodeLapses, ThrottleLapses, SessionLapses
  <2>5. CASE UNCHANGED vars
    BY <2>5 DEF vars
  <2> QED BY <2>1, <2>2, <2>3, <2>4, <2>5 DEF Next, Step
<1> QED BY <1>1, Inductive, PTL DEF Spec, MemberRowsStay

-----------------------------------------------------------------------------
(* Codes *)

Unstored(r) == pc[r] \in {"idle", "throttle", "store"}
Trying(r) == pc[r] \in {"idle", "get", "ttl", "rewrite", "drop", "consume"}

(***************************************************************************)
(* A try has no verdict until it writes, and a wrong one had read a code.  *)
(***************************************************************************)
Tries == \A r \in Requests :
  /\ Trying(r) => verdict[r] = "open"
  /\ verdict[r] = "wrong" => seen[r] \in Record

(***************************************************************************)
(* A code that is not stored yet is known to nobody.                       *)
(***************************************************************************)
Unknown == \A r \in Requests : Unstored(r) =>
  /\ r \notin inbox /\ r \notin due
  /\ otp # NoCode => otp.code # r
  /\ \A q \in Requests : typed[q] # r /\ (seen[q] # NoCode => seen[q].code # r)

(***************************************************************************)
(* Without a race, a record has a second life, and a try has found the     *)
(* rest of one, only if an earlier wrong try on the code found no time     *)
(* left.                                                                   *)
(***************************************************************************)
Kept == ~raced =>
  /\ \A r \in Requests :
       pc[r] = "rewrite" /\ left[r] = "again" /\ otp # NoCode /\ otp.code = seen[r].code =>
         Revived(otp.code)
  /\ otp # NoCode => IsFiniteSet(Wrongs(otp.code)) /\ (otp.renewed => Revived(otp.code))

(***************************************************************************)
(* Nobody has tried a code that was never stored.                          *)
(***************************************************************************)
LEMMA UntriedCode ==
  ASSUME TypeOK, Tries, Unknown, NEW r \in Requests, Unstored(r)
  PROVE  Rights(r) = {} /\ Wrongs(r) = {}
<1>1. \A q \in Requests : verdict[q] = "wrong" => seen[q] # NoCode
  BY NamesDiffer DEF Tries
<1> QED BY <1>1 DEF Unknown, Rights, Wrongs

(***************************************************************************)
(* Verdicts are final and codes stay unknown until they are stored.        *)
(***************************************************************************)
LEMMA TrySteps == TypeOK /\ Routes /\ Tries /\ Unknown /\ [Next]_vars
                    => Tries' /\ Unknown'
<1> SUFFICES ASSUME TypeOK, Routes, Tries, Unknown, [Next]_vars PROVE Tries' /\ Unknown'
  OBVIOUS
<1> USE DEF TypeOK, Tries, Unknown, Unstored, Trying, Goto, code, try, identity, mine
<1>0. Mistyped \notin Requests
  BY NamesDiffer DEF Codes
<1>1. ASSUME NEW r \in Requests, Send(r) PROVE Tries' /\ Unknown'
  <2>1. kind[r] \in {"request", "verify", "logout", "me", "create", "post"}
    BY KindsAreKnown
  <2>2. FirstCall[kind[r]] \in {"throttle", "get", "forget", "load"}
    BY <2>1 DEF FirstCall
  <2>3. typed'[r] \in inbox \cup {Mistyped} \cup {typed[r]}
    BY <1>1 DEF Send
  <2>4. \A q \in Requests : q # r => typed'[q] = typed[q]
    BY <1>1 DEF Send
  <2> QED BY <1>0, <1>1, <2>2, <2>3, <2>4 DEF Send
<1>2. ASSUME NEW r \in Requests, Throttle(r) PROVE Tries' /\ Unknown'
  BY <1>2 DEF Throttle
<1>3. ASSUME NEW r \in Requests, Store(r) PROVE Tries' /\ Unknown'
  BY <1>3 DEF Store
<1>4. ASSUME NEW r \in Requests, Mail(r) \/ Unthrottle(r) PROVE Tries' /\ Unknown'
  BY <1>4 DEF Mail, Mailed, Unthrottle
<1>5. ASSUME NEW r \in Requests, Read(r) PROVE Tries' /\ Unknown'
  <2>1. /\ pc' = [pc EXCEPT ![r] = AfterGet(r)] /\ seen' = [seen EXCEPT ![r] = otp]
        /\ verdict' = [verdict EXCEPT ![r] = IF otp = NoCode THEN "refused" ELSE @]
        /\ UNCHANGED <<inbox, due, otp, typed>> /\ verdict[r] = "open"
    BY <1>5 DEF Read
  <2>2. AfterGet(r) \in {"done", "drop", "ttl", "consume"}
    BY AfterGetFits
  <2>3. otp = NoCode => AfterGet(r) = "done"
    BY DEF AfterGet
  <2>4. Tries'
    BY <2>1, <2>2, <2>3
  <2>5. Unknown'
    BY <2>1, <2>2
  <2> QED BY <2>4, <2>5
<1>6. ASSUME NEW r \in Requests, Ttl(r) PROVE Tries' /\ Unknown'
  BY <1>6 DEF Ttl
<1>7. ASSUME NEW r \in Requests, Rewrite(r) PROVE Tries' /\ Unknown'
  <2>1. seen[r] \in Record /\ seen[r] # NoCode /\ Counted(r).code = seen[r].code
    BY <1>7, NamesDiffer DEF Rewrite, Writes, Routes, Counted
  <2> QED BY <1>7, <2>1 DEF Rewrite, Writes
<1>8. ASSUME NEW r \in Requests, DropSpent(r) \/ Consume(r) PROVE Tries' /\ Unknown'
  BY <1>8 DEF DropSpent, Consume, Writes
<1>9. ASSUME NEW r \in Requests, Arrive(r) \/ Load(r) \/ Clear(r) \/ Fail(r)
      PROVE  Tries' /\ Unknown'
  BY <1>9 DEF Arrive, Load, Clear, Fail
<1>10. ASSUME NEW r \in Requests, Touch(r) PROVE Tries' /\ Unknown'
  <2>1. pc'[r] \in {"handle", "clear", "issue"}
    BY <1>10 DEF Touch
  <2> QED BY <1>10, <2>1 DEF Touch
<1>11. ASSUME NEW r \in Requests, Issue(r) \/ Handle(r) \/ Forget(r)
       PROVE  Tries' /\ Unknown'
  BY <1>11 DEF Issue, Handle, Forget
<1>12. CASE CodeLapses
  <2>1. /\ otp # NoCode /\ due' = due \cup {otp.code} /\ otp' \in {otp, NoCode}
        /\ UNCHANGED <<inbox, typed, seen, verdict, pc>>
    BY <1>12 DEF CodeLapses
  <2> QED BY <2>1
<1>13. CASE ThrottleLapses \/ \E t \in Tokens : SessionLapses(t)
  BY <1>13 DEF ThrottleLapses, SessionLapses
<1>14. CASE UNCHANGED vars
  BY <1>14 DEF vars
<1> QED BY <1>1, <1>2, <1>3, <1>4, <1>5, <1>6, <1>7, <1>8, <1>9, <1>10, <1>11, <1>12,
           <1>13, <1>14 DEF Next, Step

(***************************************************************************)
(* What SpentCodeIsGone and Kept say of codes is not disturbed by steps    *)
(* that leave the record, the tries and the clock of the codes alone.      *)
(***************************************************************************)
LEMMA QuietSteps ==
  ASSUME Kept, SpentCodeIsGone, UNCHANGED <<otp, typed, seen, left, verdict, due, raced>>,
         \A q \in Requests : pc'[q] = "rewrite" => pc[q] = "rewrite"
  PROVE  Kept' /\ SpentCodeIsGone'
<1>1. \A c : Wrongs(c)' = Wrongs(c) /\ Rights(c)' = Rights(c)
  BY DEF Wrongs, Rights
<1>2. \A c : Revived(c)' = Revived(c)
  BY <1>1 DEF Revived
<1> QED BY <1>1, <1>2 DEF Kept, SpentCodeIsGone

(***************************************************************************)
(* The steps of a request that have no part in verify_otp or store_otp are *)
(* such steps, and so are the clocks of throttle and sessions.             *)
(***************************************************************************)
LEMMA QuietActions ==
  ASSUME TypeOK,
         \/ \E r \in Requests :
              \/ Throttle(r) \/ Mail(r) \/ Unthrottle(r) \/ Load(r) \/ Touch(r)
              \/ Clear(r) \/ Issue(r) \/ Handle(r) \/ Forget(r) \/ Fail(r) \/ Arrive(r)
         \/ ThrottleLapses \/ \E t \in Tokens : SessionLapses(t)
  PROVE  /\ UNCHANGED <<otp, typed, seen, left, verdict, due, raced>>
         /\ \A q \in Requests : pc'[q] = "rewrite" => pc[q] = "rewrite"
<1> USE DEF TypeOK, Goto, code, try, identity, mine
<1>1. ASSUME NEW r \in Requests, Touch(r)
      PROVE  /\ UNCHANGED <<otp, typed, seen, left, verdict, due, raced>>
             /\ \A q \in Requests : pc'[q] = "rewrite" => pc[q] = "rewrite"
  <2>1. pc'[r] \in {"handle", "clear", "issue"}
    BY <1>1 DEF Touch
  <2> QED BY <1>1, <2>1 DEF Touch
<1>2. ASSUME NEW r \in Requests,
             \/ Throttle(r) \/ Mail(r) \/ Unthrottle(r) \/ Load(r)
             \/ Clear(r) \/ Issue(r) \/ Handle(r) \/ Forget(r) \/ Fail(r) \/ Arrive(r)
      PROVE  /\ UNCHANGED <<otp, typed, seen, left, verdict, due, raced>>
             /\ \A q \in Requests : pc'[q] = "rewrite" => pc[q] = "rewrite"
  BY <1>2 DEF Throttle, Mail, Unthrottle, Load, Clear, Issue, Handle, Forget, Fail, Arrive
<1>3. CASE ThrottleLapses \/ \E t \in Tokens : SessionLapses(t)
  BY <1>3 DEF ThrottleLapses, SessionLapses
<1> QED BY <1>1, <1>2, <1>3

(***************************************************************************)
(* A wrong try that met no race adds itself to the tries of its code, and  *)
(* one to the counter.                                                     *)
(***************************************************************************)
LEMMA RewriteStep ==
  ASSUME TypeOK, Routes, Tries, Kept, SpentCodeIsGone, NEW r \in Requests, Rewrite(r)
  PROVE  Kept' /\ SpentCodeIsGone'
<1> SUFFICES ASSUME ~raced' PROVE Kept' /\ SpentCodeIsGone'
  BY DEF Kept, SpentCodeIsGone
<1> USE DEF Rewrite, Writes, Goto
<1>1. ~raced /\ otp = seen[r] /\ otp # NoCode /\ otp \in Record
  BY NamesDiffer DEF Routes
<1>c. PICK c \in Codes : c = otp.code
  BY <1>1 DEF Record
<1>3. /\ otp'.code = c /\ otp'.attempts = otp.attempts + 1
      /\ otp'.renewed => left[r] # "first"
  BY <1>1, <1>c DEF Counted, Record
<1>4. Wrongs(c)' = Wrongs(c) \cup {r} /\ r \notin Wrongs(c)
  <2>1. verdict[r] = "open"
    BY DEF Tries, Trying
  <2> QED BY <1>1, <1>c, <2>1 DEF Wrongs, TypeOK
<1>5. Rights(c)' = {}
  <2>1. Rights(c) = {} /\ typed' = typed
    BY <1>1, <1>c DEF SpentCodeIsGone
  <2>2. \A q \in Requests : verdict'[q] = "right" => verdict[q] = "right"
    BY DEF TypeOK
  <2> QED BY <2>1, <2>2 DEF Rights
<1>6. /\ IsFiniteSet(Wrongs(c)') /\ otp'.attempts = Cardinality(Wrongs(c)')
  <2>1. IsFiniteSet(Wrongs(c)) /\ otp.attempts = Cardinality(Wrongs(c))
    BY <1>1, <1>c DEF Kept, SpentCodeIsGone
  <2>2. /\ IsFiniteSet(Wrongs(c) \cup {r})
        /\ Cardinality(Wrongs(c) \cup {r}) = Cardinality(Wrongs(c)) + 1
    BY <2>1, <1>4, FS_AddElement
  <2>3. otp'.attempts = otp.attempts + 1
    BY <1>3
  <2> QED BY <2>1, <2>2, <2>3, <1>4
<1>7. due' = due /\ left' = left /\ seen' = seen
  OBVIOUS
<1>8. Revived(c) => Revived(c)'
  BY <1>4, <1>7 DEF Revived
<1>9. SpentCodeIsGone'
  BY <1>1, <1>c, <1>3, <1>5, <1>6, <1>7, <1>8 DEF SpentCodeIsGone
<1>10. Kept'
  <2>1. ASSUME NEW q \in Requests, pc'[q] = "rewrite", left'[q] = "again", otp'.code = seen'[q].code
        PROVE  Revived(c)'
    BY <1>1, <1>c, <1>3, <1>7, <1>8, <2>1 DEF Kept, TypeOK
  <2>2. otp'.renewed => Revived(c)'
    <3>1. CASE left[r] = "none"
      BY <1>4, <1>7, <3>1 DEF Revived
    <3>2. CASE left[r] = "again"
      BY <1>1, <1>c, <1>8, <3>2 DEF Kept
    <3> QED BY <1>3, <3>1, <3>2 DEF TypeOK
  <2> QED BY <1>3, <1>6, <2>1, <2>2 DEF Kept
<1> QED BY <1>9, <1>10

(***************************************************************************)
(* Every other step about codes keeps both: a code is stored unknown, and  *)
(* when its ten minutes have passed it goes or was revived.                *)
(***************************************************************************)
LEMMA KeptSteps ==
  ASSUME TypeOK, Routes, Tries, Unknown, Kept, SpentCodeIsGone, [Next]_vars
  PROVE  Kept' /\ SpentCodeIsGone'
<1> USE DEF Goto, code, try, identity, mine
<1>1. ASSUME NEW r \in Requests, Send(r) PROVE Kept' /\ SpentCodeIsGone'
  <2>1. kind[r] \in {"request", "verify", "logout", "me", "create", "post"}
    BY KindsAreKnown DEF TypeOK
  <2>2. FirstCall[kind[r]] # "rewrite"
    BY <2>1 DEF FirstCall
  <2>3. verdict[r] = "open"
    BY <1>1 DEF Send, Tries, Trying
  <2>4. \A q \in Requests : q # r => typed'[q] = typed[q]
    BY <1>1 DEF Send, TypeOK
  <2>5. UNCHANGED <<otp, seen, left, verdict, due, raced>>
    BY <1>1 DEF Send
  <2>6. \A c : Wrongs(c)' = Wrongs(c) /\ Rights(c)' = Rights(c)
    BY <2>3, <2>4, <2>5 DEF Wrongs, Rights
  <2>7. \A q \in Requests : pc'[q] = "rewrite" => pc[q] = "rewrite"
    BY <1>1, <2>2 DEF Send, TypeOK
  <2>8. \A c : Revived(c)' = Revived(c)
    BY <2>5, <2>6 DEF Revived
  <2> QED BY <2>5, <2>6, <2>7, <2>8 DEF Kept, SpentCodeIsGone
<1>2. ASSUME NEW r \in Requests, Store(r) PROVE Kept' /\ SpentCodeIsGone'
  <2>1. Rights(r) = {} /\ Wrongs(r) = {} /\ r \notin due
    BY <1>2, UntriedCode DEF Store, Unstored, Unknown
  <2>2. /\ otp'.code = r /\ otp'.attempts = 0 /\ otp'.renewed = FALSE
        /\ UNCHANGED <<typed, seen, left, verdict, due, raced>>
    BY <1>2 DEF Store
  <2>3. Rights(r)' = {} /\ Wrongs(r)' = {}
    BY <2>1, <2>2 DEF Rights, Wrongs
  <2>4. SpentCodeIsGone'
    BY <2>1, <2>2, <2>3, FS_EmptySet DEF SpentCodeIsGone
  <2>5. \A q \in Requests : pc'[q] = "rewrite" => seen[q] # NoCode /\ seen[q].code # r
    BY <1>2, NamesDiffer DEF Store, Unknown, Unstored, Routes, TypeOK
  <2>6. Kept'
    BY <2>2, <2>3, <2>5, FS_EmptySet DEF Kept
  <2> QED BY <2>4, <2>6
<1>3. ASSUME NEW r \in Requests, Read(r) PROVE Kept' /\ SpentCodeIsGone'
  <2>1. AfterGet(r) # "rewrite"
    BY AfterGetFits DEF TypeOK
  <2>2. verdict[r] = "open" /\ verdict'[r] \in {"open", "refused"}
    BY <1>3 DEF Read, Tries, Trying, TypeOK
  <2>3. \A q \in Requests : q # r => verdict'[q] = verdict[q] /\ seen'[q] = seen[q]
    BY <1>3 DEF Read, TypeOK
  <2>4. UNCHANGED <<otp, typed, left, due, raced>>
    BY <1>3 DEF Read
  <2>5. \A c : Wrongs(c)' = Wrongs(c) /\ Rights(c)' = Rights(c)
    BY <2>2, <2>3, <2>4 DEF Wrongs, Rights
  <2>6. \A q \in Requests : pc'[q] = "rewrite" => q # r /\ pc[q] = "rewrite"
    BY <1>3, <2>1 DEF Read, TypeOK
  <2>7. \A c : Revived(c)' = Revived(c)
    BY <2>4, <2>5 DEF Revived
  <2> QED BY <2>3, <2>4, <2>5, <2>6, <2>7 DEF Kept, SpentCodeIsGone
<1>4. ASSUME NEW r \in Requests, Ttl(r) PROVE Kept' /\ SpentCodeIsGone'
  <2>1. UNCHANGED <<otp, typed, seen, verdict, due, raced>>
    BY <1>4 DEF Ttl
  <2>2. \A c : Wrongs(c)' = Wrongs(c) /\ Rights(c)' = Rights(c)
    BY <2>1 DEF Wrongs, Rights
  <2>3. left'[r] = "again" => otp # NoCode /\ otp.renewed
    BY <1>4 DEF Ttl, TypeOK
  <2>4. \A q \in Requests : q # r => left'[q] = left[q] /\ pc'[q] = pc[q]
    BY <1>4 DEF Ttl, TypeOK
  <2>5. verdict[r] = "open"
    BY <1>4 DEF Ttl, Tries, Trying
  <2>6. \A c : Revived(c) => Revived(c)'
    BY <2>2, <2>4, <2>5 DEF Revived, Wrongs
  <2> QED BY <2>1, <2>2, <2>3, <2>4, <2>6 DEF Kept, SpentCodeIsGone
<1>5. ASSUME NEW r \in Requests, Rewrite(r) PROVE Kept' /\ SpentCodeIsGone'
  BY <1>5, RewriteStep
<1>6. ASSUME NEW r \in Requests, DropSpent(r) \/ Consume(r)
      PROVE  Kept' /\ SpentCodeIsGone'
  BY <1>6 DEF DropSpent, Consume, Writes, Kept, SpentCodeIsGone
<1>7. CASE CodeLapses
  <2>1. UNCHANGED <<typed, seen, left, verdict, raced, pc>>
    BY <1>7 DEF CodeLapses
  <2>2. \A c : Wrongs(c)' = Wrongs(c) /\ Rights(c)' = Rights(c)
    BY <2>1 DEF Wrongs, Rights
  <2>3. \A c : Revived(c)' = Revived(c)
    BY <2>1, <2>2 DEF Revived
  <2>4. otp' = NoCode \/ (otp' = otp /\ otp.renewed)
    BY <1>7 DEF CodeLapses
  <2> QED BY <2>1, <2>2, <2>3, <2>4 DEF Kept, SpentCodeIsGone
<1>8. CASE \/ \E r \in Requests :
              \/ Throttle(r) \/ Mail(r) \/ Unthrottle(r) \/ Load(r) \/ Touch(r)
              \/ Clear(r) \/ Issue(r) \/ Handle(r) \/ Forget(r) \/ Fail(r) \/ Arrive(r)
           \/ ThrottleLapses \/ \E t \in Tokens : SessionLapses(t)
  BY <1>8, QuietActions, QuietSteps
<1>9. CASE UNCHANGED vars
  BY <1>9, QuietSteps DEF vars
<1> QED BY <1>1, <1>2, <1>3, <1>4, <1>5, <1>6, <1>7, <1>8, <1>9 DEF Next, Step

(***************************************************************************)
(* A stored code has let nobody in, counts its wrong tries, and is younger *)
(* than ten minutes or was tried when no time was left, unless a try met   *)
(* another request on its way; for any number of requests and any          *)
(* OTP_MAX_ATTEMPTS.                                                       *)
(***************************************************************************)
THEOREM SpentCodesAreGone == Spec => []SpentCodeIsGone
<1>1. Init => Tries /\ Unknown /\ Kept /\ SpentCodeIsGone
  <2> SUFFICES ASSUME Init PROVE Tries /\ Unknown /\ Kept /\ SpentCodeIsGone
    OBVIOUS
  <2>1. \A r \in Requests : verdict[r] = "open" /\ pc[r] = "idle"
    BY DEF Init
  <2>2. \A c : Wrongs(c) = {} /\ Rights(c) = {}
    BY <2>1 DEF Wrongs, Rights
  <2>3. otp # NoCode => otp.code = Old /\ otp.attempts = 0 /\ otp.renewed = FALSE
    BY DEF Init
  <2>4. Tries
    BY <2>1 DEF Tries, Trying
  <2>5. Unknown
    BY <2>3, NamesDiffer DEF Init, Unknown, Codes
  <2>6. Kept /\ SpentCodeIsGone
    BY <2>1, <2>2, <2>3, FS_EmptySet DEF Init, Kept, SpentCodeIsGone
  <2> QED BY <2>4, <2>5, <2>6
<1>2. /\ TypeOK /\ Routes /\ Tries /\ Unknown /\ Kept /\ SpentCodeIsGone /\ [Next]_vars
      => Tries' /\ Unknown' /\ Kept' /\ SpentCodeIsGone'
  BY TrySteps, KeptSteps
<1> QED BY <1>1, <1>2, Inductive, PTL DEF Spec

-----------------------------------------------------------------------------
(* The mailed code *)

(***************************************************************************)
(* A code is stored, or was used, ran out or was missed too often.         *)
(***************************************************************************)
Accounted(c) ==
  \/ otp # NoCode /\ otp.code = c
  \/ Rights(c) # {} \/ c \in due
  \/ Cardinality(Wrongs(c)) >= MaxAttempts

(***************************************************************************)
(* verify_otp takes a record away only if the try was right or the record  *)
(* was spent; and there are finitely many wrong tries on any code.         *)
(***************************************************************************)
Grounds ==
  /\ \A r \in Requests : pc[r] = "drop" => seen[r].attempts >= MaxAttempts
  /\ \A r \in Requests : pc[r] = "consume" => typed[r] = seen[r].code
  /\ \A c \in Codes : IsFiniteSet(Wrongs(c))

(***************************************************************************)
(* Tries only accumulate: a verdict is final.                              *)
(***************************************************************************)
LEMMA TriesGrow ==
  ASSUME TypeOK, Routes, Tries, [Next]_vars, NEW c \in Codes
  PROVE  /\ Rights(c) \subseteq Rights(c)' /\ Wrongs(c) \subseteq Wrongs(c)'
         /\ \/ Wrongs(c)' = Wrongs(c)
            \/ \E r \in Requests : Rewrite(r) /\ Wrongs(c)' \subseteq Wrongs(c) \cup {r}
<1> USE DEF Tries, Trying, Goto, code, try, identity, mine, TypeOK
<1>1. ASSUME NEW r \in Requests, Send(r) \/ Read(r)
      PROVE  /\ Rights(c) \subseteq Rights(c)' /\ Wrongs(c)' = Wrongs(c)
  <2>1. verdict[r] = "open" /\ verdict'[r] \in {"open", "refused"}
    BY <1>1 DEF Send, Read
  <2>2. \A q \in Requests : q # r =>
          verdict'[q] = verdict[q] /\ seen'[q] = seen[q] /\ typed'[q] = typed[q]
    BY <1>1 DEF Send, Read
  <2> QED BY <2>1, <2>2 DEF Rights, Wrongs
<1>2. ASSUME NEW r \in Requests, Rewrite(r) \/ DropSpent(r) \/ Consume(r)
      PROVE  /\ Rights(c) \subseteq Rights(c)' /\ Wrongs(c) \subseteq Wrongs(c)'
             /\ Wrongs(c)' \subseteq Wrongs(c) \cup {r}
             /\ ~Rewrite(r) => Wrongs(c)' = Wrongs(c)
  <2>1. verdict[r] = "open" /\ UNCHANGED <<seen, typed>>
    BY <1>2 DEF Rewrite, DropSpent, Consume, Writes
  <2>2. \A q \in Requests : q # r => verdict'[q] = verdict[q]
    BY <1>2 DEF Rewrite, DropSpent, Consume, Writes
  <2>3. ~Rewrite(r) => verdict'[r] \in {"refused", "right"}
    BY <1>2 DEF DropSpent, Consume, Writes
  <2> QED BY <2>1, <2>2, <2>3 DEF Rights, Wrongs
<1>3. CASE UNCHANGED <<seen, typed, verdict>>
  BY <1>3 DEF Rights, Wrongs
<1>4. ASSUME NEW r \in Requests, Store(r) \/ Ttl(r) PROVE UNCHANGED <<seen, typed, verdict>>
  BY <1>4 DEF Store, Ttl
<1>5. CASE CodeLapses \/ UNCHANGED vars
  BY <1>3, <1>5 DEF CodeLapses, vars
<1> QED BY <1>1, <1>2, <1>3, <1>4, <1>5, QuietActions DEF Next, Step

(***************************************************************************)
(* The grounds on which records go stay true until they are acted on.      *)
(***************************************************************************)
LEMMA GroundsStep ==
  ASSUME TypeOK, Routes, Tries, Grounds, [Next]_vars
  PROVE  Grounds'
<1> USE DEF Goto, code, try, identity, mine
<1>1. \A c \in Codes : IsFiniteSet(Wrongs(c)')
  <2> TAKE c \in Codes
  <2>1. IsFiniteSet(Wrongs(c))
    BY DEF Grounds
  <2>2. ASSUME NEW r \in Requests, Wrongs(c)' \subseteq Wrongs(c) \cup {r}
        PROVE  IsFiniteSet(Wrongs(c)')
    BY <2>1, <2>2, FS_AddElement, FS_Subset
  <2> QED BY <2>1, <2>2, TriesGrow
<1> DEFINE G(r) == /\ pc'[r] = "drop" => seen'[r].attempts >= MaxAttempts
                   /\ pc'[r] = "consume" => typed'[r] = seen'[r].code
<1>2. ASSUME NEW r \in Requests, Read(r) PROVE \A q \in Requests : G(q)
  <2>1. AfterGet(r) = "drop" => otp.attempts >= MaxAttempts
    <3>1. CASE otp = NoCode
      BY <3>1 DEF AfterGet
    <3>2. CASE otp # NoCode
      <4>1. otp.attempts \in Nat
        BY <3>2, LimitIsNat DEF TypeOK, Record
      <4> QED BY <3>2, <4>1, LimitIsNat DEF AfterGet
    <3> QED BY <3>1, <3>2
  <2>2. AfterGet(r) = "consume" => typed[r] = otp.code
    <3>1. CASE otp = NoCode
      BY <3>1 DEF AfterGet
    <3>2. CASE otp # NoCode
      <4>1. otp.attempts \in Nat
        BY <3>2, LimitIsNat DEF TypeOK, Record
      <4> QED BY <3>2, <4>1, LimitIsNat DEF AfterGet
    <3> QED BY <3>1, <3>2
  <2>3. \A q \in Requests : q # r => pc'[q] = pc[q] /\ seen'[q] = seen[q]
    BY <1>2 DEF Read, TypeOK
  <2>4. pc'[r] = AfterGet(r) /\ seen'[r] = otp /\ typed' = typed
    BY <1>2 DEF Read, TypeOK
  <2> QED BY <2>1, <2>2, <2>3, <2>4 DEF Grounds
<1>3. ASSUME NEW r \in Requests, Send(r) PROVE \A q \in Requests : G(q)
  <2>1. kind[r] \in {"request", "verify", "logout", "me", "create", "post"}
    BY KindsAreKnown DEF TypeOK
  <2>2. pc'[r] \in {"throttle", "get", "forget", "load"}
    BY <1>3, <2>1 DEF Send, FirstCall, TypeOK
  <2>3. \A q \in Requests : q # r => pc'[q] = pc[q] /\ typed'[q] = typed[q]
    BY <1>3 DEF Send, TypeOK
  <2> QED BY <1>3, <2>2, <2>3 DEF Send, Grounds
<1>4. ASSUME NEW r \in Requests, Touch(r) PROVE \A q \in Requests : G(q)
  <2>1. pc'[r] \in {"handle", "clear", "issue"}
    BY <1>4 DEF Touch, TypeOK
  <2> QED BY <1>4, <2>1 DEF Touch, Grounds, TypeOK
<1>5. ASSUME NEW r \in Requests,
             \/ Throttle(r) \/ Store(r) \/ Mail(r) \/ Unthrottle(r) \/ Ttl(r)
             \/ Rewrite(r) \/ DropSpent(r) \/ Consume(r)
      PROVE  \A q \in Requests : G(q)
  BY <1>5 DEF Throttle, Store, Mail, Unthrottle, Ttl, Rewrite, DropSpent, Consume, Writes,
              Grounds, TypeOK
<1>6. ASSUME NEW r \in Requests,
             \/ Load(r) \/ Clear(r) \/ Issue(r) \/ Handle(r) \/ Forget(r) \/ Fail(r)
             \/ Arrive(r)
      PROVE  \A q \in Requests : G(q)
  BY <1>6 DEF Load, Clear, Issue, Handle, Forget, Fail, Arrive, Grounds, TypeOK
<1>7. ASSUME \/ CodeLapses \/ ThrottleLapses \/ UNCHANGED vars
             \/ \E t \in Tokens : SessionLapses(t)
      PROVE  \A q \in Requests : G(q)
  <2>1. pc' = pc /\ seen' = seen /\ typed' = typed
    BY <1>7 DEF CodeLapses, ThrottleLapses, SessionLapses, vars
  <2> QED BY <2>1 DEF Grounds
<1>8. \A q \in Requests : G(q)
  <2> HIDE DEF G
  <2> QED BY <1>2, <1>3, <1>4, <1>5, <1>6, <1>7 DEF Next, Step
<1> QED BY <1>1, <1>8 DEF Grounds

(***************************************************************************)
(* No step but the storing of another code loses track of a code, as long  *)
(* as tries do not race.                                                   *)
(***************************************************************************)
LEMMA StaysAccounted ==
  ASSUME TypeOK, Routes, Tries, Grounds, Grounds', SpentCodeIsGone, [Next]_vars,
         ~\E r \in Requests : Store(r), ~raced', NEW c \in Codes, Accounted(c)
  PROVE  Accounted(c)'
<1> USE DEF Goto, code, try, identity, mine
<1>1. Rights(c) \subseteq Rights(c)' /\ Wrongs(c) \subseteq Wrongs(c)'
  BY TriesGrow
<1>2. due \subseteq due'
  <2>1. CASE CodeLapses
    BY <2>1 DEF CodeLapses
  <2>2. CASE UNCHANGED vars
    BY <2>2 DEF vars
  <2>3. ASSUME NEW r \in Requests,
               \/ Send(r) \/ Read(r) \/ Ttl(r) \/ Rewrite(r) \/ DropSpent(r) \/ Consume(r)
        PROVE  due' = due
    BY <2>3 DEF Send, Read, Ttl, Rewrite, DropSpent, Consume, Writes
  <2> QED BY <2>1, <2>2, <2>3, QuietActions DEF Next, Step
<1>3. /\ IsFiniteSet(Wrongs(c)) /\ IsFiniteSet(Wrongs(c)')
      /\ Cardinality(Wrongs(c)) \in Nat /\ Cardinality(Wrongs(c)') \in Nat
  BY FS_CardinalityType DEF Grounds
<1>4. Cardinality(Wrongs(c)) <= Cardinality(Wrongs(c)')
  BY <1>1, <1>3, FS_Subset
<1>5. CASE Rights(c) # {} \/ c \in due \/ Cardinality(Wrongs(c)) >= MaxAttempts
  BY <1>1, <1>2, <1>3, <1>4, <1>5, LimitIsNat DEF Accounted
<1>6. CASE otp # NoCode /\ otp.code = c
  <2>1. ASSUME NEW r \in Requests, Rewrite(r) PROVE Accounted(c)'
    <3>1. ~raced /\ otp = seen[r] /\ otp' = Counted(r) /\ otp \in Record
      BY <2>1, NamesDiffer DEF Rewrite, Writes, Routes
    <3>2. Counted(r) \in Record
      BY <2>1, CountedFits DEF Rewrite, Writes
    <3>3. otp' # NoCode /\ otp'.code = c
      BY <3>1, <3>2, <1>6, NamesDiffer DEF Counted
    <3> QED BY <3>3 DEF Accounted
  <2>2. ASSUME NEW r \in Requests, DropSpent(r) PROVE Accounted(c)'
    <3>1. ~raced /\ otp = seen[r] /\ seen[r].attempts >= MaxAttempts
      BY <2>2 DEF DropSpent, Writes, Grounds
    <3>2. Cardinality(Wrongs(c)) >= MaxAttempts
      BY <3>1, <1>6 DEF SpentCodeIsGone
    <3> QED BY <1>3, <1>4, <3>2, LimitIsNat DEF Accounted
  <2>3. ASSUME NEW r \in Requests, Consume(r) PROVE Accounted(c)'
    <3>1. otp = seen[r] /\ typed[r] = seen[r].code
      BY <2>3 DEF Consume, Writes, Grounds
    <3>2. verdict'[r] = "right" /\ typed' = typed
      BY <2>3 DEF Consume, Writes, TypeOK
    <3>3. r \in Rights(c)'
      BY <1>6, <3>1, <3>2 DEF Rights
    <3> QED BY <3>3 DEF Accounted
  <2>4. CASE CodeLapses
    BY <1>6, <2>4 DEF CodeLapses, Accounted
  <2>5. CASE otp' = otp
    BY <1>6, <2>5 DEF Accounted
  <2>6. ASSUME NEW r \in Requests, Send(r) \/ Read(r) \/ Ttl(r) PROVE otp' = otp
    BY <2>6 DEF Send, Read, Ttl
  <2>7. CASE UNCHANGED vars
    BY <2>5, <2>7 DEF vars
  <2> QED BY <2>1, <2>2, <2>3, <2>4, <2>5, <2>6, <2>7, QuietActions DEF Next, Step
<1> QED BY <1>5, <1>6 DEF Accounted

(***************************************************************************)
(* The last mailed code and a code about to be mailed are accounted for.   *)
(***************************************************************************)
Delivered == ~raced /\ ~late =>
  /\ newest # NoCode => Accounted(newest)
  /\ \A r \in Requests : pc[r] = "mail" => Accounted(r)

(***************************************************************************)
(* The throttle keeps a second code from being stored between the storing  *)
(* of a code and its mail; afterwards storing one makes it the newest.     *)
(***************************************************************************)
LEMMA DeliveredStep ==
  ASSUME TypeOK, Routes, Tries, Grounds, Grounds', SpentCodeIsGone, OneMailer, Delivered,
         [Next]_vars
  PROVE  Delivered'
<1> USE DEF Goto, code, try, identity, mine
<1> SUFFICES ASSUME ~raced', ~late' PROVE Delivered'
  BY DEF Delivered
<1>1. ~raced /\ ~late
  <2>1. ASSUME NEW r \in Requests, NEW step, NEW record, NEW returns,
               Writes(r, step, record, returns)
        PROVE  ~raced /\ ~late
    <3>1. raced' = (raced \/ otp # seen[r]) /\ late' = late
      BY <2>1 DEF Writes
    <3> QED BY <3>1, Zenon
  <2>2. CASE ThrottleLapses
    BY <2>2 DEF ThrottleLapses
  <2>3. CASE raced' = raced /\ late' = late
    BY <2>3
  <2>4. ASSUME NEW r \in Requests,
               \/ Send(r) \/ Arrive(r) \/ Throttle(r) \/ Store(r) \/ Mail(r)
               \/ Unthrottle(r) \/ Read(r) \/ Ttl(r) \/ Load(r) \/ Touch(r)
               \/ Clear(r) \/ Issue(r) \/ Handle(r) \/ Forget(r) \/ Fail(r)
        PROVE  raced' = raced /\ late' = late
    BY <2>4 DEF Send, Arrive, Throttle, Store, Mail, Unthrottle, Read, Ttl, Load, Touch,
                Clear, Issue, Handle, Forget, Fail
  <2>5. CASE \/ CodeLapses \/ UNCHANGED vars \/ \E t \in Tokens : SessionLapses(t)
    BY <2>5 DEF CodeLapses, SessionLapses, vars
  <2>6. ASSUME NEW r \in Requests, Rewrite(r) \/ DropSpent(r) \/ Consume(r)
        PROVE  ~raced /\ ~late
    BY <2>1, <2>6, Zenon DEF Rewrite, DropSpent, Consume
  <2> QED BY <2>2, <2>4, <2>5, <2>6 DEF Next, Step
<1>2. Requests \subseteq Codes
  BY DEF Codes
<1>3. ASSUME NEW r \in Requests, Store(r) PROVE Delivered'
  <2>1. [code |-> r, attempts |-> 0, renewed |-> FALSE] \in Record
    BY LimitIsNat DEF Record, Codes
  <2>2. otp' # NoCode /\ otp'.code = r /\ newest' = NoCode
    BY <1>3, <2>1, NamesDiffer DEF Store
  <2>3. \A q \in Requests : pc'[q] = "mail" => q = r
    BY <1>1, <1>3 DEF Store, OneMailer, InMail, TypeOK
  <2> QED BY <2>2, <2>3 DEF Delivered, Accounted
<1>4. ASSUME ~\E r \in Requests : Store(r) PROVE Delivered'
  <2>1. \A c \in Codes : Accounted(c) => Accounted(c)'
    BY <1>4, StaysAccounted
  <2>2. ASSUME NEW r \in Requests, Mail(r) PROVE Delivered'
    <3>1. newest' \in {r, newest} /\ pc[r] = "mail"
      BY <2>2 DEF Mail, Mailed
    <3>2. \A q \in Requests : pc'[q] = "mail" => pc[q] = "mail"
      BY <2>2 DEF Mail, TypeOK
    <3> QED BY <1>1, <1>2, <2>1, <3>1, <3>2 DEF Delivered, TypeOK
  <2>3. CASE newest' = newest /\ \A q \in Requests : pc'[q] = "mail" => pc[q] = "mail"
    BY <1>1, <1>2, <2>1, <2>3 DEF Delivered, TypeOK
  <2>4. ASSUME NEW r \in Requests, Send(r)
        PROVE  newest' = newest /\ \A q \in Requests : pc'[q] = "mail" => pc[q] = "mail"
    <3>1. kind[r] \in {"request", "verify", "logout", "me", "create", "post"}
      BY KindsAreKnown DEF TypeOK
    <3>2. pc'[r] \in {"throttle", "get", "forget", "load"}
      BY <2>4, <3>1 DEF Send, FirstCall, TypeOK
    <3> QED BY <2>4, <3>2 DEF Send, TypeOK
  <2>5. ASSUME NEW r \in Requests, Read(r)
        PROVE  newest' = newest /\ \A q \in Requests : pc'[q] = "mail" => pc[q] = "mail"
    BY <2>5, AfterGetFits DEF Read, TypeOK
  <2>6. ASSUME NEW r \in Requests, Touch(r)
        PROVE  newest' = newest /\ \A q \in Requests : pc'[q] = "mail" => pc[q] = "mail"
    <3>1. pc'[r] \in {"handle", "clear", "issue"}
      BY <2>6 DEF Touch, TypeOK
    <3> QED BY <2>6, <3>1 DEF Touch, TypeOK
  <2>7. ASSUME NEW r \in Requests,
               \/ Throttle(r) \/ Unthrottle(r) \/ Ttl(r) \/ Rewrite(r) \/ DropSpent(r)
               \/ Consume(r)
        PROVE  newest' = newest /\ \A q \in Requests : pc'[q] = "mail" => pc[q] = "mail"
    BY <2>7 DEF Throttle, Unthrottle, Ttl, Rewrite, DropSpent, Consume, Writes, TypeOK
  <2>8. ASSUME NEW r \in Requests,
               \/ Arrive(r) \/ Load(r) \/ Clear(r) \/ Issue(r) \/ Handle(r) \/ Forget(r)
               \/ Fail(r)
        PROVE  newest' = newest /\ \A q \in Requests : pc'[q] = "mail" => pc[q] = "mail"
    BY <2>8 DEF Arrive, Load, Clear, Issue, Handle, Forget, Fail, TypeOK
  <2>9. ASSUME \/ CodeLapses \/ ThrottleLapses \/ UNCHANGED vars
               \/ \E t \in Tokens : SessionLapses(t)
        PROVE  newest' = newest /\ pc' = pc
    BY <2>9 DEF CodeLapses, ThrottleLapses, SessionLapses, vars
  <2> QED BY <1>4, <2>2, <2>3, <2>4, <2>5, <2>6, <2>7, <2>8, <2>9 DEF Next, Step
<1> QED BY <1>3, <1>4

(***************************************************************************)
(* The code mailed last works until it is used, missed too often, ten      *)
(* minutes old or replaced, in every history without races and mails that  *)
(* outlast the throttle, for any number of requests.                       *)
(***************************************************************************)
THEOREM MailedCodesWork == Spec => []MailedCodeWorks
<1>1. Init => Tries /\ Unknown /\ Kept /\ SpentCodeIsGone /\ Grounds /\ OneMailer /\ Delivered
  <2> SUFFICES ASSUME Init
               PROVE  /\ Tries /\ Unknown /\ Kept /\ SpentCodeIsGone /\ Grounds
                      /\ OneMailer /\ Delivered
    OBVIOUS
  <2>1. \A r \in Requests : verdict[r] = "open" /\ pc[r] = "idle"
    BY DEF Init
  <2>2. \A c : Wrongs(c) = {} /\ Rights(c) = {}
    BY <2>1 DEF Wrongs, Rights
  <2>3. otp # NoCode => otp.code = Old /\ otp.attempts = 0 /\ otp.renewed = FALSE
    BY DEF Init
  <2>4. Tries
    BY <2>1 DEF Tries, Trying
  <2>5. Unknown
    BY <2>3, NamesDiffer DEF Init, Unknown, Codes
  <2>6. Kept /\ SpentCodeIsGone
    BY <2>1, <2>2, <2>3, FS_EmptySet DEF Init, Kept, SpentCodeIsGone
  <2>7. Grounds
    BY <2>1, <2>2, FS_EmptySet DEF Grounds
  <2>8. OneMailer
    BY <2>1 DEF Init, OneMailer, InMail
  <2>9. newest # NoCode => otp # NoCode /\ otp.code = newest
    <3>1. [code |-> Old, attempts |-> 0, renewed |-> FALSE] \in Record
      BY LimitIsNat DEF Record, Codes
    <3>2. PICK mailed \in BOOLEAN :
            /\ otp = IF mailed THEN [code |-> Old, attempts |-> 0, renewed |-> FALSE]
                               ELSE NoCode
            /\ newest = IF mailed THEN Old ELSE NoCode
      BY DEF Init
    <3>3. CASE mailed
      BY <3>1, <3>2, <3>3, NamesDiffer
    <3>4. CASE ~mailed
      BY <3>2, <3>4
    <3> QED BY <3>3, <3>4
  <2> QED BY <2>1, <2>4, <2>5, <2>6, <2>7, <2>8, <2>9 DEF Delivered, Accounted
<1>2. /\ TypeOK /\ Routes /\ Tries /\ Unknown /\ Kept /\ SpentCodeIsGone /\ Grounds
      /\ OneMailer /\ Delivered /\ [Next]_vars
      => /\ Tries' /\ Unknown' /\ Kept' /\ SpentCodeIsGone' /\ Grounds'
         /\ OneMailer' /\ Delivered'
  BY TrySteps, KeptSteps, GroundsStep, MailSteps, OtherMailSteps, DeliveredStep
<1>3. Delivered => MailedCodeWorks
  BY DEF Delivered, Accounted, MailedCodeWorks
<1> QED BY <1>1, <1>2, <1>3, Inductive, PTL DEF Spec

-----------------------------------------------------------------------------
(***************************************************************************)
(* Which calls each kind of request makes, and when a user and a cookie    *)
(* are in hand.                                                            *)
(***************************************************************************)
Ways == \A r \in Requests :
  /\ kind[r] = "request" =>
       pc[r] \in {"idle", "throttle", "store", "mail", "unthrottle", "done"}
  /\ pc[r] = "forget" => kind[r] = "logout"
  /\ pc[r] \in {"get", "ttl", "rewrite", "drop", "consume", "whoami", "clear"} =>
       kind[r] = "verify"
  /\ who[r] # NoUser => pc[r] \in {"touch", "clear", "issue", "handle", "answered", "done"}
  /\ reply[r] # NoToken => reply[r] = r /\ pc[r] \in {"handle", "answered", "done"}
  /\ pc[r] = "answered" => reply[r] # NoToken

\* Nobody has anything in hand at first.
LEMMA WaysInit == Init => Ways
BY NamesDiffer DEF Init, Ways

\* Where a request starts.
LEMMA SendTo ==
  ASSUME TypeOK, NEW r \in Requests, Send(r)
  PROVE  /\ pc[r] = "idle" /\ pc' = [pc EXCEPT ![r] = FirstCall[kind[r]]]
         /\ \/ kind[r] = "request" /\ FirstCall[kind[r]] = "throttle"
            \/ kind[r] = "verify" /\ FirstCall[kind[r]] = "get"
            \/ kind[r] = "logout" /\ FirstCall[kind[r]] = "forget"
            \/ kind[r] \in {"me", "create", "post"} /\ FirstCall[kind[r]] = "load"
<1>1. kind[r] \in {"request", "verify", "logout", "me", "create", "post"}
  BY KindsAreKnown DEF TypeOK
<1> QED BY <1>1 DEF Send, Goto, FirstCall

\* The step of one request leaves the others where they are, and starts it if it was not.
LEMMA Local ==
  ASSUME TypeOK, NEW r \in Requests, Step(r)
  PROVE  /\ kind' = kind /\ ended \subseteq ended' /\ pc'[r] # "idle"
         /\ \A q \in Requests \ {r} : /\ pc'[q] = pc[q] /\ jar'[q] = jar[q]
                                      /\ who'[q] = who[q] /\ reply'[q] = reply[q]
<1> DEFINE Alone == /\ kind' = kind /\ ended \subseteq ended' /\ pc'[r] # "idle"
                    /\ \A q \in Requests \ {r} : /\ pc'[q] = pc[q] /\ jar'[q] = jar[q]
                                                 /\ who'[q] = who[q] /\ reply'[q] = reply[q]
<1> SUFFICES Alone
  BY DEF Alone
<1> USE DEF Goto, code, try, identity, mine, TypeOK
<1>1. CASE Send(r)
  BY <1>1, SendTo DEF Send
<1>2. CASE Throttle(r) \/ Store(r) \/ Mail(r) \/ Unthrottle(r)
  BY <1>2 DEF Throttle, Store, Mail, Unthrottle
<1>3. CASE Read(r)
  BY <1>3, AfterGetFits DEF Read
<1>4. CASE Ttl(r) \/ Rewrite(r) \/ DropSpent(r) \/ Consume(r)
  BY <1>4 DEF Ttl, Rewrite, DropSpent, Consume, Writes
<1>5. CASE Load(r) \/ Touch(r) \/ Clear(r)
  BY <1>5 DEF Load, Touch, Clear
<1>6. CASE Issue(r) \/ Handle(r)
  BY <1>6 DEF Issue, Handle
<1>7. CASE Forget(r) \/ Fail(r) \/ Arrive(r)
  BY <1>7 DEF Forget, Fail, Arrive
<1> QED BY <1>1, <1>2, <1>3, <1>4, <1>5, <1>6, <1>7 DEF Step

\* Requests keep to their ways.
LEMMA WaysStep ==
  ASSUME TypeOK, Ways, [Next]_vars
  PROVE  Ways'
<1> DEFINE Fine(q) ==
             /\ kind'[q] = "request" =>
                  pc'[q] \in {"idle", "throttle", "store", "mail", "unthrottle", "done"}
             /\ pc'[q] = "forget" => kind'[q] = "logout"
             /\ pc'[q] \in {"get", "ttl", "rewrite", "drop", "consume", "whoami", "clear"} =>
                  kind'[q] = "verify"
             /\ who'[q] # NoUser =>
                  pc'[q] \in {"touch", "clear", "issue", "handle", "answered", "done"}
             /\ reply'[q] # NoToken => reply'[q] = q /\ pc'[q] \in {"handle", "answered", "done"}
             /\ pc'[q] = "answered" => reply'[q] # NoToken
<1> SUFFICES \A q \in Requests : Fine(q)
  BY DEF Ways
<1>1. ASSUME NEW r \in Requests, Step(r) PROVE \A q \in Requests : Fine(q)
  <2>1. \A q \in Requests \ {r} : Fine(q)
    BY <1>1, Local DEF Ways
  <2> SUFFICES Fine(r)
    BY <2>1
  <2>2. /\ kind' = kind /\ r \in DOMAIN pc /\ r \in DOMAIN who /\ r \in DOMAIN reply
        /\ r # NoToken /\ r \in Requests
    BY <1>1, Local, NamesDiffer DEF TypeOK, Tokens
  <2> USE DEF Ways, Goto, code, try, identity, mine
  <2>3. CASE Send(r)
    BY <2>2, <2>3, SendTo DEF Send
  <2>4. CASE Throttle(r) \/ Store(r) \/ Mail(r) \/ Unthrottle(r)
    BY <2>2, <2>4 DEF Throttle, Store, Mail, Unthrottle
  <2>5. CASE Read(r)
    BY <2>2, <2>5, AfterGetFits DEF Read, TypeOK
  <2>6. CASE Ttl(r) \/ Rewrite(r) \/ DropSpent(r) \/ Consume(r)
    BY <2>2, <2>6 DEF Ttl, Rewrite, DropSpent, Consume, Writes
  <2>7. CASE Load(r)
    BY <2>2, <2>7 DEF Load
  <2>8. CASE Touch(r)
    BY <2>2, <2>8 DEF Touch
  <2>9. CASE Clear(r) \/ Fail(r)
    BY <2>2, <2>9 DEF Clear, Fail
  <2>10. CASE Issue(r)
    BY <2>2, <2>10 DEF Issue, Announced
  <2>11. CASE Handle(r)
    BY <2>2, <2>11 DEF Handle
  <2>12. CASE Forget(r) \/ Arrive(r)
    BY <2>2, <2>12 DEF Forget, Arrive
  <2> QED BY <1>1, <2>3, <2>4, <2>5, <2>6, <2>7, <2>8, <2>9, <2>10, <2>11, <2>12 DEF Step
<1>2. CASE UNCHANGED vars \/ CodeLapses \/ ThrottleLapses \/ \E t \in Tokens : SessionLapses(t)
  BY <1>2 DEF Ways, vars, CodeLapses, ThrottleLapses, SessionLapses, mine
<1> QED BY <1>1, <1>2 DEF Next

\* What was sent, has ended or has strayed stays so.
LEMMA Persist ==
  ASSUME TypeOK, Ways, [Next]_vars
  PROVE  /\ kind' = kind /\ ended \subseteq ended' /\ Strays \subseteq Strays'
         /\ \A q \in Requests : pc[q] # "idle" => pc'[q] # "idle"
<1> DEFINE Stays == /\ kind' = kind /\ ended \subseteq ended' /\ Strays \subseteq Strays'
                   /\ \A q \in Requests : pc[q] # "idle" => pc'[q] # "idle"
<1> SUFFICES Stays
  BY DEF Stays
<1>1. ASSUME NEW r \in Requests, Step(r) PROVE Stays
  <2>1. r \in Strays => who'[r] = r
    <3> SUFFICES ASSUME r \in Strays PROVE who'[r] = r
      OBVIOUS
    <3>1. who[r] = r /\ kind[r] \in {"me", "create", "post"} /\ r # NoUser /\ r \in DOMAIN who
      BY NamesDiffer DEF Strays, Users, Tokens, TypeOK
    <3>2. CASE Load(r)
      BY <3>1, <3>2 DEF Load, Ways
    <3>3. CASE Issue(r)
      BY <3>1, <3>3 DEF Issue, NewUser
    <3>4. CASE ~Load(r) /\ ~Issue(r)
      BY <1>1, <3>1, <3>4 DEF Step, Send, Throttle, Store, Mail, Unthrottle, Read, Ttl, Rewrite,
         DropSpent, Consume, Writes, Touch, Clear, Handle, Forget, Fail, Arrive, mine
    <3> QED BY <3>2, <3>3, <3>4
  <2>2. Strays \subseteq Strays'
    BY <1>1, <2>1, Local DEF Strays
  <2>3. kind' = kind /\ ended \subseteq ended' /\ \A q \in Requests : pc[q] # "idle" => pc'[q] # "idle"
    BY <1>1, Local
  <2> QED BY <2>2, <2>3
<1>2. CASE UNCHANGED vars \/ CodeLapses \/ ThrottleLapses \/ \E t \in Tokens : SessionLapses(t)
  BY <1>2 DEF Strays, vars, CodeLapses, ThrottleLapses, SessionLapses, mine, identity
<1> QED BY <1>1, <1>2 DEF Next

(***************************************************************************)
(* As long as no token ended and nobody logged out or strayed, only logins *)
(* have cookies to set, each of them stands for the member, and once one   *)
(* has arrived the browser's does too.                                     *)
(***************************************************************************)
Sure == ended = {} /\ Sent("logout") = {}
Sticks == Sure /\ Strays = {} =>
  /\ \A r \in Requests : reply[r] # NoToken => kind[r] = "verify" /\ sess[r] = Member
  /\ (\E r \in Requests : reply[r] # NoToken /\ pc[r] = "done") => UserOf(cookie) = Member

\* Under these conditions no step of a request takes the login back.
LEMMA SticksStep ==
  ASSUME TypeOK, Ways, Sticks, [Next]_vars
  PROVE  Sticks'
<1> SUFFICES ASSUME Sure', Strays' = {}
             PROVE  /\ \A r \in Requests : reply'[r] # NoToken => kind'[r] = "verify" /\ sess'[r] = Member
                    /\ (\E r \in Requests : reply'[r] # NoToken /\ pc'[r] = "done") =>
                         UserOf(cookie)' = Member
  BY DEF Sticks
<1> DEFINE Good == /\ \A q \in Requests : reply'[q] # NoToken => kind'[q] = "verify" /\ sess'[q] = Member
                   /\ (\E q \in Requests : reply'[q] # NoToken /\ pc'[q] = "done") =>
                        cookie' # NoToken /\ sess'[cookie'] = Member
<1> SUFFICES Good
  BY DEF UserOf
<1>1. Sure /\ Strays = {} /\ kind' = kind
  BY Persist DEF Sure, Sent
<1>2. /\ \A q \in Requests : reply[q] # NoToken => kind[q] = "verify" /\ sess[q] = Member
      /\ (\E q \in Requests : reply[q] # NoToken /\ pc[q] = "done") =>
           cookie # NoToken /\ sess[cookie] = Member
  BY <1>1, NamesDiffer DEF Sticks, UserOf, Users
<1>3. ASSUME NEW r \in Requests, Step(r), ~Issue(r), ~Arrive(r), ~Forget(r) PROVE Good
  <2>1. UNCHANGED <<sess, cookie, reply>>
    BY <1>3 DEF Step, Send, Throttle, Store, Mail, Unthrottle, Read, Ttl, Rewrite,
         DropSpent, Consume, Writes, Load, Touch, Touched, Clear, Handle, Fail, mine, identity
  <2>2. reply[r] # NoToken => pc'[r] # "done"  \/ pc[r] = "done"
    <3> SUFFICES ASSUME reply[r] # NoToken PROVE pc'[r] # "done" \/ pc[r] = "done"
      OBVIOUS
    <3>1. pc[r] \in {"handle", "answered", "done"}
      BY DEF Ways
    <3>2. Handle(r)
      BY <1>3, <3>1 DEF Step, Send, Throttle, Store, Mail, Unthrottle, Read, Ttl, Rewrite,
         DropSpent, Consume, Writes, Load, Touch, Clear, Handle, Fail
    <3> QED BY <3>2 DEF Handle, Goto, TypeOK
  <2>3. \A q \in Requests : reply[q] # NoToken /\ pc'[q] = "done" => pc[q] = "done"
    BY <1>3, <2>2, Local
  <2> QED BY <1>1, <1>2, <2>1, <2>3
<1>4. ASSUME NEW r \in Requests, Issue(r) PROVE Good
  <2>1. kind[r] = "verify"
    <3>1. kind[r] # "request" /\ pc'[r] # "idle"
      BY <1>4 DEF Ways, Issue, Goto, TypeOK
    <3>2. kind[r] # "logout"
      BY <1>1, <3>1 DEF Sure, Sent
    <3>3. kind[r] \notin {"me", "create", "post"}
      BY <1>1, <1>4 DEF Strays, Issue, NewUser, TypeOK
    <3> QED BY <3>1, <3>2, <3>3, KindsAreKnown DEF TypeOK
  <2>2. sess' = [sess EXCEPT ![r] = Member] /\ cookie' = cookie /\ pc'[r] = "answered"
    BY <1>4, <2>1 DEF Issue, NewUser, Goto, TypeOK
  <2>3. \A q \in Requests \ {r} : reply'[q] = reply[q] /\ pc'[q] = pc[q]
    BY <1>4, Local DEF Step
  <2>4. cookie # NoToken => cookie \in DOMAIN sess
    BY DEF TypeOK
  <2>5. DOMAIN sess = Tokens /\ r \in Tokens
    BY DEF TypeOK, Tokens
  <2>6. \A q \in Requests : reply'[q] # NoToken => kind'[q] = "verify" /\ sess'[q] = Member
    BY <1>1, <1>2, <2>1, <2>2, <2>3, <2>5 DEF Tokens
  <2>7. cookie # NoToken /\ sess[cookie] = Member => sess'[cookie] = Member
    BY <2>2, <2>4, <2>5
  <2> QED BY <1>2, <2>2, <2>3, <2>6, <2>7
<1>5. ASSUME NEW r \in Requests, Arrive(r) PROVE Good
  <2>1. cookie' = reply[r] /\ reply[r] # NoToken /\ reply[r] = r /\ UNCHANGED <<sess, reply>>
    BY <1>5 DEF Arrive, Ways, mine
  <2> QED BY <1>1, <1>2, <2>1
<1>6. ASSUME NEW r \in Requests, Forget(r) PROVE FALSE
  BY <1>1, <1>6 DEF Forget, Ways, Sure, Sent
<1>7. ASSUME NEW t \in Tokens, SessionLapses(t) PROVE FALSE
  BY <1>7 DEF SessionLapses, Sure
<1>8. CASE UNCHANGED vars \/ CodeLapses \/ ThrottleLapses
  BY <1>1, <1>2, <1>8 DEF vars, CodeLapses, ThrottleLapses, mine, identity
<1> QED BY <1>3, <1>4, <1>5, <1>6, <1>7, <1>8 DEF Next

(***************************************************************************)
(* A browser that logged in stays logged in: whatever overlapped with the  *)
(* login, only a logout, a token that ran out or a request sent without a  *)
(* live cookie undoes it (verify_code, get_current_user).                  *)
(***************************************************************************)
THEOREM LoginStays == Spec => []LoginSticks
<1>1. Init => TypeOK /\ Ways /\ Sticks
  <2>1. Init => Sticks
    BY DEF Init, Sticks
  <2> QED BY <2>1, InitTypes, WaysInit
<1>2. TypeOK /\ Ways /\ Sticks /\ [Next]_vars => Ways' /\ Sticks'
  BY WaysStep, SticksStep
<1>3. Ways /\ Sticks => LoginSticks
  BY DEF Ways, Sticks, Sure, LoginSticks, Quiet, Sent
<1> QED BY <1>1, <1>2, <1>3, TypeCorrect, PTL DEF Spec

(***************************************************************************)
(* As long as no token ended, nobody logged in or out, and at most one     *)
(* request strayed, and that is no first post, there is one identity: that *)
(* of the browser's cookie or, while the browser has none, of the stray    *)
(* whose answer is on its way. It owns all rows.                           *)
(***************************************************************************)
Homely == /\ Sure /\ Sent("verify") = {} /\ Strays \cap Sent("post") = {}
          /\ \A a, b \in Strays : a = b
Home == Homely =>
  /\ cookie \in {NoToken, Old} \cup Strays
  /\ cookie = Old => \A r \in Requests : pc[r] # "idle" => jar[r] = Old
  /\ cookie # NoToken => sess[cookie] # NoUser
  /\ cookie = Old => sess[cookie] \notin Requests
  /\ \A r \in Requests :
       /\ jar[r] \in {NoToken, cookie}
       /\ pc[r] = "issue" => jar[r] = NoToken
       /\ reply[r] # NoToken => r \in Strays
       /\ who[r] # NoUser => r \in Strays \/ (cookie # NoToken /\ who[r] = sess[cookie])
  /\ \A s \in Strays : /\ sess[s] = s /\ reply[s] = s
                       /\ IF pc[s] = "done" THEN cookie = s ELSE cookie = NoToken
  /\ rows \subseteq IF cookie = NoToken THEN Strays ELSE {sess[cookie]}

\* At first the identity is the cookie's, if it has one.
LEMMA HomeInit == Init => Home
<1> SUFFICES ASSUME Init PROVE Home
  OBVIOUS
<1>1. Strays = {} /\ Old \in Tokens /\ Old \notin Requests /\ Old # NoToken /\ NoUser \notin Requests
      /\ Member \notin Requests /\ Old # NoUser /\ Member # NoUser
  BY NamesDiffer DEF Init, Strays, Tokens, Users
<1>2. PICK user \in {NoUser, Old, Member} :
        /\ sess = [t \in Tokens |-> IF t = Old THEN user ELSE NoUser]
        /\ cookie = IF user = NoUser THEN NoToken ELSE Old
        /\ rows = {user} \ {NoUser}
  BY DEF Init
<1>3. cookie = Old => sess[cookie] = user /\ user # NoUser /\ user \notin Requests
  BY <1>1, <1>2
<1>4. \A r \in Requests : pc[r] = "idle" /\ jar[r] = NoToken /\ reply[r] = NoToken /\ who[r] = NoUser
  BY DEF Init
<1> QED BY <1>1, <1>2, <1>3, <1>4 DEF Home

\* Only a request that is given a guest of its own becomes a stray.
LEMMA StraysStay ==
  ASSUME TypeOK, Ways, Home, Homely, NEW r \in Requests, Step(r), ~Issue(r)
  PROVE  Strays' = Strays
<1>1. kind' = kind /\ \A q \in Requests \ {r} : who'[q] = who[q]
  BY Local
<1>2. CASE ~Load(r)
  <2>1. who' = who
    BY <1>2 DEF Step, Send, Throttle, Store, Mail, Unthrottle, Read, Ttl, Rewrite,
       DropSpent, Consume, Writes, Touch, Clear, Handle, Forget, Fail, Arrive, mine
  <2> QED BY <1>1, <2>1 DEF Strays
<1>3. CASE Load(r)
  <2>1. who'[r] = UserOf(jar[r]) /\ who[r] = NoUser /\ r # NoUser /\ r # Old /\ r \in Requests
    BY <1>3, NamesDiffer DEF Load, Ways, TypeOK, Users, Tokens
  <2>2. r \notin Strays
    BY <2>1 DEF Strays
  <2>3. jar[r] \in {NoToken, cookie} /\ cookie \in {NoToken, Old} \cup Strays
        /\ (cookie = Old => sess[cookie] \notin Requests) /\ \A s \in Strays : sess[s] = s
    BY DEF Home
  <2>4. who'[r] # r
    BY <2>1, <2>2, <2>3 DEF UserOf
  <2>5. r \notin Strays'
    BY <2>4 DEF Strays
  <2>6. \A q \in Requests \ {r} : q \in Strays' <=> q \in Strays
    BY <1>1 DEF Strays
  <2>7. Strays \subseteq Requests /\ Strays' \subseteq Requests
    BY DEF Strays
  <2> QED BY <2>2, <2>5, <2>6, <2>7
<1> QED BY <1>2, <1>3

\* No step gives the browser, or a chat, a second identity.
LEMMA HomeStep ==
  ASSUME TypeOK, Routes, Ways, Home, [Next]_vars
  PROVE  Home'
<1> SUFFICES ASSUME Homely' PROVE Home'
  BY DEF Home
<1> DEFINE Good ==
      /\ cookie' \in {NoToken, Old} \cup Strays'
      /\ cookie' = Old => \A q \in Requests : pc'[q] # "idle" => jar'[q] = Old
      /\ cookie' # NoToken => sess'[cookie'] # NoUser
      /\ cookie' = Old => sess'[cookie'] \notin Requests
      /\ \A q \in Requests :
           /\ jar'[q] \in {NoToken, cookie'}
           /\ pc'[q] = "issue" => jar'[q] = NoToken
           /\ reply'[q] # NoToken => q \in Strays'
           /\ who'[q] # NoUser => q \in Strays' \/ (cookie' # NoToken /\ who'[q] = sess'[cookie'])
      /\ \A s \in Strays' : /\ sess'[s] = s /\ reply'[s] = s
                            /\ IF pc'[s] = "done" THEN cookie' = s ELSE cookie' = NoToken
      /\ rows' \subseteq IF cookie' = NoToken THEN Strays' ELSE {sess'[cookie']}
<1> SUFFICES Good
  BY DEF Home
<1>1. Homely /\ kind' = kind
  BY Persist DEF Homely, Sure, Sent
<1>2. /\ cookie \in {NoToken, Old} \cup Strays
      /\ cookie = Old => \A q \in Requests : pc[q] # "idle" => jar[q] = Old
      /\ cookie # NoToken => sess[cookie] # NoUser
      /\ cookie = Old => sess[cookie] \notin Requests
  BY <1>1 DEF Home
<1>3. \A q \in Requests :
           /\ jar[q] \in {NoToken, cookie}
           /\ pc[q] = "issue" => jar[q] = NoToken
           /\ reply[q] # NoToken => q \in Strays
           /\ who[q] # NoUser => q \in Strays \/ (cookie # NoToken /\ who[q] = sess[cookie])
  BY <1>1 DEF Home
<1>4. /\ \A s \in Strays : /\ sess[s] = s /\ reply[s] = s
                           /\ IF pc[s] = "done" THEN cookie = s ELSE cookie = NoToken
      /\ rows \subseteq IF cookie = NoToken THEN Strays ELSE {sess[cookie]}
  BY <1>1 DEF Home
<1>5. \A q \in Requests : pc'[q] # "idle" => kind[q] \notin {"verify", "logout"}
  BY <1>1 DEF Homely, Sure, Sent
<1>6. /\ Strays \subseteq Requests /\ NoToken \notin Requests /\ Old \notin Requests /\ NoToken # Old
      /\ NoUser \notin Requests
      /\ \A s \in Strays : pc[s] \in {"handle", "answered", "done"} /\ who[s] = s
                           /\ kind[s] \in {"me", "create", "post"}
  <2>1. Strays \subseteq Requests /\ NoToken \notin Requests /\ Old \notin Requests /\ NoToken # Old
        /\ NoUser \notin Requests
        /\ \A s \in Strays : who[s] = s /\ kind[s] \in {"me", "create", "post"}
    BY NamesDiffer DEF Strays, Users, Tokens
  <2>2. ASSUME NEW s \in Strays PROVE pc[s] \in {"handle", "answered", "done"}
    BY <1>4, <2>1 DEF Ways
  <2> QED BY <2>1, <2>2
<1>7. ASSUME NEW r \in Requests, Send(r) PROVE Good
  <2>1. UNCHANGED <<identity, mine>> /\ jar' = [jar EXCEPT ![r] = cookie] /\ Strays' = Strays
    BY <1>1, <1>7, StraysStay DEF Step, Send, Issue, SendTo
  <2>2. pc[r] = "idle" /\ pc'[r] \in {"throttle", "load"}
    BY <1>5, <1>7, SendTo DEF TypeOK
  <2>3. \A q \in Requests \ {r} : pc'[q] = pc[q] /\ jar'[q] = jar[q]
    BY <1>7, Local DEF Step
  <2>4. jar'[r] = cookie
    BY <2>1 DEF TypeOK
  <2> QED BY <1>2, <1>3, <1>4, <1>6, <2>1, <2>2, <2>3, <2>4 DEF identity, mine
<1>8. ASSUME NEW r \in Requests, Throttle(r) \/ Store(r) \/ Mail(r) \/ Unthrottle(r) PROVE Good
  <2>1. UNCHANGED <<identity, mine, jar>>
    BY <1>8 DEF Throttle, Store, Mail, Unthrottle
  <2>2. pc[r] \in {"throttle", "store", "mail", "unthrottle"}
    BY <1>8 DEF Throttle, Store, Mail, Unthrottle
  <2>3. Strays' = Strays
    BY <1>1, <1>8, <2>2, StraysStay DEF Step, Issue
  <2>4. pc'[r] # "issue" /\ pc[r] # "idle"
    BY <1>8, <2>2 DEF Throttle, Store, Mail, Unthrottle, Goto, TypeOK
  <2>5. \A q \in Requests \ {r} : pc'[q] = pc[q]
    BY <1>8, Local DEF Step
  <2> QED BY <1>2, <1>3, <1>4, <1>6, <2>1, <2>2, <2>3, <2>4, <2>5 DEF identity, mine
<1>9. ASSUME NEW r \in Requests,
             Read(r) \/ Ttl(r) \/ Rewrite(r) \/ DropSpent(r) \/ Consume(r) \/ Clear(r) \/ Fail(r) \/ Forget(r)
      PROVE  FALSE
  <2>1. pc'[r] # "idle"
    BY <1>9, Local DEF Step
  <2>2. kind[r] \in {"verify", "logout"}
    BY <1>9 DEF Read, Ttl, Rewrite, DropSpent, Consume, Writes, Clear, Fail, Forget, Ways
  <2> QED BY <1>5, <2>1, <2>2
<1>10. ASSUME NEW r \in Requests, Load(r) PROVE Good
  <2>1. UNCHANGED <<identity, jar, reply>> /\ pc[r] \in {"load", "whoami"}
    BY <1>10 DEF Load
  <2>2. Strays' = Strays
    BY <1>1, <1>10, <2>1, StraysStay DEF Step, Issue
  <2>3. \A q \in Requests \ {r} : pc'[q] = pc[q] /\ who'[q] = who[q]
    BY <1>10, Local DEF Step
  <2>4. who'[r] = UserOf(jar[r]) /\ pc'[r] = IF UserOf(jar[r]) # NoUser THEN "touch" ELSE "issue"
    BY <1>10 DEF Load, Goto, TypeOK
  <2>5. pc'[r] = "issue" => jar[r] = NoToken
    BY <1>2, <1>3, <2>4 DEF UserOf
  <2>6. who'[r] # NoUser => cookie # NoToken /\ who'[r] = sess[cookie]
    BY <1>3, <2>4 DEF UserOf
  <2> QED BY <1>2, <1>3, <1>4, <1>6, <2>1, <2>2, <2>3, <2>5, <2>6 DEF identity
<1>11. ASSUME NEW r \in Requests, Touch(r) PROVE Good
  <2>1. UNCHANGED <<identity, jar, mine>> /\ pc[r] = "touch" /\ pc'[r] # "idle"
    BY <1>11, Local DEF Touch, Touched, identity, Step
  <2>2. Strays' = Strays
    BY <1>1, <1>11, <2>1, StraysStay DEF Step, Issue
  <2>3. pc'[r] = "handle"
    BY <1>5, <1>11, <2>1 DEF Touch, Goto, TypeOK
  <2>4. \A q \in Requests \ {r} : pc'[q] = pc[q]
    BY <1>11, Local DEF Step
  <2> QED BY <1>2, <1>3, <1>4, <1>6, <2>1, <2>2, <2>3, <2>4 DEF identity, mine
<1>12. ASSUME NEW r \in Requests, Issue(r) PROVE Good
  <2>1. pc[r] = "issue" /\ jar[r] = NoToken /\ UNCHANGED <<rows, cookie, ended, kind, jar>> /\ pc'[r] # "idle"
    BY <1>3, <1>12, Local DEF Issue, Step
  <2>2. kind[r] \in {"me", "create", "post"}
    <3>1. kind[r] # "request"
      BY <2>1 DEF Ways
    <3> QED BY <1>5, <2>1, <3>1, KindsAreKnown DEF TypeOK
  <2>3. who'[r] = r /\ sess' = [sess EXCEPT ![r] = r] /\ pc'[r] = "handle" /\ reply'[r] = Announced(r)
    BY <1>12, <2>2 DEF Issue, NewUser, Goto, TypeOK
  <2>4. \A q \in Requests \ {r} : pc'[q] = pc[q] /\ who'[q] = who[q] /\ reply'[q] = reply[q]
    BY <1>12, Local DEF Step
  <2>5. Strays' = Strays \cup {r} /\ r \notin Strays
    BY <1>1, <1>6, <2>1, <2>2, <2>3, <2>4 DEF Strays
  <2>6. Strays = {} /\ Strays' = {r}
    BY <2>5 DEF Homely
  <2>7. reply'[r] = r
    <3>1. kind[r] # "post"
      BY <1>1, <2>1, <2>6 DEF Homely, Sent
    <3> QED BY <2>3, <3>1 DEF Announced
  <2>8. cookie = NoToken
    BY <1>2, <1>6, <2>1, <2>6
  <2>9. sess'[r] = r
    BY <2>3 DEF TypeOK, Tokens
  <2> QED BY <1>2, <1>3, <1>4, <1>6, <2>1, <2>3, <2>4, <2>6, <2>7, <2>8, <2>9
<1>13. ASSUME NEW r \in Requests, Handle(r) PROVE Good
  <2>1. pc[r] = "handle" /\ UNCHANGED <<sess, cookie, ended, mine, kind, jar>>
        /\ rows' \subseteq rows \cup {who[r]}
    BY <1>13 DEF Handle
  <2>2. Strays' = Strays
    BY <1>1, <1>13, <2>1, StraysStay DEF Step, Issue
  <2>3. pc'[r] = IF reply[r] = NoToken THEN "done" ELSE "answered"
    BY <1>13 DEF Handle, Goto, TypeOK
  <2>4. \A q \in Requests \ {r} : pc'[q] = pc[q]
    BY <1>13, Local DEF Step
  <2>5. rows' \subseteq IF cookie = NoToken THEN Strays ELSE {sess[cookie]}
    <3>1. who[r] # NoUser
      BY <2>1, NamesDiffer DEF Routes
    <3>2. CASE r \in Strays
      BY <1>4, <1>6, <2>1, <3>2
    <3>3. CASE r \notin Strays
      BY <1>3, <1>4, <2>1, <3>1, <3>3
    <3> QED BY <3>2, <3>3
  <2> QED BY <1>2, <1>3, <1>4, <1>6, <2>1, <2>2, <2>3, <2>4, <2>5 DEF mine
<1>14. ASSUME NEW r \in Requests, Arrive(r) PROVE Good
  <2>1. pc[r] = "answered" /\ cookie' = reply[r] /\ UNCHANGED <<sess, rows, ended, mine, kind, jar>>
    BY <1>14 DEF Arrive
  <2>2. Strays' = Strays
    BY <1>1, <1>14, <2>1, StraysStay DEF Step, Issue
  <2>3. reply[r] = r /\ r \in Strays /\ pc'[r] = "done"
    BY <1>3, <1>14, <2>1 DEF Ways, Arrive, Goto, TypeOK
  <2>4. \A q \in Requests \ {r} : pc'[q] = pc[q]
    BY <1>14, Local DEF Step
  <2>5. Strays = {r} /\ cookie = NoToken /\ sess[r] = r
    BY <1>1, <1>4, <2>1, <2>3 DEF Homely
  <2> QED BY <1>2, <1>3, <1>4, <1>6, <2>1, <2>2, <2>3, <2>4, <2>5 DEF mine
<1>15. ASSUME NEW t \in Tokens, SessionLapses(t) PROVE FALSE
  BY <1>15 DEF SessionLapses, Homely, Sure
<1>16. CASE UNCHANGED vars \/ CodeLapses \/ ThrottleLapses
  <2>1. UNCHANGED <<identity, mine, kind, pc, jar>>
    BY <1>16 DEF vars, CodeLapses, ThrottleLapses, mine, identity
  <2>2. Strays' = Strays
    BY <2>1 DEF Strays, mine
  <2> QED BY <1>2, <1>3, <1>4, <2>1, <2>2 DEF identity, mine
<1> QED BY <1>7, <1>8, <1>9, <1>10, <1>11, <1>12, <1>13, <1>14, <1>15, <1>16 DEF Next, Step

\* One step makes one stray at most.
LEMMA FewStrays ==
  ASSUME TypeOK, [Next]_vars, IsFiniteSet(Strays)
  PROVE  IsFiniteSet(Strays')
<1>1. ASSUME NEW r \in Requests, Step(r) PROVE IsFiniteSet(Strays')
  <2>1. Strays' \subseteq Strays \cup {r}
    BY <1>1, Local DEF Strays
  <2>2. IsFiniteSet(Strays \cup {r})
    BY FS_AddElement
  <2> QED BY <2>1, <2>2, FS_Subset
<1>2. CASE UNCHANGED vars \/ CodeLapses \/ ThrottleLapses \/ \E t \in Tokens : SessionLapses(t)
  BY <1>2 DEF Strays, vars, CodeLapses, ThrottleLapses, SessionLapses, mine
<1> QED BY <1>1, <1>2 DEF Next

(***************************************************************************)
(* A reload finds every chat the browser made (get_current_user, and the   *)
(* answers that carry its cookie), with the exceptions that RoomsReachable *)
(* names: a first post, and two first requests that overlap.               *)
(***************************************************************************)
THEOREM RoomsAreReachable == Spec => []RoomsReachable
<1>1. Init => Ways /\ Home /\ IsFiniteSet(Strays)
  <2>1. Init => Strays = {}
    BY NamesDiffer DEF Init, Strays, Users, Tokens
  <2> QED BY <2>1, WaysInit, HomeInit, FS_EmptySet
<1>2. TypeOK /\ Routes /\ Ways /\ Home /\ IsFiniteSet(Strays) /\ [Next]_vars =>
        Ways' /\ Home' /\ IsFiniteSet(Strays)'
  BY WaysStep, HomeStep, FewStrays
<1>3. Ways /\ Home /\ IsFiniteSet(Strays) => RoomsReachable
  <2> SUFFICES ASSUME Ways, Home, IsFiniteSet(Strays), Quiet, ended = {}, Sent("logout") = {},
                      Sent("verify") = {}, Cardinality(Strays) <= 1, Strays \cap Sent("post") = {}
               PROVE  rows \subseteq {UserOf(cookie)}
    BY DEF RoomsReachable
  <2>1. ASSUME NEW a \in Strays, NEW b \in Strays, a # b PROVE FALSE
    <3>1. Cardinality(Strays) \in Nat
      BY FS_CardinalityType
    <3>2. IsFiniteSet({a}) /\ Cardinality({a}) = 1
      BY FS_Singleton
    <3>3. {a} \in SUBSET Strays
      OBVIOUS
    <3>4. Cardinality({a}) <= Cardinality(Strays)
      BY <3>3, FS_Subset
    <3>5. Cardinality(Strays) = Cardinality({a})
      BY <3>1, <3>2, <3>4
    <3>6. Strays = {a}
      BY <3>3, <3>5, FS_Subset
    <3> QED BY <2>1, <3>6
  <2>2. Homely
    BY <2>1 DEF Homely, Sure
  <2>3. /\ \A s \in Strays : /\ sess[s] = s /\ reply[s] = s
                             /\ IF pc[s] = "done" THEN cookie = s ELSE cookie = NoToken
        /\ rows \subseteq IF cookie = NoToken THEN Strays ELSE {sess[cookie]}
    BY <2>2 DEF Home
  <2>4. ASSUME NEW s \in Strays PROVE cookie = s /\ s # NoToken
    <3>1. s \in Requests /\ s # NoToken
      BY NamesDiffer DEF Strays, Tokens
    <3>2. pc[s] = "done"
      BY <2>3, <3>1 DEF Ways, Quiet
    <3> QED BY <2>3, <3>1, <3>2
  <2> QED BY <2>3, <2>4 DEF UserOf
<1> QED BY <1>1, <1>2, <1>3, Inductive, PTL DEF Spec

=============================================================================
