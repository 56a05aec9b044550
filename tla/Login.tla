------------------------------- MODULE Login -------------------------------
(***************************************************************************)
(* One visitor's identity: the one-time codes of one email address, the    *)
(* login sessions in Redis, the browser's cookie, and which identity owns  *)
(* chat sessions. Every Redis or mail call is a step, and nothing orders   *)
(* the steps of two requests. Codes of different addresses do not meet.    *)
(*                                                                         *)
(* A drawn code, a session token and a guest id are named by the request   *)
(* that made them: that two draws coincide is not modelled. A record that  *)
(* does not parse is never written, so the branches for one are left out.  *)
(***************************************************************************)
EXTENDS Naturals, FiniteSets

CONSTANTS Requests,     \* HTTP requests of this visitor
          Kinds,        \* request, verify, logout, me, create, post
          MaxAttempts,  \* OTP_MAX_ATTEMPTS
          Member,       \* the users row of the address
          Old,          \* a code, a token and a guest from before the run
          NoCode, NoToken, NoUser, Mistyped

Codes == Requests \cup {Old}
Tokens == Requests \cup {Old}
Users == Tokens \cup {Member}
Record == [code : Codes, attempts : 0..MaxAttempts, renewed : BOOLEAN]

Calls == {"idle", "throttle", "store", "mail", "unthrottle", "get", "drop", "ttl",
          "rewrite", "consume", "whoami", "touch", "clear", "forget", "load", "issue",
          "handle", "answered", "done"}

ASSUME KindsAreKnown ==
  Kinds \subseteq {"request", "verify", "logout", "me", "create", "post"}
ASSUME LimitIsNat == MaxAttempts \in Nat \ {0}
ASSUME NamesDiffer ==
  /\ Old \notin Requests /\ Member \notin Tokens
  /\ NoUser \notin Users /\ NoToken \notin Tokens
  /\ NoCode \notin Record /\ NoCode \notin Codes /\ Mistyped \notin Codes

VARIABLES otp,       \* otp:{email}; renewed: its TTL was set anew by a wrong try
          throttle,  \* otp_rate:{email} exists
          sess,      \* sess[t]: the user of sess:{t}
          rows,      \* the users that own rows in sessions
          cookie,    \* the browser's chat_session cookie
          kind,      \* kind[r]: what r asks for
          pc,        \* pc[r]: the call r makes next
          jar,       \* jar[r]: the cookie r was sent with
          typed,     \* typed[r]: the code in r's body
          seen,      \* seen[r]: the record r's verify_otp read
          left,      \* left[r]: the time r's ttl call found: none, a rest of
                     \* the key's first life, or of one given to it again
          verdict,   \* verdict[r]: what r's verify_otp returned
          who,       \* who[r]: the user r's cookie stands for
          reply,     \* reply[r]: the token r's answer sets
          inbox,     \* history: the codes mailed
          newest,    \* history: the last one mailed, if none was stored since
          mails,     \* history: mails sent since the throttle last ran out
          doubted,   \* history: those of them whose call raised all the same
          due,       \* history: codes whose ten minutes have passed
          ended,     \* history: tokens that were deleted or ran out
          raced,     \* history: a try acted on a record that had changed
          late       \* history: the throttle ran out under its own request

vars == <<otp, throttle, sess, rows, cookie, kind, pc, jar, typed, seen, left,
          verdict, who, reply, inbox, newest, mails, doubted, due, ended, raced,
          late>>
code == <<otp, throttle, inbox, newest, mails, doubted, due, raced, late>>
try == <<typed, seen, left, verdict>>
identity == <<sess, rows, cookie, ended>>
mine == <<who, reply>>

TypeOK ==
  /\ otp \in Record \cup {NoCode}
  /\ throttle \in BOOLEAN
  /\ sess \in [Tokens -> Users \cup {NoUser}]
  /\ rows \subseteq Users
  /\ cookie \in Tokens \cup {NoToken}
  /\ kind \in [Requests -> Kinds]
  /\ pc \in [Requests -> Calls]
  /\ jar \in [Requests -> Tokens \cup {NoToken}]
  /\ typed \in [Requests -> Codes \cup {Mistyped}]
  /\ seen \in [Requests -> Record \cup {NoCode}]
  /\ left \in [Requests -> {"none", "first", "again"}]
  /\ verdict \in [Requests -> {"open", "right", "wrong", "refused"}]
  /\ who \in [Requests -> Users \cup {NoUser}]
  /\ reply \in [Requests -> Tokens \cup {NoToken}]
  /\ inbox \subseteq Codes /\ newest \in Codes \cup {NoCode}
  /\ mails \in Nat /\ doubted \in Nat
  /\ due \subseteq Codes /\ ended \subseteq Tokens
  /\ raced \in BOOLEAN /\ late \in BOOLEAN

(***************************************************************************)
(* The run starts with a code in the mail or none, and with a first visit, *)
(* a guest or a member in the browser.                                     *)
(***************************************************************************)
Init ==
  /\ \E mailed \in BOOLEAN :
       /\ otp = IF mailed
                THEN [code |-> Old, attempts |-> 0, renewed |-> FALSE]
                ELSE NoCode
       /\ newest = IF mailed THEN Old ELSE NoCode
       /\ inbox = IF mailed THEN {Old} ELSE {}
  /\ \E user \in {NoUser, Old, Member} :
       /\ sess = [t \in Tokens |-> IF t = Old THEN user ELSE NoUser]
       /\ cookie = IF user = NoUser THEN NoToken ELSE Old
       /\ rows = {user} \ {NoUser}
  /\ throttle = FALSE
  /\ kind \in [Requests -> Kinds]
  /\ pc = [r \in Requests |-> "idle"]
  /\ jar = [r \in Requests |-> NoToken]
  /\ typed = [r \in Requests |-> Mistyped]
  /\ seen = [r \in Requests |-> NoCode]
  /\ left = [r \in Requests |-> "none"]
  /\ verdict = [r \in Requests |-> "open"]
  /\ who = [r \in Requests |-> NoUser]
  /\ reply = [r \in Requests |-> NoToken]
  /\ mails = 0 /\ doubted = 0 /\ due = {} /\ ended = {} /\ raced = FALSE /\ late = FALSE

Goto(r, step) == pc' = [pc EXCEPT ![r] = step]

FirstCall == [request |-> "throttle", verify |-> "get", logout |-> "forget",
              me |-> "load", create |-> "load", post |-> "load"]

\* The browser sends r with the cookie it has; a verify carries a mailed code
\* or a mistyped one.
Send(r) ==
  /\ pc[r] = "idle"
  /\ Goto(r, FirstCall[kind[r]])
  /\ jar' = [jar EXCEPT ![r] = cookie]
  /\ IF kind[r] = "verify"
       THEN \E c \in inbox \cup {Mistyped} : typed' = [typed EXCEPT ![r] = c]
       ELSE UNCHANGED typed
  /\ UNCHANGED <<code, identity, mine, kind, seen, left, verdict>>

-----------------------------------------------------------------------------
(* POST /api/auth/request *)

\* can_send_otp: SET NX EX; 429 when the key is there.
Throttle(r) ==
  /\ pc[r] = "throttle"
  /\ throttle' = TRUE
  /\ Goto(r, IF throttle THEN "done" ELSE "store")
  /\ UNCHANGED <<otp, inbox, newest, mails, doubted, due, raced, late, try, identity,
                 mine, kind, jar>>

\* store_otp: the new code replaces whatever is stored, before it is mailed.
Store(r) ==
  /\ pc[r] = "store"
  /\ otp' = [code |-> r, attempts |-> 0, renewed |-> FALSE]
  /\ newest' = NoCode
  /\ Goto(r, "mail")
  /\ UNCHANGED <<throttle, inbox, mails, doubted, due, raced, late, try, identity,
                 mine, kind, jar>>

\* The mail goes out.
Mailed(r) == inbox' = inbox \cup {r} /\ newest' = r /\ mails' = mails + 1

\* Mutant: the throttle is lifted whether the mail went out or not.
MailThenUnthrottle(r) ==
  /\ pc[r] = "mail"
  /\ Goto(r, "unthrottle")
  /\ Mailed(r) \/ UNCHANGED <<inbox, newest, mails>>
  /\ UNCHANGED <<otp, throttle, doubted, due, raced, late, try, identity, mine, kind,
                 jar>>

\* send_otp_email. When it raises, the throttle is lifted and the answer is 502;
\* it may raise after the mail service took the mail, on a timeout or a reply it
\* cannot read.
Mail(r) ==
  /\ pc[r] = "mail"
  /\ \/ Goto(r, "done") /\ Mailed(r) /\ UNCHANGED doubted
     \/ Goto(r, "unthrottle") /\ UNCHANGED <<inbox, newest, mails, doubted>>
     \/ Goto(r, "unthrottle") /\ Mailed(r) /\ doubted' = doubted + 1
  /\ UNCHANGED <<otp, throttle, due, raced, late, try, identity, mine, kind, jar>>

Unthrottle(r) ==
  /\ pc[r] = "unthrottle"
  /\ throttle' = FALSE
  /\ Goto(r, "done")
  /\ UNCHANGED <<otp, inbox, newest, mails, doubted, due, raced, late, try, identity,
                 mine, kind, jar>>

-----------------------------------------------------------------------------
(* POST /api/auth/verify: verify_otp *)

\* Mutant: attempts > OTP_MAX_ATTEMPTS.
AfterGetOneMore(r) ==
  CASE otp = NoCode -> "done"
    [] otp # NoCode /\ otp.attempts > MaxAttempts -> "drop"
    [] otp # NoCode /\ otp.attempts <= MaxAttempts /\ typed[r] # otp.code -> "ttl"
    [] OTHER -> "consume"

\* Mutant: the try at hand is counted before it is compared.
AfterGetOneLess(r) ==
  CASE otp = NoCode -> "done"
    [] otp # NoCode /\ otp.attempts + 1 >= MaxAttempts -> "drop"
    [] otp # NoCode /\ otp.attempts + 1 < MaxAttempts /\ typed[r] # otp.code -> "ttl"
    [] OTHER -> "consume"

AfterGet(r) ==
  CASE otp = NoCode -> "done"
    [] otp # NoCode /\ otp.attempts >= MaxAttempts -> "drop"
    [] otp # NoCode /\ otp.attempts < MaxAttempts /\ typed[r] # otp.code -> "ttl"
    [] OTHER -> "consume"

Read(r) ==
  /\ pc[r] = "get"
  /\ seen' = [seen EXCEPT ![r] = otp]
  /\ Goto(r, AfterGet(r))
  /\ verdict' = [verdict EXCEPT ![r] = IF otp = NoCode THEN "refused" ELSE @]
  /\ UNCHANGED <<code, identity, mine, kind, jar, typed, left>>

\* Redis rounds to seconds: in the last half second of a key its TTL is 0, and
\* the code takes that for no time left, as it does the -2 of a key that is gone.
Ttl(r) ==
  /\ pc[r] = "ttl"
  /\ \E time \in IF otp = NoCode THEN {"none"}
                 ELSE {"none", IF otp.renewed THEN "again" ELSE "first"} :
       left' = [left EXCEPT ![r] = time]
  /\ Goto(r, "rewrite")
  /\ UNCHANGED <<code, identity, mine, kind, jar, typed, seen, verdict>>

\* What a wrong try stores: the record it read with one more attempt, for the
\* time that was left, or for the full time when none was.
Counted(r) == [code |-> seen[r].code, attempts |-> seen[r].attempts + 1,
               renewed |-> left[r] # "first"]

\* The three ways verify_otp writes: it acts on the record it has read.
Writes(r, step, record, returns) ==
  /\ pc[r] = step
  /\ otp' = record
  /\ raced' = (raced \/ otp # seen[r])
  /\ verdict' = [verdict EXCEPT ![r] = returns]
  /\ UNCHANGED <<throttle, inbox, newest, mails, doubted, due, late, identity, mine,
                 kind, jar, typed, seen, left>>

Rewrite(r) == Writes(r, "rewrite", Counted(r), "wrong") /\ Goto(r, "done")
DropSpent(r) == Writes(r, "drop", NoCode, "refused") /\ Goto(r, "done")
\* Mutant: an accepted code is not deleted.
ConsumeKeeps(r) == Writes(r, "consume", otp, "right") /\ Goto(r, "whoami")
Consume(r) == Writes(r, "consume", NoCode, "right") /\ Goto(r, "whoami")

-----------------------------------------------------------------------------
(* Login sessions: load_login_session, get_current_user, verify_code, logout *)

UserOf(t) == IF t = NoToken THEN NoUser ELSE sess[t]
\* Mutant: whoever logs in is cleared.
IsGuestOrMember(u) == u # NoUser
IsGuest(u) == u \in Tokens

\* GET sess:{token}. Without a user, a verify goes on and any other request
\* gets a guest of its own.
Load(r) ==
  /\ pc[r] \in {"load", "whoami"}
  /\ who' = [who EXCEPT ![r] = UserOf(jar[r])]
  /\ Goto(r, IF UserOf(jar[r]) # NoUser THEN "touch" ELSE "issue")
  /\ UNCHANGED <<code, try, identity, kind, jar, reply>>

\* Mutant: the session is renewed by writing it again.
TouchedBySet(r) == [sess EXCEPT ![jar[r]] = who[r]]

\* EXPIRE sess:{token}: a key that is gone meanwhile stays gone.
Touched(r) == sess

Touch(r) ==
  /\ pc[r] = "touch"
  /\ sess' = Touched(r)
  /\ Goto(r, CASE kind[r] # "verify" -> "handle"
               [] kind[r] = "verify" /\ IsGuest(who[r]) -> "clear"
               [] OTHER -> "issue")
  /\ UNCHANGED <<code, try, rows, cookie, ended, mine, kind, jar>>

\* delete_user_sessions of the guest that logs in.
Clear(r) ==
  /\ pc[r] = "clear"
  /\ rows' = rows \ {who[r]}
  /\ Goto(r, "issue")
  /\ UNCHANGED <<code, try, sess, cookie, ended, mine, kind, jar>>

\* Mutant: POST /sessions returns a Response of its own.
AnnouncedByMe(r) == IF kind[r] \in {"post", "create"} THEN NoToken ELSE r

\* An answer built by FastAPI from the handler's value carries the cookie that
\* was set on the injected Response; a StreamingResponse of the handler's own
\* does not.
Announced(r) == IF kind[r] = "post" THEN NoToken ELSE r

\* Mutant: a login keeps the identity the browser had.
NewUserKept(r) == IF kind[r] = "verify"
                    THEN IF who[r] = NoUser THEN Member ELSE who[r]
                    ELSE r

\* create_login_session for the member, create_guest_session for the others.
NewUser(r) == IF kind[r] = "verify" THEN Member ELSE r

Issue(r) ==
  /\ pc[r] = "issue"
  /\ sess' = [sess EXCEPT ![r] = NewUser(r)]
  /\ who' = [who EXCEPT ![r] = NewUser(r)]
  /\ reply' = [reply EXCEPT ![r] = Announced(r)]
  /\ Goto(r, IF kind[r] \in {"verify", "logout"} THEN "answered" ELSE "handle")
  /\ UNCHANGED <<code, try, rows, cookie, ended, kind, jar>>

\* The handler itself: POST /sessions and a first post insert a row.
Handle(r) ==
  /\ pc[r] = "handle"
  /\ rows' = IF kind[r] = "me" THEN rows ELSE rows \cup {who[r]}
  /\ Goto(r, IF reply[r] = NoToken THEN "done" ELSE "answered")
  /\ UNCHANGED <<code, try, sess, cookie, ended, mine, kind, jar>>

\* clear_session_cookie: DEL sess:{token} of the cookie r came with.
Forget(r) ==
  /\ pc[r] = "forget"
  /\ IF jar[r] = NoToken
       THEN UNCHANGED <<sess, ended>>
       ELSE /\ sess' = [sess EXCEPT ![jar[r]] = NoUser]
            /\ ended' = ended \cup {jar[r]}
  /\ Goto(r, "issue")
  /\ UNCHANGED <<code, try, rows, cookie, mine, kind, jar>>

\* PostgreSQL fails while a verify clears the guest's rows or upserts the
\* user: 500, and the code stays spent.
Fail(r) ==
  /\ kind[r] = "verify" /\ pc[r] \in {"clear", "issue"}
  /\ Goto(r, "done")
  /\ UNCHANGED <<code, try, identity, mine, kind, jar>>

\* Answers arrive in any order; the last cookie to arrive is the one kept. An
\* answer without a cookie changes nothing here: its request is done at once.
Arrive(r) ==
  /\ pc[r] = "answered"
  /\ Goto(r, "done")
  /\ cookie' = reply[r]
  /\ UNCHANGED <<code, try, sess, rows, ended, mine, kind, jar>>

-----------------------------------------------------------------------------
(* Time *)

\* A code's ten minutes pass: its key goes with them, or it was given a new life
\* and goes when that ends. The ten minutes are meant up to the time the calls
\* take and the half second that the TTL is rounded by.
CodeLapses ==
  /\ otp # NoCode
  /\ due' = due \cup {otp.code}
  /\ \/ otp' = NoCode
     \/ otp.renewed /\ otp.code \notin due /\ UNCHANGED otp
  /\ UNCHANGED <<throttle, inbox, newest, mails, doubted, raced, late, identity, try,
                 mine, kind, pc, jar>>

ThrottleLapses ==
  /\ throttle
  /\ throttle' = FALSE /\ mails' = 0 /\ doubted' = 0
  /\ late' = (late \/ \E r \in Requests : pc[r] \in {"store", "mail", "unthrottle"})
  /\ UNCHANGED <<otp, inbox, newest, due, raced, identity, try, mine, kind, pc, jar>>

\* Thirty days without a request on the token.
SessionLapses(t) ==
  /\ sess[t] # NoUser
  /\ sess' = [sess EXCEPT ![t] = NoUser]
  /\ ended' = ended \cup {t}
  /\ UNCHANGED <<code, rows, cookie, try, mine, kind, pc, jar>>

Step(r) ==
  \/ Send(r) \/ Arrive(r)
  \/ Throttle(r) \/ Store(r) \/ Mail(r) \/ Unthrottle(r)
  \/ Read(r) \/ Ttl(r) \/ Rewrite(r) \/ DropSpent(r) \/ Consume(r)
  \/ Load(r) \/ Touch(r) \/ Clear(r) \/ Issue(r) \/ Handle(r) \/ Forget(r)
  \/ Fail(r)

Next ==
  \/ \E r \in Requests : Step(r)
  \/ CodeLapses \/ ThrottleLapses
  \/ \E t \in Tokens : SessionLapses(t)

Spec == Init /\ [][Next]_vars

-----------------------------------------------------------------------------
(* Properties *)

Rights(c) == {r \in Requests : verdict[r] = "right" /\ typed[r] = c}
Wrongs(c) == {r \in Requests : verdict[r] = "wrong" /\ seen[r].code = c}
Revived(c) == \E r \in Wrongs(c) : left[r] = "none"

\* The code that was mailed last is the one that is stored, until it is used,
\* its ten minutes pass, it was missed MaxAttempts times or another is asked
\* for. Two histories are left out, where the code promises less: tries that
\* overlap (a wrong one writes an older record back, a right one deletes a
\* newer one) and a mail that takes longer than the throttle lasts.
MailedCodeWorks ==
  ~raced /\ ~late /\ newest # NoCode =>
    \/ otp # NoCode /\ otp.code = newest
    \/ Rights(newest) # {} \/ newest \in due
    \/ Cardinality(Wrongs(newest)) >= MaxAttempts

\* A stored code has let nobody in yet, its counter is the number of wrong tries
\* on it, and it is older than ten minutes only if one of those tries found no
\* time left on it: verify_otp reads, decides and writes in three or four calls
\* and promises this only for tries that do not overlap with each other, with a
\* new code, or with the end of the ten minutes.
SpentCodeIsGone ==
  ~raced /\ otp # NoCode =>
    /\ Rights(otp.code) = {} /\ otp.attempts = Cardinality(Wrongs(otp.code))
    /\ otp.code \in due => Revived(otp.code)

\* Within one throttle period a further mail goes out only after one whose call
\* raised although it went out, however requests overlap and mails fail. It takes
\* a mail slower than the period to break this: its failure then lifts the
\* throttle of a later request.
MailsSpaced == ~late => mails <= 1 + doubted

\* A token that was logged out or ran out never stands for a user again:
\* load_login_session renews the key with EXPIRE after it has read it, and a
\* logout may come in between.
EndedStaysOut == \A t \in ended : sess[t] = NoUser

Quiet == \A r \in Requests : pc[r] \in {"idle", "done"}
Sent(k) == {r \in Requests : kind[r] = k /\ pc[r] # "idle"}
\* Requests that came without a live cookie and were made a guest of their own.
Strays == {r \in Requests : kind[r] \in {"me", "create", "post"} /\ who[r] = r}

\* Once everything is answered, a browser that logged in is logged in, whatever
\* overlapped with the login: only a logout, a session that ran out, or a
\* request sent without a live cookie, whose guest cookie comes late, undoes it.
LoginSticks ==
  /\ Quiet /\ ended = {} /\ Sent("logout") = {} /\ Strays = {}
  /\ \E r \in Sent("verify") : reply[r] # NoToken
  => UserOf(cookie) = Member

\* The chats a browser made belong to the identity its cookie stands for, so
\* that a reload finds them. Exceptions in the code: the stream of a first
\* post never sends its cookie, and of two first requests one cookie is lost.
RoomsReachable ==
  /\ Quiet /\ ended = {} /\ Sent("logout") = {} /\ Sent("verify") = {}
  /\ Cardinality(Strays) <= 1 /\ Strays \cap Sent("post") = {}
  => rows \subseteq {UserOf(cookie)}

\* No login takes a member's chats away: verify_code deletes the rows of the
\* identity it found in the cookie, and only when that is a guest's.
MemberRowsStay == [][(Member \in rows) => (Member \in rows')]_vars
=============================================================================
