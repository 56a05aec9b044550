--------------------------- MODULE GenerationLock ---------------------------
(***************************************************************************)
(* The per-session generation lock: the key gen:{session_id} in Redis,     *)
(* taken with SET NX EX by the routes that run the Agent and given back    *)
(* with a compare-and-delete script when the response body ends.           *)
(*                                                                         *)
(* A request that runs the Agent is seen here only through the lock: it    *)
(* arrives, is refused with 409 or generates, and then ends or is lost.    *)
(* Module ChatTurn has the whole request and implements this module.       *)
(*                                                                         *)
(* A token is a fresh uuid4, so a request stands for the token it draws.   *)
(* Time is not modelled: a key with a TTL may lapse at any moment, since   *)
(* nothing renews it and nothing bounds how long a stream lasts.           *)
(***************************************************************************)
CONSTANTS Requests,  \* requests that run the Agent, in all workers
          Sessions,  \* session ids
          Free       \* the key does not exist

ASSUME FreeIsNoToken == Free \notin Requests

VARIABLES lock,     \* lock[s]: the token stored under gen:{s}
          session,  \* session[r]: the session id in the path of r
          stage,    \* stage[r]: how far r has come
          lapsed    \* history: the tokens that Redis let expire

vars == <<lock, session, stage, lapsed>>

Stages == {"arriving", "generating", "ended", "refused", "lost"}

TypeOK ==
  /\ lock \in [Sessions -> Requests \cup {Free}]
  /\ session \in [Requests -> Sessions]
  /\ stage \in [Requests -> Stages]
  /\ lapsed \subseteq Requests

Init ==
  /\ lock = [s \in Sessions |-> Free]
  /\ session \in [Requests -> Sessions]
  /\ stage = [r \in Requests |-> "arriving"]
  /\ lapsed = {}

(***************************************************************************)
(* SET key token NX EX ttl found no key: r owns the session.               *)
(***************************************************************************)
Acquire(r) ==
  /\ stage[r] = "arriving"
  /\ lock[session[r]] = Free
  /\ lock' = [lock EXCEPT ![session[r]] = r]
  /\ stage' = [stage EXCEPT ![r] = "generating"]
  /\ UNCHANGED <<session, lapsed>>

(***************************************************************************)
(* The key exists: the route answers 409 "session is generating".          *)
(***************************************************************************)
Refuse(r) ==
  /\ stage[r] = "arriving"
  /\ lock[session[r]] # Free
  /\ stage' = [stage EXCEPT ![r] = "refused"]
  /\ UNCHANGED <<lock, session, lapsed>>

\* Mutant of Released: a plain DEL in place of the compare-and-delete script.
PlainDelete(s, r) == Free

\* Mutant of Released: the script tests the wrong way round.
DeleteForeign(s, r) == IF lock[s] = r THEN lock[s] ELSE Free

(***************************************************************************)
(* What the release script leaves under the key of s when r runs it: the   *)
(* key goes only if it still holds the token of r.                         *)
(***************************************************************************)
Released(s, r) == IF lock[s] = r THEN Free ELSE lock[s]

(***************************************************************************)
(* The body of r is over (finished, failed or closed by the client) and    *)
(* its finally clause releases the lock.                                   *)
(***************************************************************************)
End(r) ==
  /\ stage[r] = "generating"
  /\ lock' = [lock EXCEPT ![session[r]] = Released(session[r], r)]
  /\ stage' = [stage EXCEPT ![r] = "ended"]
  /\ UNCHANGED <<session, lapsed>>

(***************************************************************************)
(* r is gone without a release: its worker died, or an error left the      *)
(* handler on a path that does not release, or Redis refused the release.  *)
(***************************************************************************)
Lose(r) ==
  /\ stage[r] = "generating"
  /\ stage' = [stage EXCEPT ![r] = "lost"]
  /\ UNCHANGED <<lock, session, lapsed>>

\* Mutant of Lapse: an absent key expires as well.
LapseAnyKey(s) ==
  /\ lapsed' = lapsed \cup {lock[s]}
  /\ lock' = [lock EXCEPT ![s] = Free]
  /\ UNCHANGED <<session, stage>>

\* Mutant of Lapse: SET NX without EX, so the key never expires.
NoTtl(s) == FALSE

(***************************************************************************)
(* The TTL of gen:{s} runs out, whether its owner still runs or not.       *)
(***************************************************************************)
Lapse(s) ==
  /\ lock[s] # Free
  /\ lapsed' = lapsed \cup {lock[s]}
  /\ lock' = [lock EXCEPT ![s] = Free]
  /\ UNCHANGED <<session, stage>>

Next ==
  \/ \E r \in Requests : Acquire(r) \/ Refuse(r) \/ End(r) \/ Lose(r)
  \/ \E s \in Sessions : Lapse(s)

Spec == Init /\ [][Next]_vars

(***************************************************************************)
(* Redis expires every key that has a TTL. Nothing else is assumed: a      *)
(* request may generate for ever or vanish.                                *)
(***************************************************************************)
FairSpec == Spec /\ \A s \in Sessions : WF_vars(Lapse(s))

-----------------------------------------------------------------------------
(***************************************************************************)
(* At most one run per session: two requests generate for the same session *)
(* only if one of them has outlived its TTL, which is the one exception    *)
(* the service documents at GENERATION_LOCK_TTL_SECONDS. In particular the *)
(* late release of a request that lost its lock frees nobody else's.       *)
(***************************************************************************)
SingleFlight ==
  \A r, q \in Requests :
    /\ r # q
    /\ stage[r] = "generating"
    /\ stage[q] = "generating"
    /\ session[r] = session[q]
    => r \in lapsed \/ q \in lapsed

(***************************************************************************)
(* A stored token belongs to a request of that session that is generating  *)
(* or lost: no orderly end, whatever came before it, leaves a session      *)
(* locked behind it.                                                       *)
(***************************************************************************)
NoOrphanLock ==
  \A s \in Sessions :
    lock[s] # Free =>
      /\ session[lock[s]] = s
      /\ stage[lock[s]] \in {"generating", "lost"}

(***************************************************************************)
(* No session stays locked by the same token for ever, not even after a    *)
(* worker died in the middle of a stream: the safety net of the TTL.       *)
(***************************************************************************)
LockTurnsOver ==
  \A s \in Sessions, r \in Requests : lock[s] = r ~> lock[s] # r

(***************************************************************************)
(* The inductive strengthening of SingleFlight: whoever generates and has  *)
(* not lapsed is the one whose token is stored.                            *)
(***************************************************************************)
HolderIsStored ==
  \A r \in Requests :
    stage[r] = "generating" /\ r \notin lapsed => lock[session[r]] = r

IInv == TypeOK /\ HolderIsStored /\ NoOrphanLock

=============================================================================
