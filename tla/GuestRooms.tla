----------------------------- MODULE GuestRooms -----------------------------
(***************************************************************************)
(* The sessions of one guest and the requests that add to them or take     *)
(* them away. A guest may keep GUEST_MAX_SESSIONS sessions: before a new   *)
(* row is inserted the oldest ones are deleted to make room. Counting,     *)
(* deleting and inserting are three transactions, and nothing serialises   *)
(* the requests of a guest (the generation lock is per session).           *)
(*                                                                         *)
(* rooms has the created_at of each row. save_session draws it before it   *)
(* waits for a pool connection, so rows need not be committed in the order *)
(* of their stamps. The workers share a clock that never steps back and    *)
(* gives no two rows the same stamp.                                       *)
(*                                                                         *)
(* A session's content is left to module ChatTurn; here a post matters for *)
(* the row it inserts at its start and again, by the same upsert, when its *)
(* answer is stored.                                                       *)
(***************************************************************************)
EXTENDS Naturals, FiniteSets, SequencesExt

CONSTANTS Requests,     \* HTTP requests of this guest, in all workers
          Kinds,        \* what they may be: create, post, login
          OldIds,       \* ids of sessions older than the run
          InitialRooms, \* the tables the run may start from, oldest row first
          MaxSessions   \* StorageService.GUEST_MAX_SESSIONS

\* A new session's id is a fresh uuid4: it is named by the request that made it.
Ids == Requests \cup OldIds

ASSUME KindsAreKnown == Kinds \subseteq {"create", "post", "login"}
ASSUME RoomsAssumption ==
  \A list \in InitialRooms : list \in Seq(OldIds) /\ IsInjective(list)
ASSUME QuotaAssumption == MaxSessions \in Nat \ {0}

VARIABLES rooms,   \* the guest's rows: created_at of each id that has one
          clock,   \* the time: the next created_at
          stamp,   \* stamp[r]: the created_at r has drawn for its row
          cached,  \* the ids with a hash in Redis
          kind,    \* kind[r]: what r asks for
          target,  \* target[r]: the session r creates or posts to
          pc,      \* pc[r]: the call r makes next
          excess,  \* excess[r]: how many rows r found too many
          doomed,  \* doomed[r]: the rows r deletes, then their hashes to drop
          seen,    \* history: the rows r's DELETE saw, as long as they stay
          alone    \* history: nobody inserted since r counted

request == <<stamp, kind, target, excess, doomed, seen, alone>>
vars == <<rooms, clock, cached, pc, request>>

TypeOK ==
  /\ DOMAIN rooms \subseteq Ids /\ \A id \in DOMAIN rooms : rooms[id] \in Nat
  /\ clock \in Nat
  /\ stamp \in [Requests -> Nat]
  /\ cached \subseteq Ids
  /\ kind \in [Requests -> Kinds]
  /\ target \in [Requests -> Ids]
  /\ pc \in [Requests -> {"idle", "owner", "count", "pick", "delete", "drop",
                          "cache", "insert", "commit", "agent", "recache",
                          "reinsert", "recommit", "over"}]
  /\ excess \in [Requests -> Nat]
  /\ doomed \in [Requests -> SUBSET Ids]
  /\ seen \in [Requests -> SUBSET Ids]
  /\ alone \in [Requests -> BOOLEAN]

Init ==
  /\ \E list \in InitialRooms :
       /\ rooms = AntiFunction(list)
       /\ clock = Len(list) + 1
  /\ stamp = [r \in Requests |-> 0]
  /\ cached = {}
  /\ kind \in [Requests -> Kinds]
  /\ target \in {t \in [Requests -> Ids] :
                   \A r \in Requests : kind[r] # "post" => t[r] = r}
  /\ pc = [r \in Requests |-> "idle"]
  /\ excess = [r \in Requests |-> 0]
  /\ doomed = [r \in Requests |-> {}]
  /\ seen = [r \in Requests |-> {}]
  /\ alone = [r \in Requests |-> FALSE]

Go(r, here, there) == pc[r] = here /\ pc' = [pc EXCEPT ![r] = there]

Rows == DOMAIN rooms

\* The upsert of save_session: a new row has the stamp drawn, an old one keeps its own.
WithRoom(id, at) ==
  [i \in Rows \cup {id} |-> IF i \in Rows THEN rooms[i] ELSE at]

\* What a DELETE leaves.
Without(ids) == [i \in Rows \ ids |-> rooms[i]]

-----------------------------------------------------------------------------
(***************************************************************************)
(* A request arrives. Runs on one session exclude each other (module       *)
(* GenerationLock), runs on different sessions do not.                     *)
(***************************************************************************)
Arrive(r) ==
  /\ Go(r, "idle", CASE kind[r] = "create" -> "count"
                     [] kind[r] = "post" -> "owner"
                     [] kind[r] = "login" -> "pick")
  /\ kind[r] = "post" =>
       \A q \in Requests :
         kind[q] = "post" /\ target[q] = target[r] => pc[q] \in {"idle", "over"}
  /\ UNCHANGED <<rooms, clock, cached, request>>

\* A post makes room only if its session has no row yet.
Owner(r) ==
  /\ Go(r, "owner", IF target[r] \in Rows THEN "cache" ELSE "count")
  /\ UNCHANGED <<rooms, clock, cached, request>>

\* Mutant of Excess: room for MaxSessions, with the new one to come.
ExcessWithoutNew(n) == IF n <= MaxSessions THEN 0 ELSE n - MaxSessions

\* Mutant of Excess: without the early return of a table that is not full.
ExcessUnchecked(n) == n - (MaxSessions - 1)

(***************************************************************************)
(* How many of n rows must go for one more to fit.                         *)
(***************************************************************************)
Excess(n) == IF n < MaxSessions THEN 0 ELSE n - (MaxSessions - 1)

\* create_session inserts at once; a post writes the hash before.
Insertion(r) == IF kind[r] = "create" THEN "insert" ELSE "cache"

Count(r) ==
  /\ Go(r, "count", IF Excess(Cardinality(Rows)) = 0 THEN Insertion(r) ELSE "pick")
  /\ excess' = [excess EXCEPT ![r] = Excess(Cardinality(Rows))]
  /\ alone' = [alone EXCEPT ![r] = TRUE]
  /\ UNCHANGED <<rooms, clock, stamp, cached, kind, target, doomed, seen>>

\* Mutant of Oldest: ORDER BY created_at DESC.
Newest(n) == {i \in Rows : Cardinality({j \in Rows : rooms[j] > rooms[i]}) < n}

\* The first n rows by created_at.
Oldest(n) == {i \in Rows : Cardinality({j \in Rows : rooms[j] < rooms[i]}) < n}

(***************************************************************************)
(* One DELETE statement, in two steps: it chooses its rows on its snapshot *)
(* and then deletes those of them that no other statement deleted first. A *)
(* login chooses every row of the guest.                                   *)
(***************************************************************************)
Pick(r) ==
  /\ Go(r, "pick", "delete")
  /\ seen' = [seen EXCEPT ![r] = Rows]
  /\ doomed' = [doomed EXCEPT ![r] = IF kind[r] = "login" THEN Rows
                                     ELSE Oldest(excess[r])]
  /\ excess' = [excess EXCEPT ![r] = 0]
  /\ UNCHANGED <<rooms, clock, stamp, cached, kind, target, alone>>

Delete(r) ==
  /\ Go(r, "delete", "drop")
  /\ rooms' = Without(doomed[r])
  /\ doomed' = [q \in Requests |->
                 IF q # r /\ pc[q] = "delete" THEN doomed[q] \ doomed[r]
                 ELSE doomed[q]]
  /\ seen' = [q \in Requests |-> IF q = r THEN {} ELSE seen[q] \ doomed[r]]
  /\ UNCHANGED <<clock, stamp, cached, kind, target, excess, alone>>

\* Mutant of Drop: the hashes of deleted sessions stay.
KeepHash(r, id) == cached

\* One DEL: the hash of a deleted session goes.
HashDropped(r, id) == cached \ {id}

Drop(r) ==
  /\ pc[r] = "drop"
  /\ \E id \in doomed[r] :
       /\ cached' = HashDropped(r, id)
       /\ doomed' = [doomed EXCEPT ![r] = @ \ {id}]
  /\ UNCHANGED <<rooms, clock, stamp, kind, target, pc, excess, seen, alone>>

Dropped(r) ==
  /\ doomed[r] = {}
  /\ Go(r, "drop", IF kind[r] = "login" THEN "over" ELSE Insertion(r))
  /\ UNCHANGED <<rooms, clock, cached, request>>

(***************************************************************************)
(* _write_messages, for the question and again for the answer: the hash,   *)
(* then the row. The row of a session that was deleted in between comes    *)
(* back, with a new stamp.                                                 *)
(***************************************************************************)
WriteHash(r) ==
  /\ Go(r, "cache", "insert") \/ Go(r, "recache", "reinsert")
  /\ cached' = cached \cup {target[r]}
  /\ UNCHANGED <<rooms, clock, request>>

\* save_session takes the time, then waits for a connection.
Stamp(r) ==
  /\ Go(r, "insert", "commit") \/ Go(r, "reinsert", "recommit")
  /\ stamp' = [stamp EXCEPT ![r] = clock]
  /\ clock' = clock + 1
  /\ UNCHANGED <<rooms, cached, kind, target, excess, doomed, seen, alone>>

Insert(r) ==
  /\ \/ Go(r, "commit", IF kind[r] = "create" THEN "over" ELSE "agent")
     \/ Go(r, "recommit", "over")
  /\ rooms' = WithRoom(target[r], stamp[r])
  /\ stamp' = [stamp EXCEPT ![r] = 0]
  /\ alone' = IF target[r] \in Rows THEN alone
              ELSE [q \in Requests |-> FALSE]
  /\ UNCHANGED <<clock, cached, kind, target, excess, doomed, seen>>

\* The Agent answers, or the run ends without an answer to store.
Answered(r) ==
  /\ Go(r, "agent", "recache") \/ Go(r, "agent", "over")
  /\ UNCHANGED <<rooms, clock, cached, request>>

\* Redis expires a hash.
Expire(id) ==
  /\ id \in cached
  /\ cached' = cached \ {id}
  /\ UNCHANGED <<rooms, clock, pc, request>>

Next ==
  \/ \E r \in Requests :
       \/ Arrive(r) \/ Owner(r) \/ Count(r) \/ Pick(r) \/ Delete(r)
       \/ Drop(r) \/ Dropped(r) \/ WriteHash(r) \/ Stamp(r) \/ Insert(r)
       \/ Answered(r)
  \/ \E id \in Ids : Expire(id)

Spec == Init /\ [][Next]_vars

-----------------------------------------------------------------------------
(***************************************************************************)
(* "If this guest already has 5 sessions, delete the oldest until there is *)
(* room for one more" (ensure_guest_room): at most MaxSessions rows.       *)
(***************************************************************************)
Quota == Cardinality(Rows) <= MaxSessions

(***************************************************************************)
(* What is left of the quota when requests overlap: an insertion that made *)
(* room first leaves at most MaxSessions rows, unless somebody else        *)
(* inserted since it counted, whoever deleted what in the meantime.        *)
(***************************************************************************)
SerialQuota ==
  [][\A r \in Requests :
       pc[r] = "commit" /\ pc'[r] # "commit" /\ alone[r] =>
         Cardinality(Rows') <= MaxSessions]_vars

(***************************************************************************)
(* Sessions go oldest first: when a DELETE takes its rows, every row that  *)
(* it saw and that nobody else deleted either goes or was created after    *)
(* those that go, whatever was deleted, brought back or inserted since it  *)
(* chose. A row committed after the choice is not compared: its stamp may  *)
(* be older, drawn before a long wait for a connection.                    *)
(***************************************************************************)
OldestGoFirst ==
  [][\A r \in Requests :
       pc[r] = "delete" /\ pc'[r] # "delete" =>
         \A gone \in Rows \ Rows', kept \in seen[r] \cap Rows' :
           rooms[gone] < rooms[kept]]_vars

(***************************************************************************)
(* Once nothing runs, no hash is left of a session that has no row: a      *)
(* write that overlapped with the deletion has brought the row back.       *)
(***************************************************************************)
HashesHaveRows ==
  (\A r \in Requests : pc[r] \in {"idle", "over"}) =>
    cached \subseteq Rows

=============================================================================
