-------------------------- MODULE GuestRooms_proofs --------------------------
(***************************************************************************)
(* Proofs about the sessions of a guest, for any requests, any quota and   *)
(* any rows to start from: types, which rows a deletion takes, what is     *)
(* left of the quota, and that no hash outlives its row.                   *)
(***************************************************************************)
EXTENDS GuestRooms, FiniteSetTheorems, WellFoundedInduction, TLAPS

-----------------------------------------------------------------------------
(* The oldest rows *)

\* Of any number of rows one is the oldest.
LEMMA SomeOldest ==
  ASSUME NEW ids, ids # {}, \A i \in ids : rooms[i] \in Nat
  PROVE  \E i \in ids : \A j \in ids : rooms[i] <= rooms[j]
<1> DEFINE stamps == {rooms[i] : i \in ids}
<1>1. stamps \subseteq Nat /\ stamps # {}
  OBVIOUS
<1> DEFINE lower == {ss \in Nat \X Nat : ss[1] < ss[2]}
<1>2. IsWellFoundedOn(lower, Nat)
  BY NatLessThanWellFounded DEF OpToRel
<1> HIDE DEF lower
<1>3. PICK x \in stamps : \A y \in stamps : <<y, x>> \notin lower
  BY <1>1, <1>2, WFMin
<1>4. ASSUME NEW y \in stamps PROVE x <= y
  <2>1. x \in Nat /\ y \in Nat
    BY <1>1
  <2>2. y < x => <<y, x>> \in lower
    BY <2>1 DEF lower
  <2> QED BY <1>3, <2>1, <2>2
<1> QED BY <1>3, <1>4

\* A row that is not among the n oldest is newer than those that are.
LEMMA OldestAreOlder ==
  ASSUME TypeOK, IsFiniteSet(Rows), NEW n \in Nat,
         NEW gone \in Oldest(n), NEW kept \in Rows \ Oldest(n)
  PROVE  rooms[gone] < rooms[kept]
<1> DEFINE before(i) == {j \in Rows : rooms[j] < rooms[i]}
<1>1. gone \in Rows /\ Cardinality(before(gone)) < n /\ ~(Cardinality(before(kept)) < n)
  BY DEF Oldest
<1>2. rooms[gone] \in Nat /\ rooms[kept] \in Nat /\ \A j \in Rows : rooms[j] \in Nat
  BY <1>1 DEF TypeOK, Rows
<1>3. SUFFICES ASSUME rooms[kept] <= rooms[gone] PROVE FALSE
  BY <1>2
<1>4. before(kept) \subseteq before(gone) /\ before(gone) \subseteq Rows
  BY <1>2, <1>3
<1>5. IsFiniteSet(before(gone)) /\ IsFiniteSet(before(kept))
  BY <1>4, FS_Subset
<1>6. /\ Cardinality(before(gone)) \in Nat /\ Cardinality(before(kept)) \in Nat
      /\ Cardinality(before(kept)) <= Cardinality(before(gone))
  BY <1>4, <1>5, FS_Subset, FS_CardinalityType
<1> QED BY <1>1, <1>6

\* The n oldest rows are n at least, or all there are.
LEMMA OldestAreEnough ==
  ASSUME TypeOK, IsFiniteSet(Rows), NEW n \in Nat, Rows \ Oldest(n) # {}
  PROVE  n <= Cardinality(Oldest(n))
<1> DEFINE before(i) == {j \in Rows : rooms[j] < rooms[i]}
<1>1. \A i \in Rows : rooms[i] \in Nat
  BY DEF TypeOK, Rows
<1>2. PICK kept \in Rows \ Oldest(n) : \A j \in Rows \ Oldest(n) : rooms[kept] <= rooms[j]
  BY <1>1, SomeOldest
<1>3. before(kept) \subseteq Oldest(n) /\ Oldest(n) \subseteq Rows
  BY <1>1, <1>2 DEF Oldest
<1>4. ~(Cardinality(before(kept)) < n)
  BY <1>2 DEF Oldest
<1>5. IsFiniteSet(Oldest(n)) /\ IsFiniteSet(before(kept))
  BY <1>3, FS_Subset
<1>6. /\ Cardinality(Oldest(n)) \in Nat /\ Cardinality(before(kept)) \in Nat
      /\ Cardinality(before(kept)) <= Cardinality(Oldest(n))
  BY <1>3, <1>5, FS_Subset, FS_CardinalityType
<1> QED BY <1>4, <1>6

\* Without them there is room for m, if there were less than m rows too many.
LEMMA RoomMade ==
  ASSUME TypeOK, IsFiniteSet(Rows), NEW n \in Nat, NEW m \in Nat \ {0}, Cardinality(Rows) < m + n
  PROVE  Cardinality(Rows \ Oldest(n)) < m
<1>1. CASE Rows \ Oldest(n) = {}
  BY <1>1, FS_EmptySet
<1>2. CASE Rows \ Oldest(n) # {}
  <2> DEFINE left == Rows \ Oldest(n)
  <2>1. Oldest(n) \subseteq Rows /\ left \subseteq Rows
    BY DEF Oldest
  <2>2. IsFiniteSet(Oldest(n)) /\ IsFiniteSet(left)
    BY <2>1, FS_Subset
  <2>3. Oldest(n) \cup left = Rows /\ Oldest(n) \cap left = {}
    BY <2>1
  <2>4. Cardinality(Rows) = Cardinality(Oldest(n)) + Cardinality(left) - Cardinality({})
    BY <2>2, <2>3, FS_Union
  <2>5. Cardinality({}) = 0 /\ n <= Cardinality(Oldest(n))
    BY <1>2, FS_EmptySet, OldestAreEnough
  <2>6. Cardinality(left) \in Nat /\ Cardinality(Oldest(n)) \in Nat
    BY <2>2, FS_CardinalityType
  <2> HIDE DEF left
  <2>7. Cardinality(left) < m
    BY <2>4, <2>5, <2>6
  <2> QED BY <2>7 DEF left
<1> QED BY <1>1, <1>2

\* A smaller table has as much room.
LEMMA FewerRows ==
  ASSUME NEW more, IsFiniteSet(more), NEW fewer \in SUBSET more, NEW m \in Nat, Cardinality(more) < m
  PROVE  IsFiniteSet(fewer) /\ Cardinality(fewer) < m
<1>1. IsFiniteSet(fewer) /\ Cardinality(fewer) <= Cardinality(more)
  BY FS_Subset
<1>2. Cardinality(fewer) \in Nat /\ Cardinality(more) \in Nat
  BY <1>1, FS_CardinalityType
<1> QED BY <1>1, <1>2

-----------------------------------------------------------------------------
(***************************************************************************)
(* What a statement is about to delete was the oldest of what it saw: a    *)
(* row keeps its stamp, and what another statement deletes is neither      *)
(* compared nor counted any more. A request that made room by itself still *)
(* has it at each of its calls.                                            *)
(***************************************************************************)
Calls ==
  \A r \in Requests :
    /\ kind[r] = "login" => pc[r] \in {"idle", "pick", "delete", "drop", "over"}
    /\ pc[r] \in {"idle", "owner", "count"} \/ kind[r] = "login" => ~alone[r]
Chosen ==
  \A r \in Requests :
    pc[r] = "delete" =>
      /\ doomed[r] \subseteq seen[r] /\ seen[r] \subseteq Rows
      /\ \A gone \in doomed[r], kept \in seen[r] \ doomed[r] : rooms[gone] < rooms[kept]
      /\ alone[r] => Cardinality(Rows \ doomed[r]) < MaxSessions
Spare ==
  \A r \in Requests :
    alone[r] => /\ pc[r] = "pick" => Cardinality(Rows) < MaxSessions + excess[r]
                /\ pc[r] \in {"drop", "cache", "insert", "commit"} => Cardinality(Rows) < MaxSessions

RoomsInv == TypeOK /\ IsFiniteSet(Rows) /\ Calls /\ Chosen /\ Spare

\* A request that stores its row finds it in the table, with the others as they were.
LEMMA InsertAdds ==
  ASSUME TypeOK, IsFiniteSet(Rows), NEW r \in Requests, Insert(r)
  PROVE  /\ Rows' = Rows \cup {target[r]} /\ \A i \in Rows : rooms'[i] = rooms[i]
         /\ \A i \in Rows' : i \in Ids /\ rooms'[i] \in Nat
         /\ IsFiniteSet(Rows') /\ Cardinality(Rows) \in Nat
         /\ Cardinality(Rows') <= Cardinality(Rows) + 1
<1>1. rooms' = WithRoom(target[r], stamp[r]) /\ target[r] \in Ids /\ stamp[r] \in Nat
  BY DEF Insert, TypeOK
<1>2. /\ Rows' = Rows \cup {target[r]}
      /\ \A i \in Rows' : rooms'[i] = IF i \in Rows THEN rooms[i] ELSE stamp[r]
  BY <1>1 DEF WithRoom, Rows
<1>3. \A i \in Rows : i \in Ids /\ rooms[i] \in Nat
  BY DEF TypeOK, Rows
<1>4. IsFiniteSet(Rows') /\ Cardinality(Rows) \in Nat /\ Cardinality(Rows') <= Cardinality(Rows) + 1
  <2>1. /\ IsFiniteSet(Rows \cup {target[r]}) /\ Cardinality(Rows) \in Nat
        /\ Cardinality(Rows \cup {target[r]}) \in {Cardinality(Rows), Cardinality(Rows) + 1}
    BY FS_AddElement, FS_CardinalityType
  <2>2. Cardinality(Rows') \in {Cardinality(Rows), Cardinality(Rows) + 1} /\ IsFiniteSet(Rows')
    BY <1>2, <2>1
  <2> QED BY <2>1, <2>2
<1> QED BY <1>1, <1>2, <1>3, <1>4

\* A deletion takes what was chosen and leaves the others as they were.
LEMMA DeleteTakes ==
  ASSUME TypeOK, IsFiniteSet(Rows), NEW r \in Requests, Delete(r)
  PROVE  /\ Rows' = Rows \ doomed[r] /\ \A i \in Rows' : rooms'[i] = rooms[i]
         /\ \A i \in Rows' : i \in Ids /\ rooms'[i] \in Nat
         /\ IsFiniteSet(Rows')
<1>1. Rows' = Rows \ doomed[r] /\ \A i \in Rows' : rooms'[i] = rooms[i]
  BY DEF Delete, Without, Rows
<1>2. \A i \in Rows : i \in Ids /\ rooms[i] \in Nat
  BY DEF TypeOK, Rows
<1>3. IsFiniteSet(Rows')
  BY <1>1, FS_Subset
<1> QED BY <1>1, <1>2, <1>3

-----------------------------------------------------------------------------
(* Types *)

\* The calls of a request, and what each step may do to those of the others.
Pcs == {"idle", "owner", "count", "pick", "delete", "drop", "cache", "insert", "commit",
        "agent", "recache", "reinsert", "recommit", "over"}

\* Where a request starts.
LEMMA ArriveTo ==
  ASSUME TypeOK, NEW r \in Requests, Arrive(r)
  PROVE  /\ pc[r] = "idle" /\ UNCHANGED <<rooms, clock, cached, request>>
         /\ \/ kind[r] = "create" /\ pc' = [pc EXCEPT ![r] = "count"]
            \/ kind[r] = "post" /\ pc' = [pc EXCEPT ![r] = "owner"]
            \/ kind[r] = "login" /\ pc' = [pc EXCEPT ![r] = "pick"]
<1> DEFINE k == kind[r]
           to == CASE k = "create" -> "count" [] k = "post" -> "owner" [] k = "login" -> "pick"
<1>1. k \in {"create", "post", "login"}
  BY KindsAreKnown DEF TypeOK
<1>2. pc[r] = "idle" /\ pc' = [pc EXCEPT ![r] = to] /\ UNCHANGED <<rooms, clock, cached, request>>
  BY DEF Arrive, Go
<1> HIDE DEF k
<1>3. \/ k = "create" /\ to = "count"
      \/ k = "post" /\ to = "owner"
      \/ k = "login" /\ to = "pick"
  <2>1. CASE k = "create"
    BY <2>1
  <2>2. CASE k = "post"
    BY <2>2
  <2>3. CASE k = "login"
    BY <2>3
  <2> QED BY <1>1, <2>1, <2>2, <2>3
<1> HIDE DEF to
<1> QED BY <1>2, <1>3 DEF k

\* Who deletes as many rows as Count found too many has room for one more.
LEMMA ExcessType ==
  ASSUME NEW n \in Nat
  PROVE  Excess(n) \in Nat /\ n < MaxSessions + Excess(n)
BY QuotaAssumption DEF Excess

\* One call moves, to one of the calls.
LEMMA Moves ==
  ASSUME TypeOK, NEW r \in Requests, NEW to \in Pcs, pc' = [pc EXCEPT ![r] = to]
  PROVE  pc' \in [Requests -> Pcs] /\ pc'[r] = to /\ \A q \in Requests \ {r} : pc'[q] = pc[q]
BY DEF TypeOK, Pcs

\* Where a request goes from each of its calls.
LEMMA Calling ==
  ASSUME TypeOK, NEW r \in Requests,
         \/ Arrive(r) \/ Owner(r) \/ Count(r) \/ Pick(r) \/ Delete(r)
         \/ Dropped(r) \/ WriteHash(r) \/ Stamp(r) \/ Insert(r) \/ Answered(r)
  PROVE  /\ pc' \in [Requests -> Pcs] /\ \A q \in Requests \ {r} : pc'[q] = pc[q]
<1> DEFINE Stays == /\ pc' \in [Requests -> Pcs] /\ \A q \in Requests \ {r} : pc'[q] = pc[q]
<1>1. ASSUME NEW to \in Pcs, pc' = [pc EXCEPT ![r] = to] PROVE Stays
  BY <1>1, Moves
<1> SUFFICES Stays
  BY DEF Stays
<1> HIDE DEF Stays
<1>2. CASE Arrive(r)
  BY <1>1, <1>2, ArriveTo DEF Pcs
<1>3. CASE Owner(r)
  BY <1>1, <1>3 DEF Owner, Go, Pcs
<1>4. CASE Count(r)
  BY <1>1, <1>4 DEF Count, Go, Insertion, Pcs
<1>5. CASE Pick(r) \/ Delete(r)
  BY <1>1, <1>5 DEF Pick, Delete, Go, Pcs
<1>6. CASE Dropped(r)
  BY <1>1, <1>6 DEF Dropped, Go, Insertion, Pcs
<1>7. CASE WriteHash(r) \/ Answered(r)
  BY <1>1, <1>7 DEF WriteHash, Answered, Go, Pcs
<1>8. CASE Stamp(r) \/ Insert(r)
  BY <1>1, <1>8 DEF Stamp, Insert, Go, Pcs
<1> QED BY <1>2, <1>3, <1>4, <1>5, <1>6, <1>7, <1>8

\* Every step keeps the types, and the table finite.
LEMMA TypeStep ==
  ASSUME RoomsInv, [Next]_vars
  PROVE  TypeOK' /\ IsFiniteSet(Rows')
<1>1. TypeOK /\ IsFiniteSet(Rows)
  BY DEF RoomsInv
<1> DEFINE Fine == TypeOK' /\ IsFiniteSet(Rows')
<1> SUFFICES Fine
  OBVIOUS
<1>2. ASSUME NEW r \in Requests, Arrive(r) \/ Owner(r) \/ Dropped(r) \/ Answered(r)
      PROVE  Fine
  <2>1. UNCHANGED <<rooms, clock, cached, request>> /\ pc' \in [Requests -> Pcs]
    BY <1>1, <1>2, Calling DEF Arrive, Owner, Dropped, Answered
  <2> QED BY <1>1, <2>1 DEF TypeOK, request, Pcs, Rows
<1>3. ASSUME NEW r \in Requests, Count(r) PROVE Fine
  <2>1. pc' \in [Requests -> Pcs]
    BY <1>1, <1>3, Calling
  <2>2. Excess(Cardinality(Rows)) \in Nat
    BY <1>1, FS_CardinalityType, ExcessType
  <2>3. excess' \in [Requests -> Nat]
    BY <1>1, <1>3, <2>2 DEF TypeOK, Count
  <2> QED BY <1>1, <1>3, <2>1, <2>3 DEF TypeOK, Count, Pcs, Rows
<1>4. ASSUME NEW r \in Requests, Pick(r) PROVE Fine
  <2>1. pc' \in [Requests -> Pcs]
    BY <1>1, <1>4, Calling
  <2>2. Rows \subseteq Ids /\ Oldest(excess[r]) \subseteq Ids
    BY <1>1 DEF TypeOK, Rows, Oldest
  <2>3. /\ doomed' \in [Requests -> SUBSET Ids] /\ excess' \in [Requests -> Nat]
        /\ seen' \in [Requests -> SUBSET Ids]
    BY <1>1, <1>4, <2>2 DEF TypeOK, Pick
  <2> QED BY <1>1, <1>4, <2>1, <2>3 DEF TypeOK, Pick, Pcs, Rows
<1>5. ASSUME NEW r \in Requests, Delete(r) PROVE Fine
  <2>1. pc' \in [Requests -> Pcs]
    BY <1>1, <1>5, Calling
  <2>2. IsFiniteSet(Rows') /\ \A i \in Rows' : i \in Ids /\ rooms'[i] \in Nat
    BY <1>1, <1>5, DeleteTakes
  <2>3. doomed' \in [Requests -> SUBSET Ids] /\ seen' \in [Requests -> SUBSET Ids]
    BY <1>1, <1>5 DEF TypeOK, Delete
  <2> QED BY <1>1, <1>5, <2>1, <2>2, <2>3 DEF TypeOK, Delete, Pcs, Rows
<1>6. ASSUME NEW r \in Requests, Drop(r) PROVE Fine
  BY <1>1, <1>6 DEF TypeOK, Drop, HashDropped, Rows
<1>7. ASSUME NEW r \in Requests, WriteHash(r) PROVE Fine
  <2>1. pc' \in [Requests -> Pcs] /\ cached' = cached \cup {target[r]} /\ UNCHANGED <<rooms, clock, request>>
    BY <1>1, <1>7, Calling DEF WriteHash
  <2> QED BY <1>1, <2>1 DEF TypeOK, request, Pcs, Rows
<1>8. ASSUME NEW r \in Requests, Stamp(r) PROVE Fine
  <2>1. pc' \in [Requests -> Pcs]
    BY <1>1, <1>8, Calling
  <2>2. clock' \in Nat /\ stamp' \in [Requests -> Nat]
    BY <1>1, <1>8 DEF Stamp, TypeOK
  <2> QED BY <1>1, <1>8, <2>1, <2>2 DEF TypeOK, Stamp, Pcs, Rows
<1>9. ASSUME NEW r \in Requests, Insert(r) PROVE Fine
  <2>1. pc' \in [Requests -> Pcs]
    BY <1>1, <1>9, Calling
  <2>2. IsFiniteSet(Rows') /\ \A i \in Rows' : i \in Ids /\ rooms'[i] \in Nat
    BY <1>1, <1>9, InsertAdds
  <2>3. /\ UNCHANGED <<clock, cached, kind, target, excess, doomed, seen>>
        /\ alone' \in [Requests -> BOOLEAN] /\ stamp' \in [Requests -> Nat]
    BY <1>1, <1>9 DEF TypeOK, Insert
  <2> QED BY <1>1, <2>1, <2>2, <2>3 DEF TypeOK, Pcs, Rows
<1>10. ASSUME NEW id \in Ids, Expire(id) PROVE Fine
  BY <1>1, <1>10 DEF TypeOK, Expire, request, Rows
<1>11. CASE UNCHANGED vars
  BY <1>1, <1>11 DEF TypeOK, vars, request, Rows
<1> QED BY <1>2, <1>3, <1>4, <1>5, <1>6, <1>7, <1>8, <1>9, <1>10, <1>11 DEF Next

-----------------------------------------------------------------------------
(* What a request still has to do *)

\* A step of one request.
Steps(r) ==
  \/ Arrive(r) \/ Owner(r) \/ Count(r) \/ Pick(r) \/ Delete(r)
  \/ Drop(r) \/ Dropped(r) \/ WriteHash(r) \/ Stamp(r) \/ Insert(r) \/ Answered(r)

\* What a step of one request leaves of the others: at most they are not alone any more.
LEMMA Others ==
  ASSUME TypeOK, NEW r \in Requests, Steps(r)
  PROVE  /\ kind' = kind /\ target' = target
         /\ \A q \in Requests \ {r} : /\ pc'[q] = pc[q] /\ excess'[q] = excess[q]
                                      /\ alone'[q] => alone[q]
<1>1. \A q \in Requests \ {r} : pc'[q] = pc[q]
  <2>1. CASE Drop(r)
    BY <2>1 DEF Drop
  <2>2. CASE ~Drop(r)
    BY <2>2, Calling DEF Steps
  <2> QED BY <2>1, <2>2
<1>2. kind' = kind /\ target' = target
  BY DEF Steps, Arrive, Owner, Count, Pick, Delete, Drop, Dropped, WriteHash, Stamp, Insert, Answered, request
<1>3. \A q \in Requests \ {r} : excess'[q] = excess[q]
  BY DEF Steps, Arrive, Owner, Count, Pick, Delete, Drop, Dropped, WriteHash, Stamp, Insert, Answered,
         request, TypeOK
<1>4. \A q \in Requests \ {r} : alone'[q] => alone[q]
  <2>1. CASE Count(r) \/ Insert(r)
    BY <2>1 DEF Count, Insert, TypeOK
  <2>2. CASE ~(Count(r) \/ Insert(r))
    BY <2>2 DEF Steps, Arrive, Owner, Pick, Delete, Drop, Dropped, WriteHash, Stamp, Answered, request
  <2> QED BY <2>1, <2>2
<1> QED BY <1>1, <1>2, <1>3, <1>4

\* A login inserts nothing, and only who counted can be alone.
LEMMA CallsStep ==
  ASSUME RoomsInv, [Next]_vars
  PROVE  Calls'
<1>1. TypeOK /\ Calls
  BY DEF RoomsInv
<1>2. ASSUME NEW r \in Requests, Steps(r)
      PROVE  Calls'
  <2> DEFINE Fine == /\ kind'[r] = "login" => pc'[r] \in {"idle", "pick", "delete", "drop", "over"}
                     /\ pc'[r] \in {"idle", "owner", "count"} \/ kind'[r] = "login" => ~alone'[r]
  <2>1. SUFFICES Fine
    BY <1>1, <1>2, Others DEF Calls
  <2>2. kind' = kind /\ r \in DOMAIN pc
    BY <1>1, <1>2, Others DEF TypeOK
  <2>3. /\ kind[r] = "login" => pc[r] \in {"idle", "pick", "delete", "drop", "over"}
        /\ pc[r] \in {"idle", "owner", "count"} \/ kind[r] = "login" => ~alone[r]
    BY <1>1 DEF Calls
  <2>4. CASE Arrive(r)
    BY <1>1, <2>2, <2>3, <2>4, ArriveTo DEF request
  <2>5. CASE Owner(r)
    BY <2>2, <2>3, <2>5 DEF Owner, Go, request
  <2>6. CASE Count(r)
    BY <2>2, <2>3, <2>6 DEF Count, Go, Insertion
  <2>7. CASE Pick(r)
    BY <2>2, <2>3, <2>7 DEF Pick, Go
  <2>8. CASE Delete(r)
    BY <2>2, <2>3, <2>8 DEF Delete, Go
  <2>9. CASE Drop(r)
    BY <2>2, <2>3, <2>9 DEF Drop
  <2>10. CASE Dropped(r)
    BY <2>2, <2>3, <2>10 DEF Dropped, Go, Insertion, request
  <2>11. CASE WriteHash(r)
    BY <2>2, <2>3, <2>11 DEF WriteHash, Go, request
  <2>12. CASE Insert(r)
    BY <2>2, <2>3, <2>12 DEF Insert, Go
  <2>13. CASE Answered(r)
    BY <2>2, <2>3, <2>13 DEF Answered, Go, request
  <2>14. CASE Stamp(r)
    BY <2>2, <2>3, <2>14 DEF Stamp, Go
  <2> QED BY <1>2, <2>4, <2>5, <2>6, <2>7, <2>8, <2>9, <2>10, <2>11, <2>12, <2>13, <2>14 DEF Steps
<1>3. ASSUME NEW id \in Ids, Expire(id) PROVE Calls'
  BY <1>1, <1>3 DEF Calls, Expire, request
<1>4. CASE UNCHANGED vars
  BY <1>1, <1>4 DEF Calls, vars, request
<1> QED BY <1>2, <1>3, <1>4 DEF Next, Steps

\* Who made room still has it, whatever the others did, unless they inserted a row.
LEMMA SpareStep ==
  ASSUME RoomsInv, [Next]_vars
  PROVE  Spare'
<1>1. /\ TypeOK /\ IsFiniteSet(Rows) /\ Calls /\ Chosen /\ Spare /\ MaxSessions \in Nat
      /\ Cardinality(Rows) \in Nat
  BY QuotaAssumption, FS_CardinalityType DEF RoomsInv
<1> DEFINE Making == {"drop", "cache", "insert", "commit"}
           Has(q) == alone[q] => /\ pc[q] = "pick" => Cardinality(Rows) < MaxSessions + excess[q]
                                 /\ pc[q] \in Making => Cardinality(Rows) < MaxSessions
           Still(q) == alone'[q] => /\ pc'[q] = "pick" => Cardinality(Rows') < MaxSessions + excess'[q]
                                    /\ pc'[q] \in Making => Cardinality(Rows') < MaxSessions
<1>2. \A q \in Requests : Has(q)
  BY <1>1 DEF Spare
<1> SUFFICES \A q \in Requests : Still(q)
  BY DEF Spare
<1>3. ASSUME NEW r \in Requests, Steps(r), ~Delete(r), ~Insert(r)
      PROVE  \A q \in Requests : Still(q)
  <2>1. Rows' = Rows
    BY <1>3 DEF Steps, Arrive, Owner, Count, Pick, Drop, Dropped, WriteHash, Stamp, Answered, Rows
  <2>2. \A q \in Requests \ {r} : Still(q)
    BY <1>1, <1>2, <1>3, <2>1, Others
  <2> SUFFICES Still(r)
    BY <2>2
  <2>3. r \in DOMAIN pc /\ r \in DOMAIN excess /\ r \in DOMAIN alone
    BY <1>1 DEF TypeOK
  <2>4. CASE Arrive(r)
    <3>1. ~alone[r] /\ alone' = alone
      BY <1>1, <2>4, ArriveTo DEF Calls, request
    <3> QED BY <3>1
  <2>5. CASE Owner(r)
    <3>1. ~alone[r] /\ alone' = alone
      BY <1>1, <2>5 DEF Calls, Owner, Go, request
    <3> QED BY <3>1
  <2>6. CASE Count(r)
    <3> DEFINE n == Cardinality(Rows)
    <3>1. n < MaxSessions + Excess(n) /\ excess'[r] = Excess(n)
      BY <1>1, <2>3, <2>6, ExcessType DEF Count
    <3>2. pc'[r] # "pick" => Excess(n) = 0
      BY <2>3, <2>6 DEF Count, Go
    <3>3. pc'[r] # "pick" => n < MaxSessions
      BY <1>1, <3>1, <3>2
    <3> QED BY <2>1, <3>1, <3>3
  <2>7. CASE Pick(r)
    BY <2>3, <2>7 DEF Pick, Go
  <2>8. CASE Drop(r)
    BY <1>2, <2>1, <2>8 DEF Drop
  <2>9. CASE Dropped(r)
    <3>1. pc[r] = "drop" /\ alone' = alone /\ pc'[r] # "pick"
      BY <2>3, <2>9 DEF Dropped, Go, Insertion, request
    <3> QED BY <1>2, <2>1, <3>1
  <2>10. CASE WriteHash(r)
    <3>1. alone' = alone /\ pc'[r] # "pick" /\ (pc'[r] \in Making => pc[r] = "cache")
      BY <2>3, <2>10 DEF WriteHash, Go, request
    <3> QED BY <1>2, <2>1, <3>1
  <2>11. CASE Stamp(r)
    <3>1. alone' = alone /\ pc'[r] # "pick" /\ (pc'[r] \in Making => pc[r] = "insert")
      BY <2>3, <2>11 DEF Stamp, Go
    <3> QED BY <1>2, <2>1, <3>1
  <2>12. CASE Answered(r)
    BY <2>3, <2>12 DEF Answered, Go
  <2> QED BY <1>3, <2>4, <2>5, <2>6, <2>7, <2>8, <2>9, <2>10, <2>11, <2>12 DEF Steps
<1>4. ASSUME NEW r \in Requests, Delete(r) PROVE \A q \in Requests : Still(q)
  <2>1. Rows' = Rows \ doomed[r] /\ Rows' \subseteq Rows
    BY <1>1, <1>4, DeleteTakes
  <2>2. ASSUME NEW q \in Requests \ {r} PROVE Still(q)
    <3>1. pc'[q] = pc[q] /\ excess'[q] = excess[q] /\ (alone'[q] => alone[q])
      BY <1>1, <1>4, Others DEF Steps
    <3>2. MaxSessions + excess[q] \in Nat
      BY <1>1 DEF TypeOK
    <3>3. \A m \in Nat : Cardinality(Rows) < m => Cardinality(Rows') < m
      BY <1>1, <2>1, FewerRows
    <3> QED BY <1>1, <1>2, <3>1, <3>2, <3>3
  <2>3. Still(r)
    <3>1. pc[r] = "delete" /\ pc'[r] = "drop" /\ alone' = alone
      BY <1>1, <1>4 DEF Delete, Go, TypeOK
    <3>2. alone[r] => Cardinality(Rows') < MaxSessions
      BY <1>1, <2>1, <3>1 DEF Chosen
    <3> QED BY <3>1, <3>2
  <2> QED BY <2>2, <2>3
<1>5. ASSUME NEW r \in Requests, Insert(r) PROVE \A q \in Requests : Still(q)
  <2>1. CASE target[r] \in Rows
    <3>1. Rows' = Rows /\ alone' = alone /\ excess' = excess
      BY <1>1, <1>5, <2>1, InsertAdds DEF Insert
    <3>2. pc'[r] # "pick" /\ pc'[r] \notin Making
      BY <1>1, <1>5 DEF Insert, Go, TypeOK
    <3>3. \A q \in Requests \ {r} : pc'[q] = pc[q]
      BY <1>1, <1>5, Others DEF Steps
    <3> QED BY <1>2, <3>1, <3>2, <3>3
  <2>2. CASE target[r] \notin Rows
    BY <1>5, <2>2 DEF Insert
  <2> QED BY <2>1, <2>2
<1>6. ASSUME NEW id \in Ids, Expire(id) PROVE \A q \in Requests : Still(q)
  BY <1>2, <1>6 DEF Expire, request, Rows
<1>7. CASE UNCHANGED vars
  BY <1>2, <1>7 DEF vars, request, Rows
<1> QED BY <1>3, <1>4, <1>5, <1>6, <1>7 DEF Next, Steps

-----------------------------------------------------------------------------
(* The rows that are chosen for deletion *)

\* What is chosen stays the oldest of what was seen, whoever else deletes or inserts.
LEMMA ChosenStep ==
  ASSUME RoomsInv, [Next]_vars
  PROVE  Chosen'
<1>1. /\ TypeOK /\ IsFiniteSet(Rows) /\ Calls /\ Chosen /\ Spare /\ MaxSessions \in Nat \ {0}
      /\ \A i \in Rows : rooms[i] \in Nat
  BY QuotaAssumption DEF RoomsInv, TypeOK, Rows
<1> DEFINE Was(q) == /\ doomed[q] \subseteq seen[q] /\ seen[q] \subseteq Rows
                     /\ \A gone \in doomed[q], kept \in seen[q] \ doomed[q] : rooms[gone] < rooms[kept]
                     /\ alone[q] => Cardinality(Rows \ doomed[q]) < MaxSessions
           Will(q) == /\ doomed'[q] \subseteq seen'[q] /\ seen'[q] \subseteq Rows'
                      /\ \A gone \in doomed'[q], kept \in seen'[q] \ doomed'[q] : rooms'[gone] < rooms'[kept]
                      /\ alone'[q] => Cardinality(Rows' \ doomed'[q]) < MaxSessions
<1>2. \A q \in Requests : pc[q] = "delete" => Was(q)
  BY <1>1 DEF Chosen
<1> SUFFICES \A q \in Requests : pc'[q] = "delete" => Will(q)
  BY DEF Chosen
<1>3. ASSUME NEW r \in Requests, Steps(r), ~Pick(r), ~Delete(r), ~Insert(r)
      PROVE  \A q \in Requests : pc'[q] = "delete" => Will(q)
  <2>1. rooms' = rooms /\ seen' = seen /\ r \in DOMAIN pc
    BY <1>1, <1>3 DEF Steps, Arrive, Owner, Count, Drop, Dropped, WriteHash, Stamp, Answered, request, TypeOK
  <2>2. \A q \in Requests \ {r} : doomed'[q] = doomed[q]
    BY <1>1, <1>3 DEF Steps, Arrive, Owner, Count, Drop, Dropped, WriteHash, Stamp, Answered, request, TypeOK
  <2>3. \A q \in Requests \ {r} : pc'[q] = pc[q] /\ (alone'[q] => alone[q])
    BY <1>1, <1>3, Others
  <2>4. pc'[r] # "delete"
    <3>1. CASE Arrive(r)
      BY <1>1, <2>1, <3>1, ArriveTo
    <3>2. CASE Owner(r) \/ Count(r) \/ Drop(r)
      BY <2>1, <3>2 DEF Owner, Count, Drop, Go, Insertion
    <3>3. CASE Dropped(r) \/ WriteHash(r) \/ Stamp(r) \/ Answered(r)
      BY <2>1, <3>3 DEF Dropped, WriteHash, Stamp, Answered, Go, Insertion
    <3> QED BY <1>3, <3>1, <3>2, <3>3 DEF Steps
  <2> QED BY <1>2, <2>1, <2>2, <2>3, <2>4 DEF Rows
<1>4. ASSUME NEW r \in Requests, Pick(r)
      PROVE  \A q \in Requests : pc'[q] = "delete" => Will(q)
  <2>1. rooms' = rooms /\ alone' = alone /\ pc[r] = "pick"
    BY <1>4 DEF Pick, Go
  <2>2. \A q \in Requests \ {r} : doomed'[q] = doomed[q] /\ seen'[q] = seen[q] /\ pc'[q] = pc[q]
    BY <1>1, <1>4 DEF Pick, Go, TypeOK
  <2>3. seen'[r] = Rows
    BY <1>1, <1>4 DEF Pick, TypeOK
  <2>4. Will(r)
    <3>1. CASE kind[r] = "login"
      <4>1. doomed'[r] = Rows /\ ~alone[r]
        BY <1>1, <1>4, <3>1 DEF Pick, TypeOK, Calls
      <4> QED BY <2>1, <2>3, <4>1 DEF Rows
    <3>2. CASE kind[r] # "login"
      <4>1. excess[r] \in Nat /\ (alone[r] => Cardinality(Rows) < MaxSessions + excess[r])
        BY <1>1, <2>1 DEF TypeOK, Spare
      <4>2. doomed'[r] = Oldest(excess[r])
        BY <1>1, <1>4, <3>2 DEF Pick, TypeOK
      <4>3. doomed'[r] \subseteq Rows
        BY <4>2 DEF Oldest
      <4>4. \A gone \in doomed'[r], kept \in Rows \ doomed'[r] : rooms[gone] < rooms[kept]
        BY <1>1, <4>1, <4>2, OldestAreOlder
      <4>5. alone[r] => Cardinality(Rows \ doomed'[r]) < MaxSessions
        BY <1>1, <4>1, <4>2, RoomMade
      <4> QED BY <2>1, <2>3, <4>3, <4>4, <4>5 DEF Rows
    <3> QED BY <3>1, <3>2
  <2> QED BY <1>2, <2>1, <2>2, <2>4 DEF Rows
<1>5. ASSUME NEW r \in Requests, Delete(r)
      PROVE  \A q \in Requests : pc'[q] = "delete" => Will(q)
  <2>1. Rows' = Rows \ doomed[r] /\ \A i \in Rows' : rooms'[i] = rooms[i]
    BY <1>1, <1>5, DeleteTakes
  <2>2. pc'[r] # "delete"
    BY <1>1, <1>5 DEF Delete, Go, TypeOK
  <2>3. ASSUME NEW q \in Requests \ {r}, pc'[q] = "delete" PROVE Will(q)
    <3>1. /\ pc[q] = "delete" /\ alone' = alone
          /\ doomed'[q] = doomed[q] \ doomed[r] /\ seen'[q] = seen[q] \ doomed[r]
      BY <1>1, <1>5, <2>3 DEF Delete, Go, TypeOK
    <3>2. Was(q)
      BY <1>2, <3>1
    <3>3. doomed'[q] \subseteq seen'[q] /\ seen'[q] \subseteq Rows'
      BY <2>1, <3>1, <3>2
    <3>4. ASSUME NEW gone \in doomed'[q], NEW kept \in seen'[q] \ doomed'[q]
          PROVE  rooms'[gone] < rooms'[kept]
      <4>1. gone \in doomed[q] /\ kept \in seen[q] \ doomed[q]
        BY <3>1, <3>4
      <4>2. gone \in Rows' /\ kept \in Rows'
        BY <3>3, <3>4
      <4> QED BY <2>1, <3>2, <4>1, <4>2
    <3>5. ASSUME alone'[q] PROVE Cardinality(Rows' \ doomed'[q]) < MaxSessions
      <4>1. Rows' \ doomed'[q] \in SUBSET (Rows \ doomed[q])
        BY <2>1, <3>1
      <4>2. IsFiniteSet(Rows \ doomed[q])
        BY <1>1, FS_Subset
      <4>3. Cardinality(Rows \ doomed[q]) < MaxSessions
        BY <3>1, <3>2, <3>5
      <4> QED BY <1>1, <4>1, <4>2, <4>3, FewerRows
    <3> QED BY <3>3, <3>4, <3>5
  <2> QED BY <2>2, <2>3
<1>6. ASSUME NEW r \in Requests, Insert(r)
      PROVE  \A q \in Requests : pc'[q] = "delete" => Will(q)
  <2>1. Rows \subseteq Rows' /\ (\A i \in Rows : rooms'[i] = rooms[i]) /\ Rows' = Rows \cup {target[r]}
    BY <1>1, <1>6, InsertAdds
  <2>2. pc'[r] # "delete"
    BY <1>1, <1>6 DEF Insert, Go, TypeOK
  <2>3. ASSUME NEW q \in Requests \ {r}, pc'[q] = "delete" PROVE Will(q)
    <3>1. pc[q] = "delete" /\ doomed' = doomed /\ seen' = seen /\ (alone'[q] => alone[q] /\ target[r] \in Rows)
      BY <1>1, <1>6, <2>3 DEF Insert, Go, TypeOK
    <3>2. Was(q)
      BY <1>2, <3>1
    <3>3. doomed'[q] \subseteq seen'[q] /\ seen'[q] \subseteq Rows'
      BY <2>1, <3>1, <3>2
    <3>4. ASSUME NEW gone \in doomed'[q], NEW kept \in seen'[q] \ doomed'[q]
          PROVE  rooms'[gone] < rooms'[kept]
      BY <2>1, <3>1, <3>2, <3>4
    <3>5. alone'[q] => Rows' \ doomed'[q] = Rows \ doomed[q]
      BY <2>1, <3>1
    <3> QED BY <3>1, <3>2, <3>3, <3>4, <3>5
  <2> QED BY <2>2, <2>3
<1>7. ASSUME NEW id \in Ids, Expire(id) PROVE \A q \in Requests : pc'[q] = "delete" => Will(q)
  BY <1>2, <1>7 DEF Expire, request, Rows
<1>8. CASE UNCHANGED vars
  BY <1>2, <1>8 DEF vars, request, Rows
<1> QED BY <1>3, <1>4, <1>5, <1>6, <1>7, <1>8 DEF Next, Steps

-----------------------------------------------------------------------------
(***************************************************************************)
(* A hash without a row has somebody who will drop it or bring the row     *)
(* back.                                                                   *)
(***************************************************************************)
Storing == {"insert", "commit", "reinsert", "recommit"}
Owed(r, id) == \/ pc[r] = "drop" /\ id \in doomed[r]
               \/ pc[r] \in Storing /\ target[r] = id
Due == \A id \in cached : id \in Rows \/ \E r \in Requests : Owed(r, id)

\* No step leaves a hash without a row and without anybody who owes one of the two.
LEMMA DueStep ==
  ASSUME RoomsInv, Due, [Next]_vars
  PROVE  Due'
<1>1. TypeOK /\ IsFiniteSet(Rows)
  BY DEF RoomsInv
<1> DEFINE Will(q, id) == \/ pc'[q] = "drop" /\ id \in doomed'[q]
                          \/ pc'[q] \in Storing /\ target'[q] = id
           Fine(id) == id \in Rows' \/ \E q \in Requests : Will(q, id)
<1> SUFFICES ASSUME NEW id \in cached' PROVE Fine(id)
  BY DEF Due, Owed
<1>2. id \in cached => id \in Rows \/ \E q \in Requests : Owed(q, id)
  BY DEF Due
<1>3. ASSUME NEW r \in Requests, Steps(r) PROVE Fine(id)
  <2>1. /\ r \in DOMAIN pc /\ r \in DOMAIN doomed /\ target' = target
        /\ \A q \in Requests \ {r} : pc'[q] = pc[q]
    BY <1>1, <1>3, Others DEF TypeOK
  <2>2. \A q \in Requests \ {r} : pc[q] = "drop" => doomed'[q] = doomed[q]
    BY <1>1, <1>3 DEF Steps, Arrive, Owner, Count, Pick, Delete, Drop, Dropped, WriteHash, Stamp,
                      Insert, Answered, request, TypeOK
  <2>3. ASSUME NEW q \in Requests \ {r}, Owed(q, id) PROVE Fine(id)
    BY <2>1, <2>2, <2>3 DEF Owed, Storing
  <2>4. CASE WriteHash(r)
    <3>1. CASE id = target[r]
      <4>1. pc'[r] \in Storing
        BY <2>1, <2>4 DEF WriteHash, Go, Storing
      <4> QED BY <2>1, <3>1, <4>1
    <3>2. CASE id # target[r]
      <4>1. id \in cached /\ Rows' = Rows /\ pc[r] \in {"cache", "recache"}
        BY <2>4, <3>2 DEF WriteHash, Go, Rows
      <4> QED BY <1>2, <2>3, <4>1 DEF Owed, Storing
    <3> QED BY <3>1, <3>2
  <2>5. CASE Drop(r)
    <3>1. PICK gone \in doomed[r] : cached' = cached \ {gone} /\ doomed' = [doomed EXCEPT ![r] = @ \ {gone}]
      BY <2>5 DEF Drop, HashDropped
    <3>2. id \in cached /\ id # gone /\ Rows' = Rows /\ pc' = pc /\ pc[r] = "drop"
      BY <2>5, <3>1 DEF Drop, Rows
    <3>3. CASE Owed(r, id)
      <4>1. id \in doomed'[r]
        BY <2>1, <3>1, <3>2, <3>3 DEF Owed, Storing
      <4> QED BY <3>2, <4>1
    <3> QED BY <1>2, <2>3, <3>2, <3>3
  <2>6. CASE Delete(r)
    <3>1. id \in cached /\ pc[r] = "delete" /\ pc'[r] = "drop" /\ doomed'[r] = doomed[r]
      BY <1>1, <2>6 DEF Delete, Go, TypeOK
    <3>2. CASE id \in Rows
      BY <1>1, <2>6, <3>1, <3>2, DeleteTakes
    <3>3. CASE id \notin Rows
      BY <1>2, <2>3, <3>1, <3>3 DEF Owed, Storing
    <3> QED BY <3>2, <3>3
  <2>7. CASE Insert(r)
    <3>1. id \in cached /\ target[r] \in Rows' /\ Rows \subseteq Rows'
      BY <1>1, <2>7, InsertAdds DEF Insert
    <3>2. Owed(r, id) => id = target[r]
      BY <2>7 DEF Insert, Go, Owed, Storing
    <3> QED BY <1>2, <2>3, <3>1, <3>2
  <2>8. CASE Arrive(r) \/ Owner(r) \/ Count(r) \/ Pick(r) \/ Dropped(r) \/ Answered(r)
    <3>1. id \in cached /\ Rows' = Rows
      BY <2>8 DEF Rows, Arrive, Owner, Count, Pick, Dropped, Answered, request
    <3>2. ~Owed(r, id)
      BY <2>8 DEF Arrive, Owner, Count, Pick, Dropped, Answered, Go, Owed, Storing
    <3> QED BY <1>2, <2>3, <3>1, <3>2
  <2>9. CASE Stamp(r)
    <3>1. id \in cached /\ Rows' = Rows
      BY <2>9 DEF Stamp, Rows
    <3>2. Owed(r, id) => Will(r, id)
      BY <2>1, <2>9 DEF Stamp, Go, Owed, Storing
    <3> QED BY <1>2, <2>3, <3>1, <3>2
  <2> QED BY <1>3, <2>4, <2>5, <2>6, <2>7, <2>8, <2>9 DEF Steps
<1>4. ASSUME NEW old \in Ids, Expire(old) PROVE Fine(id)
  BY <1>2, <1>4 DEF Expire, request, Owed, Storing, Rows
<1>5. CASE UNCHANGED vars
  BY <1>2, <1>5 DEF vars, request, Owed, Storing, Rows
<1> QED BY <1>3, <1>4, <1>5 DEF Next, Steps

-----------------------------------------------------------------------------
(* The theorems *)

\* The invariant holds of every table the run may start from, and of its empty cache.
LEMMA RoomsInit ==
  ASSUME Init
  PROVE  RoomsInv /\ Due
<1>1. PICK list \in InitialRooms : rooms = AntiFunction(list) /\ clock = Len(list) + 1
  BY DEF Init
<1>2. list \in Seq(OldIds) /\ Len(list) \in Nat /\ DOMAIN list = 1..Len(list)
  BY RoomsAssumption
<1>3. Rows = Range(list) /\ \A id \in Rows : rooms[id] \in 1..Len(list)
  <2>1. rooms = [id \in Range(list) |-> CHOOSE i \in DOMAIN list : id \in Range(list) => list[i] = id]
    BY <1>1 DEF AntiFunction, Inverse
  <2>2. \A id \in Range(list) : \E i \in DOMAIN list : list[i] = id
    BY DEF Range
  <2> QED BY <1>2, <2>1, <2>2 DEF Rows
<1>4. Rows \subseteq OldIds /\ OldIds \subseteq Ids
  BY <1>2, <1>3 DEF Range, Ids
<1>5. IsFiniteSet(Rows)
  <2> DEFINE n == Len(list)
             f == [i \in 1..n |-> list[i]]
  <2>1. n \in Nat /\ IsFiniteSet(1..n)
    BY <1>2, FS_Interval
  <2>2. f \in Surjection(1..n, Rows)
    BY <1>2, <1>3 DEF Surjection, Range
  <2> QED BY <2>1, <2>2, FS_Surjection
<1>6. TypeOK
  <2>1. \A id \in DOMAIN rooms : rooms[id] \in Nat
    BY <1>2, <1>3 DEF Rows
  <2>2. clock \in Nat
    BY <1>1, <1>2
  <2> QED BY <1>4, <2>1, <2>2 DEF Init, TypeOK, Rows
<1>7. Calls /\ Chosen /\ Spare /\ Due
  BY DEF Init, Calls, Chosen, Spare, Due
<1> QED BY <1>5, <1>6, <1>7 DEF RoomsInv

\* The invariant, and that every hash is backed or owed, hold of every behaviour.
LEMMA RoomsInvariant == Spec => [](RoomsInv /\ Due)
<1>1. Init => RoomsInv /\ Due
  BY RoomsInit
<1>2. RoomsInv /\ Due /\ [Next]_vars => RoomsInv' /\ Due'
  BY TypeStep, CallsStep, ChosenStep, SpareStep, DueStep DEF RoomsInv
<1> QED BY <1>1, <1>2, PTL DEF Spec

(***************************************************************************)
(* Types of the guest's table, its cache and its requests: among them that *)
(* ensure_guest_room never asks for a negative number of rows.             *)
(***************************************************************************)
THEOREM TypeCorrect == Spec => []TypeOK
<1>1. RoomsInv => TypeOK
  BY DEF RoomsInv
<1> QED BY <1>1, RoomsInvariant, PTL

(***************************************************************************)
(* Who makes room and inserts without another insertion in between leaves  *)
(* at most MaxSessions rows (ensure_guest_room, then save_session).        *)
(***************************************************************************)
THEOREM QuotaKept == Spec => SerialQuota
<1> DEFINE Kept == \A r \in Requests :
                     pc[r] = "commit" /\ pc'[r] # "commit" /\ alone[r] =>
                       Cardinality(Rows') <= MaxSessions
<1>1. ASSUME RoomsInv, [Next]_vars PROVE Kept \/ UNCHANGED vars
  <2>1. SUFFICES ASSUME NEW r \in Requests, pc[r] = "commit", pc'[r] # "commit", alone[r]
                 PROVE  Cardinality(Rows') <= MaxSessions
    OBVIOUS
  <2>2. /\ TypeOK /\ IsFiniteSet(Rows) /\ MaxSessions \in Nat
        /\ Cardinality(Rows) \in Nat /\ Cardinality(Rows) < MaxSessions
    BY <1>1, <2>1, QuotaAssumption, FS_CardinalityType DEF RoomsInv, Spare
  <2>3. PICK q \in Requests : Steps(q)
    BY <1>1, <2>1 DEF Next, Steps, Expire, vars
  <2>4. q = r
    BY <2>1, <2>2, <2>3, Others
  <2>5. Insert(r)
    BY <2>1, <2>3, <2>4 DEF Steps, Arrive, Owner, Count, Pick, Delete, Drop, Dropped, WriteHash, Stamp,
                            Answered, Go
  <2>6. IsFiniteSet(Rows') /\ Cardinality(Rows') <= Cardinality(Rows) + 1
    BY <2>2, <2>5, InsertAdds
  <2>7. Cardinality(Rows') \in Nat
    BY <2>6, FS_CardinalityType
  <2> QED BY <2>2, <2>6, <2>7
<1>2. RoomsInv /\ [Next]_vars => [Kept]_vars
  BY <1>1
<1> QED BY <1>2, RoomsInvariant, PTL DEF Spec, SerialQuota

(***************************************************************************)
(* Whatever overlaps, of the rows a statement saw and nobody else deleted  *)
(* the oldest go: ensure_guest_room deletes by created_at, and a login     *)
(* everything its SELECT saw.                                              *)
(***************************************************************************)
THEOREM OldestFirst == Spec => OldestGoFirst
<1> DEFINE Older == \A r \in Requests :
                      pc[r] = "delete" /\ pc'[r] # "delete" =>
                        \A gone \in Rows \ Rows', kept \in seen[r] \cap Rows' : rooms[gone] < rooms[kept]
<1>1. ASSUME RoomsInv, [Next]_vars, NEW r \in Requests, pc[r] = "delete", pc'[r] # "delete",
             NEW gone \in Rows \ Rows', NEW kept \in seen[r] \cap Rows'
      PROVE  rooms[gone] < rooms[kept]
  <2>1. TypeOK /\ IsFiniteSet(Rows) /\ Chosen
    BY <1>1 DEF RoomsInv
  <2>2. PICK q \in Requests : Steps(q)
    BY <1>1 DEF Next, Steps, Expire, vars
  <2>3. q = r
    BY <1>1, <2>1, <2>2, Others
  <2>4. Delete(r)
    BY <1>1, <2>2, <2>3 DEF Steps, Arrive, Owner, Count, Pick, Drop, Dropped, WriteHash, Stamp, Insert,
                            Answered, Go
  <2>5. Rows' = Rows \ doomed[r]
    BY <2>1, <2>4, DeleteTakes
  <2>6. gone \in doomed[r] /\ kept \in seen[r] \ doomed[r]
    BY <1>1, <2>5
  <2> QED BY <1>1, <2>1, <2>6 DEF Chosen
<1>2. RoomsInv /\ [Next]_vars => [Older]_vars
  BY <1>1
<1> QED BY <1>2, RoomsInvariant, PTL DEF Spec, OldestGoFirst

(***************************************************************************)
(* Once nothing runs, every hash has its row (_write_messages writes the   *)
(* hash first; ensure_guest_room and login drop it last).                  *)
(***************************************************************************)
THEOREM HashesAreBacked == Spec => []HashesHaveRows
<1>1. Due => HashesHaveRows
  BY DEF Due, Owed, Storing, HashesHaveRows
<1> QED BY <1>1, RoomsInvariant, PTL

=============================================================================
