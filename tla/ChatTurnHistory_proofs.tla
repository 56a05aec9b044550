------------------------ MODULE ChatTurnHistory_proofs ------------------------
(***************************************************************************)
(* What the generation lock is for, proved: as long as no run outlives the *)
(* TTL of its lock, every history that is saved was read under the same    *)
(* lock, so the history only grows, an answer stands after its question,   *)
(* the Agent is sent all it has to know, and the hash in Redis follows.    *)
(*                                                                         *)
(* The facts hold for any number of requests, under the named hypotheses   *)
(* below; each theorem says which of them it needs.                        *)
(***************************************************************************)
EXTENDS ChatTurn_proofs

USE DEF LockKinds

(***************************************************************************)
(* No run outlives GENERATION_LOCK_TTL_SECONDS: the lock of a live holder  *)
(* never lapses.                                                           *)
(***************************************************************************)
NoOverrun == "lapse" \notin Faults

(***************************************************************************)
(* A GET finds no message without an id, so it never writes a list back:   *)
(* there is no GET, or no row from before ids existed.                     *)
(***************************************************************************)
NoWriteBack ==
  \/ "get" \notin Kinds
  \/ \A start \in InitialRows \ {NoRow} : ~LacksId(start.messages)

\* No call raises and no worker dies between two writes of one run.
NoTornWrite == Faults \cap {"raise", "crash"} = {}

(***************************************************************************)
(* The rows the session may start from are as the program leaves them: the *)
(* Agent's history, if there is one, stands for every stored message.      *)
(***************************************************************************)
StartsCovered ==
  \A start \in InitialRows \ {NoRow} :
    start.llm # NoLlm =>
      \A i \in DOMAIN start.messages :
        Gist(start.messages[i]) \in Seen(start.llm)

-----------------------------------------------------------------------------
(***************************************************************************)
(* The invariants.                                                         *)
(***************************************************************************)
Works(r) == kind[r] \in LockKinds /\ pc[r] \in Running

\* Whoever works on the session holds its lock, so nobody else does.
SoleWorker == \A r \in Requests : Works(r) => lock = r

\* Where the list of a run ends with its question, and with its answer.
AtQuestion(r) ==
  \/ pc[r] \in {"cache", "save", "llmRead", "llmWrite"}
     /\ gen[r].phase \in {"question", "truncate"}
  \/ pc[r] \in {"context", "source", "compacting", "install", "clear"}
  \/ pc[r] = "body" /\ kind[r] = "edit"
  \/ pc[r] \in {"agent", "reload"} /\ kind[r] # "resume"

AtAnswer(r) ==
  \/ pc[r] \in {"cache", "save", "llmRead", "llmWrite"}
     /\ gen[r].phase = "reply"
  \/ pc[r] = "memory"
  \/ pc[r] = "usage" /\ agent[r] = "done"

EndsWith(list, m) == list # <<>> /\ Last(list) = m

Ending(r) ==
  kind[r] \in LockKinds =>
    /\ AtQuestion(r) => EndsWith(gen[r].held, Question(r))
    /\ AtAnswer(r) => EndsWith(gen[r].held, Answer(r))

Endings == \A r \in Requests : Ending(r)

\* The first n messages of two lists say the same.
Agree(list, other, n) ==
  /\ n <= Len(list) /\ n <= Len(other)
  /\ \A i \in 1..n : Gist(list[i]) = Gist(other[i])

\* Where a run holds what it read, is about to write it, and has written it.
HoldsRead(r) ==
  \/ pc[r] \in {"adopt", "ready"}
  \/ pc[r] \in {"cache", "save"} /\ gen[r].phase = "migrate"
HoldsNew(r) ==
  pc[r] \in {"cache", "save"} /\ gen[r].phase \in {"question", "reply"}
HoldsCut(r) ==
  pc[r] \in {"cache", "save"} /\ gen[r].phase = "truncate"
HoldsStored(r) ==
  \/ pc[r] \in {"llmRead", "llmWrite", "context", "clear", "source",
                "compacting", "install", "memory"}
  \/ pc[r] = "body" /\ kind[r] = "edit"
  \/ pc[r] \in {"agent", "reload"} /\ kind[r] # "resume"
  \/ pc[r] = "usage" /\ agent[r] = "done"

(***************************************************************************)
(* What a run holds is what the row has, or that and one message more, or  *)
(* a cut of it and one message more. The row may have been deleted since.  *)
(***************************************************************************)
Synced(r) ==
  LET held == gen[r].held
  IN  /\ row # NoRow =>
           /\ HoldsRead(r) =>
                /\ Len(held) = Len(row.messages)
                /\ Agree(held, row.messages, Len(row.messages))
           /\ HoldsNew(r) =>
                /\ Len(held) = Len(row.messages) + 1
                /\ Agree(held, row.messages, Len(row.messages))
           /\ HoldsCut(r) => Agree(held, row.messages, Len(held) - 1)
           /\ HoldsStored(r) => row.messages = held
      /\ row = NoRow /\ HoldsStored(r) => "evict" \in Kinds

InSync == \A r \in Requests : kind[r] \in LockKinds => Synced(r)

\* Where a GET may look around, all messages have ids; and it writes nothing.
Identified(list) == \A i \in DOMAIN list : list[i].hasId
AllIdentified ==
  "get" \in Kinds =>
    /\ row # NoRow => Identified(row.messages)
    /\ \A r \in Requests : Identified(gen[r].held)
GetsOnlyRead ==
  \A r \in Requests :
    kind[r] \notin LockKinds =>
      /\ pc[r] \notin {"adopt", "cache", "save"}
      /\ pc[r] \in {"load", "ready"} => kind[r] = "get"

\* In a list, an answer stands right after its question.
Follows(list) ==
  \A i \in DOMAIN list :
    /\ list[i].role = "assistant" /\ list[i].by # Old
    /\ kind[list[i].by] # "resume"
    => IF i = 1 THEN "evict" \in Kinds
       ELSE Gist(list[i - 1]) = Gist(Question(list[i].by))

Answered ==
  /\ row # NoRow => Follows(row.messages)
  /\ \A r \in Requests : Follows(gen[r].held)

\* The Agent's history read from the row is that of the row.
ReadsLlm(r) ==
  pc[r] = "llmWrite" /\ row # NoRow => row.llm = gen[r].llm

LlmReads == \A r \in Requests : kind[r] \in LockKinds => ReadsLlm(r)

\* Only a compaction asks the Agent for a summary.
Compacts ==
  \A r \in Requests :
    pc[r] \in {"source", "compacting", "install"} => kind[r] = "compact"

\* What is sent to the Agent ends with the question, as does what it is read from.
AsksIt(r) ==
  /\ pc[r] = "context" /\ Llm # NoLlm =>
       Llm # <<>> /\ Last(Llm) = Entry(Question(r))
  /\ pc[r] = "agent" /\ kind[r] \in {"post", "edit"} =>
       gen[r].sent # <<>> /\ Last(gen[r].sent) = Entry(Question(r))

Asking == \A r \in Requests : kind[r] \in LockKinds => AsksIt(r)

\* A set of gists has all that is in a list, save commands and notices.
Covers(gists, list, pending) ==
  \A i \in DOMAIN list :
    \/ list[i].by # Old /\ kind[list[i].by] = "compact"
    \/ Gist(list[i]) \in gists \cup pending

\* Saved in messages, and not yet in llm_messages (or about to clear them).
Pending ==
  {Gist(Last(gen[r].held)) :
     r \in {q \in Requests : /\ kind[q] \in LockKinds
                             /\ pc[q] \in {"llmRead", "llmWrite", "clear"}}}

SentAll(r) ==
  /\ kind[r] \in LockKinds
  /\ \/ pc[r] = "agent" /\ kind[r] # "resume"
     \/ pc[r] \in {"compacting", "install"}
  => Covers(Seen(gen[r].sent), row.messages, {})

Covered ==
  row # NoRow =>
    /\ row.llm # NoLlm => Covers(Seen(row.llm), row.messages, Pending)
    /\ \A r \in Requests : SentAll(r)

\* The hash is the window of the row, or of a list about to be saved.
Hash ==
  /\ \A r \in Requests :
       kind[r] \in LockKinds /\ pc[r] = "save" =>
         cache = NoCache \/ cache = Window(gen[r].held)
  /\ \/ cache = NoCache
     \/ \E r \in Requests : pc[r] = "drop"
     \/ \E r \in Requests : kind[r] \in LockKinds /\ pc[r] = "save"
     \/ row # NoRow /\ cache = Window(row.messages)

-----------------------------------------------------------------------------
(***************************************************************************)
(* Lists: what they say after an append, a cut and the assignment of ids.  *)
(***************************************************************************)
LEMMA AgreeIds ==
  ASSUME NEW list \in Seq(Messages)
  PROVE  /\ Len(WithIds(list)) = Len(list)
         /\ Agree(WithIds(list), list, Len(list))
<1>1. \A i \in 1..Len(list) : list[i] \in Messages
  OBVIOUS
<1>2. DOMAIN WithIds(list) = 1..Len(list) /\ Len(list) \in Nat
  BY DEF WithIds
<1>3. WithIds(list) \in Seq(Messages)
  BY ListTypes
<1>4. Len(WithIds(list)) = Len(list)
  BY <1>2, <1>3
<1>5. \A i \in 1..Len(list) : WithIds(list)[i] = [list[i] EXCEPT !.hasId = TRUE]
  <2>1. DOMAIN list = 1..Len(list)
    OBVIOUS
  <2> QED BY <2>1 DEF WithIds
<1>6. \A i \in 1..Len(list) : Gist(WithIds(list)[i]) = Gist(list[i])
  BY <1>1, <1>5 DEF Gist, Messages
<1> QED BY <1>2, <1>4, <1>6 DEF Agree

\* A message at the end leaves the rest as it is.
LEMMA AgreeAppend ==
  ASSUME NEW list \in Seq(Messages), NEW m \in Messages,
         NEW other \in Seq(Messages), NEW n \in Nat, Agree(list, other, n)
  PROVE  /\ Append(list, m) \in Seq(Messages)
         /\ Len(Append(list, m)) = Len(list) + 1
         /\ Agree(Append(list, m), other, n)
         /\ EndsWith(Append(list, m), m)
<1>1. /\ Append(list, m) \in Seq(Messages) /\ Append(list, m) # <<>>
      /\ Len(Append(list, m)) = Len(list) + 1
      /\ \A i \in 1..Len(list) : Append(list, m)[i] = list[i]
      /\ Append(list, m)[Len(list) + 1] = m
  BY AppendProperties
<1>2. n <= Len(list) /\ n <= Len(other) /\ n <= Len(list) + 1
      /\ \A i \in 1..n : Gist(list[i]) = Gist(other[i])
  BY DEF Agree
<1>3. \A i \in 1..n : i \in 1..Len(list)
  BY <1>2
<1>4. Agree(Append(list, m), other, n)
  BY <1>1, <1>2, <1>3 DEF Agree
<1>5. EndsWith(Append(list, m), m)
  BY <1>1 DEF EndsWith, Last
<1> QED BY <1>1, <1>4, <1>5

\* A list agrees with itself.
LEMMA AgreeSelf ==
  ASSUME NEW list \in Seq(Messages)
  PROVE  Agree(list, list, Len(list))
  BY DEF Agree

\* A cut agrees with the list as far as it goes.
LEMMA AgreeCut ==
  ASSUME NEW list \in Seq(Messages), NEW other \in Seq(Messages),
         NEW i \in DOMAIN list, Len(list) = Len(other),
         Agree(list, other, Len(other))
  PROVE  /\ SubSeq(list, 1, i - 1) \in Seq(Messages)
         /\ Len(SubSeq(list, 1, i - 1)) = i - 1 /\ i - 1 \in Nat
         /\ Agree(SubSeq(list, 1, i - 1), other, i - 1)
<1>1. i \in 1..Len(list)
  OBVIOUS
<1>2. /\ SubSeq(list, 1, i - 1) \in Seq(Messages)
      /\ Len(SubSeq(list, 1, i - 1)) = i - 1 /\ i - 1 \in Nat
      /\ \A j \in 1..(i - 1) : SubSeq(list, 1, i - 1)[j] = list[j]
  BY <1>1
<1>3. \A j \in 1..(i - 1) : j \in 1..Len(other)
  BY <1>1
<1> QED BY <1>1, <1>2, <1>3 DEF Agree

\* In terms of the gists: what was there is a prefix of what agrees with it.
LEMMA GistedIsList ==
  ASSUME NEW list \in Seq(Messages)
  PROVE  /\ Gisted(list) \in Seq(Gists) /\ Len(Gisted(list)) = Len(list)
         /\ \A i \in 1..Len(list) : Gisted(list)[i] = Gist(list[i])
<1>1. \A i \in 1..Len(list) : list[i] \in Messages
  OBVIOUS
<1>2. \A i \in 1..Len(list) : Gist(list[i]) \in Gists
  BY <1>1 DEF Messages, Gist, Gists
<1>3. DOMAIN list = 1..Len(list) /\ Len(list) \in Nat
  OBVIOUS
<1>4. Gisted(list) \in Seq(Gists)
  BY <1>2, <1>3 DEF Gisted
<1>5. DOMAIN Gisted(list) = 1..Len(list)
  BY <1>3 DEF Gisted
<1>6. Len(Gisted(list)) = Len(list)
  BY <1>3, <1>4, <1>5
<1> QED BY <1>3, <1>4, <1>6 DEF Gisted

\* What agrees as far as it goes is a prefix, in terms of the gists.
LEMMA AgreePrefix ==
  ASSUME NEW list \in Seq(Messages), NEW other \in Seq(Messages)
  PROVE  /\ Agree(list, other, Len(other)) =>
              IsPrefix(Gisted(other), Gisted(list))
         /\ list # <<>> /\ Agree(list, other, Len(list) - 1) =>
              IsPrefix(Front(Gisted(list)), Gisted(other))
<1> DEFINE g == Gisted(list)
           h == Gisted(other)
<1>1. /\ g \in Seq(Gists) /\ Len(g) = Len(list)
      /\ \A i \in 1..Len(list) : g[i] = Gist(list[i])
  BY GistedIsList
<1>2. /\ h \in Seq(Gists) /\ Len(h) = Len(other)
      /\ \A i \in 1..Len(other) : h[i] = Gist(other[i])
  BY GistedIsList
<1>3. Len(list) \in Nat /\ Len(other) \in Nat
  OBVIOUS
<1> HIDE DEF g, h
<1>4. ASSUME Agree(list, other, Len(other)) PROVE IsPrefix(h, g)
  <2>1. /\ Len(h) <= Len(g)
        /\ \A i \in 1..Len(h) : h[i] = g[i]
    BY <1>1, <1>2, <1>3, <1>4 DEF Agree
  <2>2. SubSeq(h, 1, Len(h)) = SubSeq(g, 1, Len(h))
    BY <1>1, <1>2, <1>3, <2>1
  <2> QED BY <2>1, <2>2 DEF IsPrefix
<1>5. ASSUME list # <<>>, Agree(list, other, Len(list) - 1)
      PROVE  IsPrefix(Front(g), h)
  <2>1. Len(g) >= 1
    BY <1>1, <1>3, <1>5
  <2>2. /\ Front(g) \in Seq(Gists) /\ Len(Front(g)) = Len(g) - 1
        /\ \A i \in 1..(Len(g) - 1) : Front(g)[i] = g[i]
    BY <1>1, <1>3, <2>1 DEF Front
  <2>3. /\ Len(Front(g)) <= Len(h)
        /\ \A i \in 1..Len(Front(g)) : Front(g)[i] = h[i]
    BY <1>1, <1>2, <1>3, <1>5, <2>1, <2>2 DEF Agree
  <2>4. SubSeq(Front(g), 1, Len(Front(g))) = SubSeq(h, 1, Len(Front(g)))
    BY <1>1, <1>2, <1>3, <2>1, <2>2, <2>3
  <2> QED BY <2>3, <2>4 DEF IsPrefix
<1> QED BY <1>4, <1>5 DEF g, h

-----------------------------------------------------------------------------
(***************************************************************************)
(* The lock serializes the runs, unless one may outlive it.                *)
(***************************************************************************)
LEMMA InitSoleWorker == Init => SoleWorker
  BY DEF Init, SoleWorker, Works, Running, StoreCalls

\* Only the run that takes a step gets into its work or out of it.
LEMMA StepSoleWorker ==
  ASSUME NoOverrun
  PROVE  IInv /\ SoleWorker /\ [Next]_vars => SoleWorker'
<1> SUFFICES ASSUME IInv, SoleWorker, [Next]_vars PROVE SoleWorker'
  OBVIOUS
<1>0. TypeOK /\ pc \in [Requests -> Pcs] /\ kind' = kind
  BY TypeParts, KindStays DEF IInv, ControlOK
<1>1. ASSUME NEW r \in Requests, Arrive(r) \/ Step(r) \/ Fault(r),
             NEW q \in Requests, Works(q)'
      PROVE  lock' = q
  <2>1. CASE Begin(r)
    <3>1. \A p \in Requests : ~Works(p)
      BY <2>1, AbsentIsNoValue DEF Begin, SoleWorker
    <3>2. q = r
      BY <1>0, <1>1, <2>1, <3>1, OthersStay DEF Works
    <3> QED BY <2>1, <3>2 DEF Begin
  <2>2. CASE Finish(r)
    <3>1. ~Works(r)'
      BY <1>0, <2>2 DEF Finish, Go, Works, Running, StoreCalls
    <3>2. q # r /\ Works(q)
      BY <1>0, <1>1, <3>1, OthersStay DEF Works
    <3> QED BY <2>2, <3>2 DEF SoleWorker, Finish, Released
  <2>3. CASE ~Begin(r) /\ ~Finish(r)
    <3>1. lock' = lock
      <4>1. CASE Arrive(r)
        BY <2>3, <4>1 DEF Arrive, Refuse, Get, Evict, stores
      <4>2. CASE Step(r)
        BY <2>3, <4>2 DEF Step, stores, StartTurn, StartEdited, StartResumed,
          ResumeUnknown, Load, LoadNothing, Adopt, WriteCache, Save, Ask,
          Truncate, NothingToEdit, Viewed, ClearLlm, LlmRead, LlmWrite,
          Context, AgentDone, AgentPauses, AgentCancels, AgentFails,
          AgentDrops, Reload, Memory, Usage, Source, CompactDone,
          CompactSkipped, CompactFails, Install, DropCache
      <4>3. CASE Fault(r)
        BY <4>3 DEF Fault, Raise, RaiseInBody, RaiseInHandler,
          RaiseInRelease, RaiseOutsideRun, Crash, ClientGone, stores
      <4> QED BY <1>1, <4>1, <4>2, <4>3
    <3>2. Works(q)
      <4>1. CASE q # r
        BY <1>0, <1>1, <4>1, OthersStay DEF Works
      <4>2. CASE q = r
        <5>1. kind[r] \in LockKinds /\ pc'[r] \in Running
          BY <1>0, <1>1, <4>2 DEF Works
        <5>2. CASE Arrive(r)
          BY <1>0, <2>3, <5>1, <5>2 DEF Arrive, Refuse, Get, Evict, Go, Running,
            StoreCalls, Pcs
        <5>3. CASE Step(r)
          <6>1. pc[r] \in Running
            BY <5>3 DEF Step, Go, Running, StoreCalls, StartTurn, StartEdited,
              StartResumed, ResumeUnknown, Load, LoadNothing, Adopt, WriteCache,
              Save, Ask, Truncate, NothingToEdit, Viewed, ClearLlm, LlmRead,
              LlmWrite, Context, AgentDone, AgentPauses, AgentCancels,
              AgentFails, AgentDrops, Reload, Memory, Usage, Source,
              CompactDone, CompactSkipped, CompactFails, Install, Finish,
              DropCache
          <6> QED BY <4>2, <5>1, <6>1 DEF Works
        <5>4. CASE Fault(r)
          <6>1. pc[r] \in Running
            BY <5>4 DEF Fault, Raise, RaiseInBody, RaiseInHandler,
              RaiseInRelease, RaiseOutsideRun, Crash, ClientGone, Go, Running,
              StoreCalls
          <6> QED BY <4>2, <5>1, <6>1 DEF Works
        <5> QED BY <1>1, <5>2, <5>3, <5>4
      <4> QED BY <4>1, <4>2
    <3> QED BY <3>1, <3>2 DEF SoleWorker
  <2> QED BY <2>1, <2>2, <2>3
<1>2. CASE Lapse
  <2>1. pc[lock] \in {"lost", "dead"} /\ lock # Free /\ pc' = pc
    BY <1>2 DEF Lapse, NoOverrun
  <2>2. \A q \in Requests : ~Works(q)
    BY <2>1 DEF SoleWorker, Works, Running, StoreCalls
  <2> QED BY <1>0, <2>1, <2>2 DEF SoleWorker, Works
<1>3. CASE CacheExpire \/ UNCHANGED vars
  BY <1>0, <1>3 DEF CacheExpire, vars, SoleWorker, Works
<1> QED BY <1>1, <1>2, <1>3, StepCases DEF SoleWorker

(***************************************************************************)
(* What one step of a request does to the row.                             *)
(***************************************************************************)
LEMMA RowStep ==
  ASSUME IInv, NEW r \in Requests, Arrive(r) \/ Step(r) \/ Fault(r)
  PROVE  \/ row' = row
         \/ row # NoRow /\ row' # NoRow /\ row'.messages = row.messages
         \/ Evict(r) /\ row' = NoRow /\ "evict" \in Kinds
         \/ Save(r) /\ row' # NoRow /\ row'.messages = gen[r].held
<1>0. RowOK /\ GenOK /\ kind \in [Requests -> Kinds]
  BY TypeParts DEF IInv, ControlOK
<1>1. CASE Save(r)
  <2>1. Upsert(gen[r].held) \in Rows
    BY <1>0, RowWrites, GenUpdates
  <2>2. row # NoRow => [row EXCEPT !.messages = gen[r].held].messages = gen[r].held
    BY <1>0 DEF RowOK, Rows
  <2> QED BY <1>1, <2>1, <2>2, AbsentIsNoValue DEF Save, Upsert
<1>2. CASE ClearLlm(r) \/ LlmWrite(r) \/ Install(r)
  <2>1. PICK entries \in Seq(Entries) \cup {NoLlm} : row' = SetLlm(entries)
    <3>1. CASE ClearLlm(r)
      BY <3>1 DEF ClearLlm
    <3>2. CASE LlmWrite(r)
      <4>1. gen[r].held # <<>>
        BY <3>2 DEF LlmWrite, Go, IInv, Routes, Route, Writing
      <4>2. Entry(Last(gen[r].held)) \in Entries
        BY <1>0, <4>1, GenUpdates, LastType, MessageTypes
      <4>3. Append(gen[r].llm, Entry(Last(gen[r].held))) \in Seq(Entries)
        BY <1>0, <4>2, GenUpdates
      <4> QED BY <3>2, <4>3 DEF LlmWrite
    <3>3. CASE Install(r)
      BY <1>0, <3>3, GenUpdates, SeenType DEF Install
    <3> QED BY <1>2, <3>1, <3>2, <3>3
  <2>2. CASE row = NoRow
    BY <2>1, <2>2 DEF SetLlm
  <2>3. CASE row # NoRow
    <3>1. /\ [row EXCEPT !.llm = entries].messages = row.messages
          /\ [row EXCEPT !.llm = entries] \in Rows
          /\ row' = [row EXCEPT !.llm = entries]
      BY <1>0, <2>1, <2>3 DEF RowOK, Rows, SetLlm
    <3> QED BY <2>3, <3>1, AbsentIsNoValue
  <2> QED BY <2>2, <2>3
<1>3. CASE Memory(r) \/ Usage(r)
  <2>1. CASE row = NoRow
    BY <1>3, <2>1 DEF Memory, Usage
  <2>2. CASE row # NoRow
    <3>1. LastUserText(gen[r].held) \in SUBSET Authors
      BY <1>0, GenUpdates, LastUserTextType
    <3>2. /\ [row EXCEPT !.usage = @ \cup {r}] \in Rows
          /\ [row EXCEPT !.memory = @ \cup LastUserText(gen[r].held)] \in Rows
      BY <1>0, <2>2, <3>1, RowWrites
    <3>3. /\ [row EXCEPT !.usage = @ \cup {r}].messages = row.messages
          /\ [row EXCEPT !.memory = @ \cup LastUserText(gen[r].held)].messages
               = row.messages
      BY <1>0, <2>2 DEF RowOK, Rows
    <3> QED BY <1>3, <2>2, <3>2, <3>3, AbsentIsNoValue DEF Memory, Usage
  <2> QED BY <2>1, <2>2
<1>4. CASE Evict(r)
  <2>1. "evict" \in Kinds
    BY <1>0, <1>4 DEF Evict
  <2> QED BY <1>4, <2>1 DEF Evict
<1>5. row' = row \/ WritesRow(r)
  <2>1. CASE Arrive(r)
    BY <2>1 DEF Arrive, Begin, Refuse, Get, WritesRow, stores
  <2>2. CASE Step(r)
    BY <2>2 DEF Step, WritesRow, stores, StartTurn, StartEdited, StartResumed,
      ResumeUnknown, Load, LoadNothing, Adopt, WriteCache, Ask, Truncate,
      NothingToEdit, Viewed, LlmRead, Context, AgentDone, AgentPauses,
      AgentCancels, AgentFails, AgentDrops, Reload, Source, CompactDone,
      CompactSkipped, CompactFails, Finish, DropCache
  <2>3. CASE Fault(r)
    BY <2>3 DEF Fault, Raise, RaiseInBody, RaiseInHandler, RaiseInRelease,
      RaiseOutsideRun, Crash, ClientGone, stores
  <2> QED BY <2>1, <2>2, <2>3
<1> QED BY <1>1, <1>2, <1>3, <1>4, <1>5 DEF WritesRow

\* Only a deletion and a save change its messages.
LEMMA RowKept ==
  ASSUME IInv, NEW r \in Requests, Arrive(r) \/ Step(r) \/ Fault(r),
         pc[r] \notin {"idle", "save"}
  PROVE  row' = row \/ (row # NoRow /\ row' # NoRow
                           /\ row'.messages = row.messages)
  BY RowStep DEF Evict, Save, Go

-----------------------------------------------------------------------------
(***************************************************************************)
(* What one step of a request does to the list it holds.                   *)
(***************************************************************************)
LEMMA KeepMeans ==
  ASSUME TypeOK, NEW r \in Requests, NEW phase, NEW list, Keep(r, phase, list)
  PROVE  /\ gen'[r].phase = phase /\ gen'[r].held = list
         /\ gen'[r].llm = gen[r].llm /\ gen'[r].sent = gen[r].sent
  BY DEF TypeOK, Keep, Gens

\* What an assignment to one local variable leaves in the others.
LEMMA FieldMeans ==
  ASSUME TypeOK, NEW r \in Requests, NEW v
  PROVE  /\ gen' = [gen EXCEPT ![r].phase = v] =>
              /\ gen'[r].phase = v /\ gen'[r].held = gen[r].held
              /\ gen'[r].llm = gen[r].llm /\ gen'[r].sent = gen[r].sent
         /\ gen' = [gen EXCEPT ![r].llm = v] =>
              /\ gen'[r].llm = v /\ gen'[r].held = gen[r].held
              /\ gen'[r].phase = gen[r].phase /\ gen'[r].sent = gen[r].sent
         /\ gen' = [gen EXCEPT ![r].sent = v] =>
              /\ gen'[r].sent = v /\ gen'[r].held = gen[r].held
              /\ gen'[r].phase = gen[r].phase /\ gen'[r].llm = gen[r].llm
  BY DEF TypeOK, Gens

\* A list is kept, dropped, read from the row, extended or cut.
LEMMA HeldStep ==
  ASSUME IInv, NEW r \in Requests, Arrive(r) \/ Step(r) \/ Fault(r)
  PROVE  \/ gen'[r].held = gen[r].held
         \/ gen'[r].held = <<>>
         \/ Load(r) /\ gen'[r].held = WithIds(History)
         \/ Ask(r) /\ gen'[r].held = Append(gen[r].held, Question(r))
         \/ Truncate(r) /\ \E i \in DOMAIN gen[r].held :
              gen'[r].held = Append(SubSeq(gen[r].held, 1, i - 1), Question(r))
         \/ Reload(r) /\ gen'[r].held = Append(History, Answer(r))
         \/ (CompactSkipped(r) \/ Install(r))
              /\ gen'[r].held = Append(gen[r].held, Answer(r))
<1>0. TypeOK /\ gen \in [Requests -> Gens]
  BY TypeParts DEF IInv, GenOK
<1>1. gen' = gen \/ WritesGen(r)
  <2>1. CASE Arrive(r)
    BY <2>1 DEF Arrive, Begin, Refuse, Get, Evict
  <2>2. CASE Step(r)
    BY <2>2 DEF Step, WritesGen, StartTurn, ResumeUnknown, LoadNothing,
      WriteCache, Save, NothingToEdit, LlmWrite, AgentDone, AgentPauses,
      AgentCancels, AgentFails, AgentDrops, Memory, Usage, CompactDone,
      CompactFails, DropCache
  <2>3. CASE Fault(r)
    BY <2>3 DEF Fault, ClientGone, WritesGen
  <2> QED BY <2>1, <2>2, <2>3
<1>2. CASE \/ StartEdited(r) \/ StartResumed(r) \/ ClearLlm(r)
           \/ LlmRead(r) \/ Context(r) \/ Source(r)
  <2>1. PICK v : \/ gen' = [gen EXCEPT ![r].phase = v]
                 \/ gen' = [gen EXCEPT ![r].llm = v]
                 \/ gen' = [gen EXCEPT ![r].sent = v]
    BY <1>2
    DEF StartEdited, StartResumed, ClearLlm, LlmRead, Context, Source
  <2> QED BY <1>0, <2>1, FieldMeans
<1>3. CASE Load(r) \/ Adopt(r) \/ Ask(r) \/ Reload(r)
  BY <1>0, <1>3, KeepMeans DEF Load, Adopt, Ask, Reload
<1>4. CASE Truncate(r)
  <2>1. PICK i \in DOMAIN gen[r].held :
          Keep(r, "truncate",
               Append(SubSeq(gen[r].held, 1, i - 1), Question(r)))
    BY <1>4 DEF Truncate
  <2>2. gen'[r].held = Append(SubSeq(gen[r].held, 1, i - 1), Question(r))
    BY <1>0, <2>1 DEF Keep, Gens
  <2> QED BY <1>4, <2>2
<1>5. CASE CompactSkipped(r) \/ Install(r)
  BY <1>0, <1>5, KeepMeans DEF CompactSkipped, Install, Notice
<1>6. CASE Viewed(r) \/ Finish(r) \/ Crash(r) \/ Raise(r)
  <2>1. gen' = gen \/ gen' = [gen EXCEPT ![r] = NoGen]
    BY <1>6 DEF Viewed, Finish, Crash, Raise, RaiseInBody, RaiseInHandler,
      RaiseInRelease, RaiseOutsideRun
  <2> QED BY <1>0, <2>1 DEF NoGen
<1> QED BY <1>1, <1>2, <1>3, <1>4, <1>5, <1>6 DEF WritesGen

\* Lists stay lists, and so do the authors' answers and questions.
LEMMA Lists ==
  ASSUME IInv
  PROVE  /\ History \in Seq(Messages)
         /\ row # NoRow => row \in Rows /\ row.messages \in Seq(Messages)
         /\ \A r \in Requests :
              /\ gen[r].held \in Seq(Messages)
              /\ Question(r) \in Messages /\ Answer(r) \in Messages
<1>1. RowOK /\ GenOK
  BY TypeParts DEF IInv
<1>2. row # NoRow => row \in Rows /\ row.messages \in Seq(Messages)
  BY <1>1 DEF RowOK, Rows
<1> QED BY <1>1, <1>2, RowReads, GenUpdates, MessageTypes

-----------------------------------------------------------------------------
(***************************************************************************)
(* Where a run holds its question or its answer, its list ends with it.    *)
(***************************************************************************)
LEMMA InitEndings == Init => Endings
  BY DEF Init, Endings, Ending, AtQuestion, AtAnswer

\* An appended message is the last.
LEMMA AppendEnds ==
  ASSUME NEW list \in Seq(Messages), NEW m \in Messages
  PROVE  EndsWith(Append(list, m), m)
  BY AppendProperties DEF EndsWith, Last

\* A step that keeps the list goes from where it ends so to where it has to.
LEMMA StepEndings == IInv /\ Endings /\ [Next]_vars => Endings'
<1> SUFFICES ASSUME IInv, Endings, [Next]_vars PROVE Endings'
  OBVIOUS
<1>0. /\ TypeOK /\ Routes /\ kind' = kind
      /\ pc \in [Requests -> Pcs] /\ agent \in [Requests -> Ends]
      /\ gen \in [Requests -> Gens]
  BY TypeParts, KindStays DEF IInv, ControlOK, GenOK
<1>1. ASSUME NEW r \in Requests, Arrive(r) \/ Step(r) \/ Fault(r),
             NEW q \in Requests, q # r
      PROVE  Ending(q)'
  <2>1. Ending(q)
    BY DEF Endings
  <2> QED BY <1>0, <1>1, <2>1, OthersStay DEF Ending, AtQuestion, AtAnswer
<1>2. ASSUME NEW r \in Requests, Arrive(r) \/ Step(r) \/ Fault(r)
      PROVE  Ending(r)'
  <2>0. Ending(r) /\ Route(r)
    BY <1>0 DEF Endings, Routes
  <2>a. /\ EndsWith(Append(gen[r].held, Question(r)), Question(r))
        /\ EndsWith(Append(gen[r].held, Answer(r)), Answer(r))
        /\ EndsWith(Append(History, Answer(r)), Answer(r))
    BY Lists, AppendEnds
  <2> USE <1>0 DEF Go
  <2>1. CASE Arrive(r)
    BY <2>1 DEF Arrive, Begin, Refuse, Get, Evict, Ending, AtQuestion, AtAnswer
  <2>2. CASE Fault(r)
    BY <2>2, <2>0 DEF Fault, Raise, RaiseInBody, RaiseInHandler, RaiseInRelease,
      RaiseOutsideRun, Crash, ClientGone, Ending, AtQuestion, AtAnswer,
      Route, Unlocked
  <2>3. CASE StartTurn(r) \/ ResumeUnknown(r) \/ LoadNothing(r) \/ Load(r)
    BY <2>3 DEF StartTurn, ResumeUnknown, LoadNothing, Load, Ending,
      AtQuestion, AtAnswer
  <2>4. CASE StartEdited(r)
    BY <2>0, <2>4, FieldMeans DEF StartEdited, Ending, AtQuestion, AtAnswer
  <2>5. CASE StartResumed(r)
    BY <2>5, FieldMeans DEF StartResumed, Ending, AtQuestion, AtAnswer
  <2>6. CASE Adopt(r)
    BY <2>6, KeepMeans DEF Adopt, Ending, AtQuestion, AtAnswer
  <2>7. CASE WriteCache(r)
    BY <2>0, <2>7 DEF WriteCache, Ending, AtQuestion, AtAnswer
  <2>8. CASE Save(r)
    BY <2>0, <2>8 DEF Save, AfterSave, Ending, AtQuestion, AtAnswer, Route,
      Writing, Earned, Gens, Phases
  <2>9. CASE Ask(r)
    BY <2>a, <2>9, KeepMeans DEF Ask, Ending, AtQuestion, AtAnswer
  <2>10. CASE Truncate(r)
    <3>1. PICK i \in DOMAIN gen[r].held :
            Keep(r, "truncate",
                 Append(SubSeq(gen[r].held, 1, i - 1), Question(r)))
      BY <2>10 DEF Truncate
    <3>2. SubSeq(gen[r].held, 1, i - 1) \in Seq(Messages)
      BY Lists
    <3>3. EndsWith(Append(SubSeq(gen[r].held, 1, i - 1), Question(r)),
                   Question(r))
      BY <3>2, Lists, AppendEnds
    <3> QED BY <2>10, <3>1, <3>3, KeepMeans
            DEF Truncate, Ending, AtQuestion, AtAnswer
  <2>11. CASE NothingToEdit(r) \/ Viewed(r) \/ Finish(r) \/ DropCache(r)
    BY <2>11 DEF NothingToEdit, Viewed, Finish, DropCache, Ending, AtQuestion,
      AtAnswer
  <2>12. CASE ClearLlm(r)
    BY <2>0, <2>12, FieldMeans DEF ClearLlm, Ending, AtQuestion, AtAnswer
  <2>13. CASE LlmRead(r)
    BY <2>0, <2>13, FieldMeans DEF LlmRead, AfterAppend, Ending, AtQuestion,
      AtAnswer, Route, Writing
  <2>14. CASE LlmWrite(r)
    BY <2>0, <2>14 DEF LlmWrite, AfterAppend, Ending, AtQuestion,
      AtAnswer, Route, Writing
  <2>15. CASE Context(r) \/ Source(r)
    BY <2>0, <2>15, FieldMeans DEF Context, Source, Ending, AtQuestion, AtAnswer
  <2>16. CASE AgentDone(r) \/ AgentPauses(r) \/ AgentCancels(r)
              \/ AgentFails(r) \/ AgentDrops(r)
    BY <2>0, <2>16 DEF AgentDone, AgentPauses, AgentCancels, AgentFails,
      AgentDrops, Ending, AtQuestion, AtAnswer
  <2>17. CASE Reload(r)
    BY <2>a, <2>17, KeepMeans DEF Reload, Ending, AtQuestion, AtAnswer
  <2>18. CASE Memory(r) \/ Usage(r)
    BY <2>0, <2>18 DEF Memory, Usage, Ending, AtQuestion, AtAnswer
  <2>19. CASE CompactDone(r) \/ CompactFails(r)
    BY <2>0, <2>19 DEF CompactDone, CompactFails, Ending, AtQuestion, AtAnswer
  <2>20. CASE CompactSkipped(r) \/ Install(r)
    BY <2>a, <2>20, KeepMeans DEF CompactSkipped, Install, Notice, Ending,
      AtQuestion, AtAnswer
  <2> QED
    BY <1>2, <2>1, <2>2, <2>3, <2>4, <2>5, <2>6, <2>7, <2>8, <2>9, <2>10,
       <2>11, <2>12, <2>13, <2>14, <2>15, <2>16, <2>17, <2>18, <2>19, <2>20
    DEF Step
<1>3. CASE Lapse \/ CacheExpire \/ UNCHANGED vars
  BY <1>3 DEF Lapse, CacheExpire, vars, Endings, Ending, AtQuestion, AtAnswer
<1> QED BY <1>1, <1>2, <1>3, StepCases DEF Endings

-----------------------------------------------------------------------------
(***************************************************************************)
(* Where there are GETs, every message has an id: the rows start so, and   *)
(* what is appended has one. So a GET never writes back.                   *)
(***************************************************************************)
LEMMA InitIdentified ==
  ASSUME NoWriteBack
  PROVE  Init => AllIdentified /\ GetsOnlyRead
<1> SUFFICES ASSUME Init PROVE AllIdentified /\ GetsOnlyRead
  OBVIOUS
<1>1. "get" \in Kinds /\ row # NoRow => Identified(row.messages)
  BY DEF Init, NoWriteBack, LacksId, Identified
<1>2. \A r \in Requests : Identified(gen[r].held)
  BY DEF Init, NoGen, Identified
<1> QED BY <1>1, <1>2 DEF Init, AllIdentified, GetsOnlyRead

\* Questions and answers have ids; an append, a cut, and WithIds keep them.
LEMMA IdentifiedLists ==
  ASSUME NEW list \in Seq(Messages), Identified(list), NEW r \in Requests
  PROVE  /\ Identified(Append(list, Question(r)))
         /\ Identified(Append(list, Answer(r)))
         /\ Identified(WithIds(list))
         /\ \A i \in DOMAIN list :
              Identified(Append(SubSeq(list, 1, i - 1), Question(r)))
<1>1. ASSUME NEW l \in Seq(Messages), Identified(l),
             NEW m \in Messages, m.hasId
      PROVE  Identified(Append(l, m))
  <2>1. /\ DOMAIN Append(l, m) = 1..(Len(l) + 1) /\ DOMAIN l = 1..Len(l)
        /\ Append(l, m)[Len(l) + 1] = m
        /\ \A i \in 1..Len(l) : Append(l, m)[i] = l[i]
    BY AppendProperties
  <2>2. \A i \in 1..(Len(l) + 1) : i = Len(l) + 1 \/ i \in 1..Len(l)
    OBVIOUS
  <2> QED BY <1>1, <2>1, <2>2 DEF Identified
<1>2. Question(r).hasId /\ Answer(r).hasId
  BY DEF Question, Answer
<1>3. ASSUME NEW i \in DOMAIN list
      PROVE  /\ SubSeq(list, 1, i - 1) \in Seq(Messages)
             /\ Identified(SubSeq(list, 1, i - 1))
  <2>1. i \in 1..Len(list) /\ DOMAIN list = 1..Len(list)
    OBVIOUS
  <2>2. /\ DOMAIN SubSeq(list, 1, i - 1) = 1..(i - 1)
        /\ \A j \in 1..(i - 1) : SubSeq(list, 1, i - 1)[j] = list[j]
    BY <2>1
  <2> QED BY <2>1, <2>2 DEF Identified
<1>4. Identified(WithIds(list))
  <2>1. \A i \in DOMAIN list : list[i] \in Messages
    OBVIOUS
  <2>2. \A m \in Messages : [m EXCEPT !.hasId = TRUE].hasId
    BY DEF Messages
  <2> QED BY <2>1, <2>2 DEF WithIds, Identified
<1> QED BY <1>1, <1>2, <1>3, <1>4, MessageTypes

\* What a request holds after its step has ids, if all lists had.
LEMMA StepAllIdentified == IInv /\ AllIdentified /\ [Next]_vars => AllIdentified'
<1> SUFFICES ASSUME IInv, AllIdentified, [Next]_vars, "get" \in Kinds
             PROVE  /\ row' # NoRow => Identified(row'.messages)
                    /\ \A r \in Requests : Identified(gen'[r].held)
  BY DEF AllIdentified
<1>0. TypeOK
  BY DEF IInv
<1>1. row' # NoRow => Identified(row'.messages)
  BY RowMessages DEF AllIdentified
<1>2. ASSUME NEW r \in Requests, Arrive(r) \/ Step(r) \/ Fault(r)
      PROVE  \A q \in Requests : Identified(gen'[q].held)
  <2>1. Identified(<<>>)
    BY DEF Identified
  <2>2. Identified(gen[r].held) /\ Identified(History)
    BY <2>1 DEF AllIdentified, History
  <2>3. Identified(gen'[r].held)
    BY <1>2, <2>1, <2>2, HeldStep, Lists, IdentifiedLists
  <2> QED BY <1>0, <1>2, <2>3, OthersStay DEF AllIdentified
<1>3. Lapse \/ CacheExpire \/ UNCHANGED vars =>
        \A q \in Requests : Identified(gen'[q].held)
  BY DEF Lapse, CacheExpire, vars, AllIdentified
<1> QED BY <1>1, <1>2, <1>3, StepCases

\* Then a request without the lock reads, or deletes.
LEMMA StepGetsOnlyRead ==
  IInv /\ AllIdentified /\ GetsOnlyRead /\ [Next]_vars => GetsOnlyRead'
<1> SUFFICES ASSUME IInv, AllIdentified, GetsOnlyRead, [Next]_vars
             PROVE  GetsOnlyRead'
  OBVIOUS
<1>0. /\ TypeOK /\ Routes /\ kind' = kind /\ kind \in [Requests -> Kinds]
      /\ pc \in [Requests -> Pcs]
  BY TypeParts, KindStays DEF IInv, ControlOK
<1> DEFINE Good(q) == kind[q] \notin LockKinds =>
                        /\ pc'[q] \notin {"adopt", "cache", "save"}
                        /\ pc'[q] \in {"load", "ready"} => kind[q] = "get"
<1>1. ASSUME NEW r \in Requests, Arrive(r) \/ Step(r) \/ Fault(r)
      PROVE  Good(r)
  <2> SUFFICES ASSUME kind[r] \notin LockKinds PROVE Good(r)
    OBVIOUS
  <2>0. /\ pc[r] \in {"idle", "load", "ready", "drop", "ended", "dead"}
        /\ pc[r] \in {"load", "ready"} => kind[r] = "get"
    BY <1>0 DEF Routes, Route, Unlocked, GetsOnlyRead
  <2>1. CASE Arrive(r)
    BY <1>0, <2>1 DEF Arrive, Begin, Refuse, Get, Evict, Go
  <2>2. CASE Step(r)
    <3>1. CASE Load(r)
      <4>1. "get" \in Kinds
        BY <1>0, <2>0, <3>1 DEF Load, Go
      <4>2. ~LacksId(History)
        BY <4>1 DEF AllIdentified, Identified, History, LacksId
      <4> QED BY <1>0, <2>0, <3>1, <4>2 DEF Load, Go
    <3>2. CASE LoadNothing(r) \/ Viewed(r) \/ DropCache(r)
      BY <1>0, <2>0, <3>2 DEF LoadNothing, Viewed, DropCache, Go
    <3>3. CASE ~(Load(r) \/ LoadNothing(r) \/ Viewed(r) \/ DropCache(r))
      BY <2>0, <2>2, <3>3 DEF Step, Go, StartTurn, StartEdited, StartResumed,
        ResumeUnknown, Adopt, WriteCache, Save, Ask, Truncate, NothingToEdit,
        ClearLlm, LlmRead, LlmWrite, Context, AgentDone, AgentPauses,
        AgentCancels, AgentFails, AgentDrops, Reload, Memory, Usage, Source,
        CompactDone, CompactSkipped, CompactFails, Install, Finish
    <3> QED BY <3>1, <3>2, <3>3
  <2>3. CASE Fault(r)
    BY <1>0, <2>3 DEF Fault, Raise, RaiseInBody, RaiseInHandler,
      RaiseInRelease, RaiseOutsideRun, Crash, ClientGone, Go
  <2> QED BY <1>1, <2>1, <2>2, <2>3
<1>2. ASSUME NEW r \in Requests, Arrive(r) \/ Step(r) \/ Fault(r)
      PROVE  \A q \in Requests : Good(q)
  <2>1. ASSUME NEW q \in Requests, q # r PROVE Good(q)
    BY <1>0, <1>2, <2>1, OthersStay DEF GetsOnlyRead
  <2> QED BY <1>1, <1>2, <2>1
<1>3. Lapse \/ CacheExpire \/ UNCHANGED vars => \A q \in Requests : Good(q)
  BY DEF Lapse, CacheExpire, vars, GetsOnlyRead
<1> QED BY <1>0, <1>2, <1>3, StepCases DEF GetsOnlyRead

-----------------------------------------------------------------------------
(***************************************************************************)
(* The list a run holds and the list of the row stay in step.              *)
(***************************************************************************)
LEMMA SaverIsAlone ==
  ASSUME IInv, SoleWorker, GetsOnlyRead, NEW r \in Requests,
         pc[r] \in {"cache", "save"}
  PROVE  /\ kind[r] \in LockKinds
         /\ \A q \in Requests :
              q # r /\ kind[q] \in LockKinds => pc[q] \notin Running
<1>1. kind[r] \in LockKinds
  BY DEF GetsOnlyRead
<1>2. Works(r)
  BY <1>1 DEF Works, Running, StoreCalls
<1> QED BY <1>1, <1>2 DEF SoleWorker, Works

\* Where a run has to be in step, it is at work.
LEMMA HoldersRun ==
  ASSUME NEW r \in Requests,
         HoldsRead(r) \/ HoldsNew(r) \/ HoldsCut(r) \/ HoldsStored(r)
  PROVE  pc[r] \in Running
  BY DEF HoldsRead, HoldsNew, HoldsCut, HoldsStored, Running, StoreCalls

\* Nobody holds anything before the first request.
LEMMA InitInSync == Init => InSync
  BY DEF Init, InSync, Synced, HoldsRead, HoldsNew, HoldsCut, HoldsStored

\* The step of one run leaves the others in step with the row.
LEMMA OthersInSync ==
  ASSUME IInv, SoleWorker, GetsOnlyRead, InSync,
         NEW r \in Requests, Arrive(r) \/ Step(r) \/ Fault(r),
         NEW q \in Requests, q # r, kind[q] \in LockKinds
  PROVE  Synced(q)'
<1>0. TypeOK
  BY DEF IInv
<1>1. kind' = kind /\ pc'[q] = pc[q] /\ gen'[q] = gen[q] /\ agent'[q] = agent[q]
  BY <1>0, OthersStay
<1>2. Synced(q)
  BY DEF InSync
<1>3. /\ HoldsRead(q)' = HoldsRead(q) /\ HoldsNew(q)' = HoldsNew(q)
      /\ HoldsCut(q)' = HoldsCut(q) /\ HoldsStored(q)' = HoldsStored(q)
  BY <1>1 DEF HoldsRead, HoldsNew, HoldsCut, HoldsStored
<1>4. CASE row' = row \/ (row # NoRow /\ row' # NoRow
                            /\ row'.messages = row.messages)
  BY <1>1, <1>2, <1>3, <1>4 DEF Synced
<1>5. CASE row' = NoRow /\ "evict" \in Kinds
  BY <1>5 DEF Synced
<1>6. CASE Save(r)
  <2>1. pc[q] \notin Running
    BY <1>6, SaverIsAlone DEF Save, Go
  <2>2. ~(HoldsRead(q) \/ HoldsNew(q) \/ HoldsCut(q) \/ HoldsStored(q))
    BY <2>1, HoldersRun
  <2> QED BY <1>3, <2>2 DEF Synced
<1> QED BY <1>4, <1>5, <1>6, RowStep

\* A step that stores nothing new and goes on from there stays in step.
LEMMA StoredStays ==
  ASSUME IInv, NEW r \in Requests, Synced(r), HoldsStored(r),
         gen'[r].held = gen[r].held,
         \/ row' = row
         \/ row # NoRow /\ row' # NoRow /\ row'.messages = row.messages,
         ~HoldsRead(r)', ~HoldsNew(r)', ~HoldsCut(r)'
  PROVE  Synced(r)'
  BY DEF Synced

\* A run that holds nothing of the row is in step with it.
LEMMA FreeInSync ==
  ASSUME NEW r \in Requests,
         ~(HoldsRead(r) \/ HoldsNew(r) \/ HoldsCut(r) \/ HoldsStored(r))'
  PROVE  Synced(r)'
  BY DEF Synced

\* A list saved is the list stored.
LEMMA SaveInSync ==
  ASSUME IInv, NEW r \in Requests, Save(r), kind[r] \in LockKinds
  PROVE  Synced(r)'
<1>0. TypeOK /\ pc \in [Requests -> Pcs] /\ Writing(r) /\ gen[r].phase \in Phases
  BY TypeParts, GenUpdates DEF IInv, ControlOK, Routes, Route
<1>1. row' # NoRow /\ row'.messages = gen[r].held /\ gen'[r] = gen[r]
  <2>1. row' # NoRow /\ row'.messages = gen[r].held
    <3>1. Upsert(gen[r].held) \in Rows
      BY <1>0, TypeParts, RowWrites, GenUpdates
    <3>2. row # NoRow =>
            [row EXCEPT !.messages = gen[r].held].messages = gen[r].held
      BY Lists DEF Rows
    <3> QED BY <3>1, <3>2, AbsentIsNoValue DEF Save, Upsert
  <2> QED BY <2>1 DEF Save
<1>2. pc'[r] \in {"ready", "clear", "source", "memory", "llmRead"}
  BY <1>0 DEF Save, Go, AfterSave
<1>3. ~HoldsNew(r)' /\ ~HoldsCut(r)'
  BY <1>2 DEF HoldsNew, HoldsCut
<1>4. Agree(gen[r].held, gen[r].held, Len(gen[r].held))
  BY Lists, AgreeSelf
<1> QED BY <1>1, <1>3, <1>4 DEF Synced

\* The step of a run keeps its own list in step.
LEMMA OwnInSync ==
  ASSUME IInv, Endings, GetsOnlyRead, InSync, NEW r \in Requests,
         Arrive(r) \/ Step(r) \/ Fault(r), kind[r] \in LockKinds
  PROVE  Synced(r)'
<1>0. /\ TypeOK /\ Route(r) /\ Synced(r)
      /\ kind' = kind /\ pc \in [Requests -> Pcs] /\ agent \in [Requests -> Ends]
      /\ gen \in [Requests -> Gens]
  <2>1. [Next]_vars
    BY DEF Next
  <2> QED BY <2>1, TypeParts, KindStays
          DEF IInv, ControlOK, GenOK, Routes, InSync
<1>a. ASSUME pc'[r] \in {"idle", "load", "finish", "ended", "refused", "lost",
                         "dead", "drop"}
      PROVE  Synced(r)'
  BY <1>a, FreeInSync DEF HoldsRead, HoldsNew, HoldsCut, HoldsStored
<1>b. /\ gen[r].held \in Seq(Messages) /\ History \in Seq(Messages)
      /\ Question(r) \in Messages /\ Answer(r) \in Messages
      /\ row # NoRow => row \in Rows /\ row.messages \in Seq(Messages)
  BY Lists
<1>c. /\ Len(gen[r].held) \in Nat
      /\ row # NoRow => Len(row.messages) \in Nat
  BY <1>b
<1>1. CASE Arrive(r)
  <2>1. pc'[r] \in {"load", "body", "refused", "ended", "drop"}
        /\ (pc'[r] = "body" => kind[r] # "edit")
    BY <1>0, <1>1 DEF Arrive, Begin, Refuse, Get, Evict, Go
  <2> QED BY <1>0, <2>1, FreeInSync
          DEF HoldsRead, HoldsNew, HoldsCut, HoldsStored
<1>2. CASE Fault(r)
  <2>1. pc'[r] \in {"finish", "lost", "dead", "ended"}
    BY <1>0, <1>2 DEF Fault, Raise, RaiseInBody, RaiseInHandler,
      RaiseInRelease, RaiseOutsideRun, Crash, ClientGone, Go
  <2> QED BY <1>a, <2>1
<1>3. CASE \/ StartTurn(r) \/ ResumeUnknown(r) \/ LoadNothing(r)
           \/ NothingToEdit(r) \/ Viewed(r) \/ AgentFails(r) \/ AgentDrops(r)
           \/ Usage(r) \/ CompactFails(r) \/ Finish(r) \/ DropCache(r)
  <2>1. pc'[r] \in {"load", "finish", "ended"}
    BY <1>0, <1>3 DEF StartTurn, ResumeUnknown, LoadNothing, NothingToEdit,
      Viewed, AgentFails, AgentDrops, Usage, CompactFails, Finish, DropCache, Go
  <2> QED BY <1>a, <2>1
<1>4. CASE StartResumed(r) \/ AgentPauses(r) \/ AgentCancels(r)
  <2>1. \/ pc'[r] = "agent" /\ kind[r] = "resume"
        \/ pc'[r] = "usage" /\ agent'[r] # "done"
    BY <1>0, <1>4 DEF StartResumed, AgentPauses, AgentCancels, Go
  <2> QED BY <1>0, <2>1, FreeInSync
          DEF HoldsRead, HoldsNew, HoldsCut, HoldsStored
<1>5. CASE Load(r)
  <2>1. gen'[r].held = WithIds(History) /\ row' = row
    BY <1>0, <1>5, KeepMeans DEF Load, stores
  <2>2. pc'[r] \in {"adopt", "ready"}
    BY <1>0, <1>5 DEF Load, Go
  <2>3. ~HoldsNew(r)' /\ ~HoldsCut(r)' /\ ~HoldsStored(r)'
    BY <2>2 DEF HoldsNew, HoldsCut, HoldsStored
  <2>4. row # NoRow => /\ Len(WithIds(History)) = Len(row.messages)
                       /\ Agree(WithIds(History), row.messages,
                                Len(row.messages))
    BY <1>b, AgreeIds DEF History
  <2> QED BY <2>1, <2>3, <2>4 DEF Synced
<1>6. CASE Adopt(r)
  <2>1. /\ gen'[r].held = gen[r].held /\ row' = row
        /\ (row # NoRow => gen'[r].phase = "migrate")
    BY <1>0, <1>6, KeepMeans DEF Adopt, stores
  <2>2. pc'[r] \in {"cache", "ready"} /\ HoldsRead(r)
    BY <1>0, <1>6 DEF Adopt, Go, HoldsRead
  <2>3. ~HoldsStored(r)' /\ (row # NoRow => ~HoldsNew(r)' /\ ~HoldsCut(r)')
    BY <2>1, <2>2 DEF HoldsNew, HoldsCut, HoldsStored
  <2> QED BY <1>0, <2>1, <2>2, <2>3 DEF Synced
<1>7. CASE WriteCache(r)
  <2>1. gen' = gen /\ row' = row /\ pc[r] = "cache" /\ pc'[r] = "save"
    BY <1>0, <1>7 DEF WriteCache, Go
  <2>2. /\ HoldsRead(r)' => HoldsRead(r)
        /\ HoldsNew(r)' => HoldsNew(r)
        /\ HoldsCut(r)' => HoldsCut(r)
        /\ ~HoldsStored(r)'
    BY <2>1 DEF HoldsRead, HoldsNew, HoldsCut, HoldsStored
  <2> QED BY <1>0, <2>1, <2>2 DEF Synced
<1>8. CASE Save(r)
  BY <1>8, SaveInSync
<1>9. CASE Ask(r)
  <2>1. /\ gen'[r].held = Append(gen[r].held, Question(r)) /\ row' = row
        /\ gen'[r].phase = "question" /\ pc[r] = "ready" /\ pc'[r] = "cache"
    BY <1>0, <1>9, KeepMeans DEF Ask, stores, Go
  <2>2. HoldsRead(r) /\ ~HoldsRead(r)' /\ ~HoldsCut(r)' /\ ~HoldsStored(r)'
    BY <2>1 DEF HoldsRead, HoldsCut, HoldsStored
  <2>3. row # NoRow =>
          /\ Len(Append(gen[r].held, Question(r))) = Len(row.messages) + 1
          /\ Agree(Append(gen[r].held, Question(r)), row.messages,
                   Len(row.messages))
    BY <1>0, <1>b, <1>c, <2>2, AgreeAppend DEF Synced
  <2> QED BY <2>1, <2>2, <2>3 DEF Synced
<1>10. CASE Truncate(r)
  <2>1. PICK i \in DOMAIN gen[r].held :
          Keep(r, "truncate",
               Append(SubSeq(gen[r].held, 1, i - 1), Question(r)))
    BY <1>10 DEF Truncate
  <2> DEFINE cut == SubSeq(gen[r].held, 1, i - 1)
  <2>2. /\ gen'[r].held = Append(cut, Question(r)) /\ row' = row
        /\ gen'[r].phase = "truncate" /\ pc[r] = "ready" /\ pc'[r] = "cache"
    BY <1>0, <1>10, <2>1, KeepMeans DEF Truncate, stores, Go
  <2>3. HoldsRead(r) /\ ~HoldsRead(r)' /\ ~HoldsNew(r)' /\ ~HoldsStored(r)'
    BY <2>2 DEF HoldsRead, HoldsNew, HoldsStored
  <2>4. row # NoRow =>
          /\ cut \in Seq(Messages) /\ Len(cut) = i - 1 /\ i - 1 \in Nat
          /\ Agree(cut, row.messages, i - 1)
    BY <1>0, <1>b, <2>3, AgreeCut DEF Synced
  <2> HIDE DEF cut
  <2>5. row # NoRow =>
          Agree(Append(cut, Question(r)), row.messages,
                Len(Append(cut, Question(r))) - 1)
    BY <1>b, <2>4, AgreeAppend
  <2> QED BY <2>2, <2>3, <2>5 DEF Synced
<1>11. CASE ClearLlm(r) \/ LlmRead(r) \/ LlmWrite(r) \/ Context(r)
            \/ StartEdited(r) \/ Source(r) \/ CompactDone(r) \/ Memory(r)
            \/ AgentDone(r)
  <2>1. CASE kind[r] = "resume" /\ AgentDone(r)
    <3>1. pc'[r] = "reload"
      BY <1>0, <2>1 DEF AgentDone, Go
    <3> QED BY <1>0, <2>1, <3>1, FreeInSync
            DEF HoldsRead, HoldsNew, HoldsCut, HoldsStored
  <2>2. CASE ~(kind[r] = "resume" /\ AgentDone(r))
    <3>1. gen'[r].held = gen[r].held
      BY <1>0, <1>11, FieldMeans DEF ClearLlm, LlmRead, LlmWrite, Context,
        StartEdited, Source, CompactDone, Memory, AgentDone
    <3>2. HoldsStored(r)
      BY <1>11, <2>2 DEF HoldsStored, ClearLlm, LlmRead, LlmWrite, Context,
        StartEdited, Source, CompactDone, Memory, AgentDone, Go
    <3>3. pc'[r] \in {"body", "llmWrite", "context", "agent", "memory",
                      "compacting", "install", "usage", "reload"}
      BY <1>0, <1>11 DEF ClearLlm, LlmRead, LlmWrite, Context, AfterAppend,
        StartEdited, Source, CompactDone, Memory, AgentDone, Go
    <3>4. ~HoldsRead(r)' /\ ~HoldsNew(r)' /\ ~HoldsCut(r)'
      BY <3>3 DEF HoldsRead, HoldsNew, HoldsCut
    <3>5. row' = row \/ (row # NoRow /\ row' # NoRow
                           /\ row'.messages = row.messages)
      <4>1. pc[r] \notin {"idle", "save"}
        BY <1>11 DEF ClearLlm, LlmRead, LlmWrite, Context, StartEdited, Source,
          CompactDone, Memory, AgentDone, Go
      <4> QED BY <4>1, RowKept
    <3> QED BY <1>0, <3>1, <3>2, <3>4, <3>5, StoredStays
  <2> QED BY <2>1, <2>2
<1>12. CASE Reload(r)
  <2>1. /\ gen'[r].held = Append(History, Answer(r)) /\ row' = row
        /\ gen'[r].phase = "reply" /\ pc'[r] = "cache"
    BY <1>0, <1>12, KeepMeans DEF Reload, stores, Go
  <2>2. ~HoldsRead(r)' /\ ~HoldsCut(r)' /\ ~HoldsStored(r)'
    BY <2>1 DEF HoldsRead, HoldsCut, HoldsStored
  <2>3. row # NoRow =>
          /\ Len(Append(row.messages, Answer(r))) = Len(row.messages) + 1
          /\ Agree(Append(row.messages, Answer(r)), row.messages,
                   Len(row.messages))
    BY <1>b, <1>c, AgreeSelf, AgreeAppend
  <2> QED BY <2>1, <2>2, <2>3 DEF Synced, History
<1>13. CASE CompactSkipped(r) \/ Install(r)
  <2>1. /\ gen'[r].held = Append(gen[r].held, Answer(r))
        /\ gen'[r].phase = "reply" /\ pc'[r] = "cache"
    <3>1. Keep(r, "reply", Append(gen[r].held, Answer(r)))
      BY <1>13 DEF CompactSkipped, Install, Notice
    <3>2. pc'[r] = "cache"
      BY <1>0, <1>13 DEF CompactSkipped, Install, Go
    <3> QED BY <1>0, <3>1, <3>2, KeepMeans
  <2>2. HoldsStored(r) /\ ~HoldsRead(r)' /\ ~HoldsCut(r)' /\ ~HoldsStored(r)'
    BY <1>13, <2>1 DEF HoldsRead, HoldsCut, HoldsStored, CompactSkipped,
      Install, Go
  <2>3. row' = row \/ (row # NoRow /\ row' # NoRow
                         /\ row'.messages = row.messages)
    <3>1. pc[r] \notin {"idle", "save"}
      BY <1>13 DEF CompactSkipped, Install, Go
    <3> QED BY <3>1, RowKept
  <2>4. row # NoRow =>
          /\ Len(Append(row.messages, Answer(r))) = Len(row.messages) + 1
          /\ Agree(Append(row.messages, Answer(r)), row.messages,
                   Len(row.messages))
    BY <1>b, <1>c, AgreeSelf, AgreeAppend
  <2> QED BY <1>0, <2>1, <2>2, <2>3, <2>4 DEF Synced
<1> QED BY <1>1, <1>2, <1>3, <1>4, <1>5, <1>6, <1>7, <1>8, <1>9, <1>10, <1>11,
           <1>12, <1>13
        DEF Step

\* So every step keeps all runs in step with the row.
LEMMA StepInSync ==
  IInv /\ SoleWorker /\ Endings /\ GetsOnlyRead /\ InSync /\ [Next]_vars
    => InSync'
<1> SUFFICES ASSUME IInv, SoleWorker, Endings, GetsOnlyRead, InSync, [Next]_vars
             PROVE  InSync'
  OBVIOUS
<1>1. kind' = kind
  BY KindStays
<1>2. ASSUME NEW r \in Requests, Arrive(r) \/ Step(r) \/ Fault(r)
      PROVE  InSync'
  <2>1. ASSUME NEW q \in Requests, kind[q] \in LockKinds PROVE Synced(q)'
    BY <1>2, <2>1, OwnInSync, OthersInSync
  <2> QED BY <1>1, <2>1 DEF InSync
<1>3. CASE Lapse \/ CacheExpire \/ UNCHANGED vars
  BY <1>3 DEF Lapse, CacheExpire, vars, InSync, Synced, HoldsRead, HoldsNew,
    HoldsCut, HoldsStored
<1> QED BY <1>2, <1>3, StepCases

-----------------------------------------------------------------------------
(***************************************************************************)
(* Together: the invariant from which the history's properties follow.     *)
(***************************************************************************)
SyncInv ==
  /\ IInv
  /\ SoleWorker
  /\ Endings
  /\ AllIdentified
  /\ GetsOnlyRead
  /\ InSync

\* The invariant holds before the first request.
LEMMA InitSyncInv == ASSUME NoWriteBack PROVE Init => SyncInv
  BY InitIInv, InitSoleWorker, InitEndings, InitIdentified, InitInSync
  DEF SyncInv

\* Every step preserves it.
LEMMA StepSyncInv ==
  ASSUME NoOverrun
  PROVE  SyncInv /\ [Next]_vars => SyncInv'
  BY StepIInv, StepSoleWorker, StepEndings, StepAllIdentified,
     StepGetsOnlyRead, StepInSync
  DEF SyncInv

(***************************************************************************)
(* What a step does to the messages of a row that stays: nothing, or a     *)
(* save that extends them by one, or an edit's save that cuts them.        *)
(***************************************************************************)
LEMMA RowGrows ==
  ASSUME SyncInv, [Next]_vars, RowStays
  PROVE  /\ row.messages \in Seq(Messages) /\ row'.messages \in Seq(Messages)
         /\ \/ Agree(row'.messages, row.messages, Len(row.messages))
            \/ \E r \in Requests :
                 /\ Truncates(r)
                 /\ row'.messages # <<>>
                 /\ Agree(row'.messages, row.messages, Len(row'.messages) - 1)
<1>0. /\ IInv /\ row # NoRow /\ row' # NoRow /\ pc \in [Requests -> Pcs]
      /\ row.messages \in Seq(Messages)
  BY TypeParts, Lists DEF SyncInv, RowStays, IInv, ControlOK
<1>1. CASE row' = row
  BY <1>0, <1>1, AgreeSelf
<1>2. ASSUME NEW r \in Requests, Arrive(r) \/ Step(r) \/ Fault(r)
      PROVE  /\ row'.messages \in Seq(Messages)
             /\ \/ Agree(row'.messages, row.messages, Len(row.messages))
                \/ /\ Truncates(r)
                   /\ row'.messages # <<>>
                   /\ Agree(row'.messages, row.messages, Len(row'.messages) - 1)
  <2>1. CASE row' = row \/ row'.messages = row.messages
    BY <1>0, <2>1, AgreeSelf
  <2>2. CASE Save(r) /\ row'.messages = gen[r].held
    <3>1. pc[r] = "save" /\ pc'[r] = AfterSave(r)
      BY <1>0, <2>2 DEF Save, Go
    <3>2. kind[r] \in LockKinds /\ Synced(r) /\ Writing(r)
      BY <3>1, SaverIsAlone DEF SyncInv, InSync, IInv, Routes, Route
    <3>3. gen[r].phase \in Phases /\ gen[r].held \in Seq(Messages)
      BY <1>0, TypeParts, GenUpdates DEF IInv
    <3>4. CASE gen[r].phase = "truncate"
      <4>1. Truncates(r)
        BY <3>1, <3>4 DEF Truncates, AfterSave
      <4>2. gen[r].held # <<>>
        BY <3>1, <3>2, <3>4 DEF Writing
      <4>3. Agree(gen[r].held, row.messages, Len(gen[r].held) - 1)
        BY <1>0, <3>1, <3>2, <3>4 DEF Synced, HoldsCut
      <4> QED BY <2>2, <3>3, <4>1, <4>2, <4>3
    <3>5. CASE gen[r].phase # "truncate"
      <4>1. HoldsRead(r) \/ HoldsNew(r)
        BY <3>1, <3>2, <3>3, <3>5 DEF HoldsRead, HoldsNew, Writing, Phases
      <4>2. Agree(gen[r].held, row.messages, Len(row.messages))
        BY <1>0, <3>2, <4>1 DEF Synced
      <4> QED BY <2>2, <3>3, <4>2
    <3> QED BY <3>4, <3>5
  <2> QED BY <1>0, <1>2, <2>1, <2>2, RowStep
<1>3. Lapse \/ CacheExpire \/ UNCHANGED vars => row' = row
  BY DEF Lapse, CacheExpire, vars
<1> QED BY <1>0, <1>1, <1>2, <1>3, StepCases

(***************************************************************************)
(* HistoryOnlyGrows: whatever posts, compactions, edits, resumes, GETs,    *)
(* deletions, crashes and exceptions do, no save is based on a stale read, *)
(* as long as no run outlives its lock and no GET writes ids back.         *)
(***************************************************************************)
THEOREM HistoryGrows ==
  ASSUME NoOverrun, NoWriteBack
  PROVE  Spec => HistoryOnlyGrows
<1>1. Init => SyncInv
  BY InitSyncInv
<1>2. SyncInv /\ [Next]_vars => SyncInv'
  BY StepSyncInv
<1> DEFINE Grows == RowStays =>
                      LET old == Gisted(row.messages)
                          new == Gisted(row'.messages)
                      IN  \/ IsPrefix(old, new)
                          \/ \E r \in Requests :
                               Truncates(r) /\ IsPrefix(Front(new), old)
<1>3. SyncInv /\ [Next]_vars => [Grows]_vars
  <2> SUFFICES ASSUME SyncInv, [Next]_vars, RowStays PROVE Grows
    OBVIOUS
  <2> QED BY RowGrows, AgreePrefix
<1> QED BY <1>1, <1>2, <1>3, PTL DEF Spec, HistoryOnlyGrows

(***************************************************************************)
(* UserMessageStays under the same hypotheses. Without NoWriteBack it is   *)
(* false: a GET that writes a list back can drop a message stored since.   *)
(***************************************************************************)
THEOREM UserMessagesStay ==
  ASSUME NoOverrun, NoWriteBack
  PROVE  Spec => UserMessageStays
<1>1. Init => SyncInv
  BY InitSyncInv
<1>2. SyncInv /\ [Next]_vars => SyncInv'
  BY StepSyncInv
<1> DEFINE Stays == RowStays /\ (\A r \in Requests : ~Truncates(r)) =>
                      \A i \in DOMAIN row.messages :
                        row.messages[i].role = "user" =>
                          Gist(row.messages[i]) \in Range(Gisted(row'.messages))
<1>3. SyncInv /\ [Next]_vars => [Stays]_vars
  <2> SUFFICES ASSUME SyncInv, [Next]_vars, RowStays,
                      \A r \in Requests : ~Truncates(r),
                      NEW i \in DOMAIN row.messages
               PROVE  Gist(row.messages[i]) \in Range(Gisted(row'.messages))
    OBVIOUS
  <2>1. /\ row.messages \in Seq(Messages) /\ row'.messages \in Seq(Messages)
        /\ Agree(row'.messages, row.messages, Len(row.messages))
    BY RowGrows
  <2>2. i \in 1..Len(row.messages) /\ i \in 1..Len(row'.messages)
    BY <2>1 DEF Agree
  <2>3. Gisted(row'.messages)[i] = Gist(row.messages[i])
    BY <2>1, <2>2, GistedIsList DEF Agree
  <2>4. i \in DOMAIN Gisted(row'.messages)
    BY <2>1, <2>2 DEF Gisted
  <2> QED BY <2>3, <2>4 DEF Range
<1> QED BY <1>1, <1>2, <1>3, PTL DEF Spec, UserMessageStays

(***************************************************************************)
(* DoneMeansSaved: a client that is told "done" finds its answer and its   *)
(* tokens stored, unless the session was deleted.                          *)
(***************************************************************************)
THEOREM DoneIsSaved ==
  ASSUME NoOverrun, NoWriteBack
  PROVE  Spec => DoneMeansSaved
<1>1. Init => SyncInv
  BY InitSyncInv
<1>2. SyncInv /\ [Next]_vars => SyncInv'
  BY StepSyncInv
<1> DEFINE Saved == \A r \in Requests :
                      told'[r] = "done" /\ told[r] # "done" /\ row' # NoRow =>
                        /\ Answer(r) \in Range(row'.messages)
                        /\ r \in row'.usage
<1>3. SyncInv /\ [Next]_vars => [Saved]_vars
  <2> SUFFICES ASSUME SyncInv, [Next]_vars, NEW q \in Requests,
                      told'[q] = "done", told[q] # "done", row' # NoRow
               PROVE  /\ Answer(q) \in Range(row'.messages)
                      /\ q \in row'.usage
    OBVIOUS
  <2>0. /\ TypeOK /\ told \in [Requests -> Tolds] /\ Route(q)
        /\ agent[q] = "done" /\ pc[q] = "usage" => HoldsStored(q) /\ AtAnswer(q)
    BY TypeParts DEF SyncInv, IInv, ControlOK, Routes, HoldsStored, AtAnswer
  <2>1. ASSUME NEW r \in Requests, Arrive(r) \/ Step(r) \/ Fault(r)
        PROVE  Usage(q) /\ agent[q] = "done"
    <3>1. CASE Arrive(r)
      BY <2>0, <3>1 DEF Arrive, Begin, Refuse, Get, Evict, Tell
    <3>2. CASE Step(r)
      BY <2>0, <3>2 DEF Step, Tell, StartTurn, StartEdited,
        StartResumed, ResumeUnknown, Load, LoadNothing, Adopt, WriteCache,
        Save, Ask, Truncate, NothingToEdit, Viewed, ClearLlm, LlmRead,
        LlmWrite, Context, AgentDone, AgentPauses, AgentCancels, AgentFails,
        AgentDrops, Reload, Memory, Usage, Source, CompactDone,
        CompactSkipped, CompactFails, Install, Finish, DropCache
    <3>3. CASE Fault(r)
      BY <2>0, <3>3 DEF Fault, Raise, RaiseInBody, RaiseInHandler,
        RaiseInRelease, RaiseOutsideRun, Crash, ClientGone
    <3> QED BY <2>1, <3>1, <3>2, <3>3
  <2>2. Usage(q) /\ agent[q] = "done"
    BY <2>1, StepCases DEF Lapse, CacheExpire, vars
  <2>3. pc[q] = "usage" /\ row # NoRow /\ row' = [row EXCEPT !.usage = @ \cup {q}]
    BY <2>2 DEF Usage, Go
  <2>4. row \in Rows /\ row.messages = gen[q].held
        /\ EndsWith(gen[q].held, Answer(q)) /\ gen[q].held \in Seq(Messages)
    <3>1. kind[q] \in LockKinds
      BY <2>0, <2>3 DEF Route, Unlocked
    <3>2. Synced(q) /\ Ending(q)
      BY <3>1 DEF SyncInv, InSync, Endings
    <3> QED BY <2>0, <2>2, <2>3, <3>1, <3>2, Lists
            DEF SyncInv, Synced, Ending
  <2>5. row'.messages = row.messages /\ q \in row'.usage
    BY <2>3, <2>4 DEF Rows
  <2>6. Len(gen[q].held) \in DOMAIN gen[q].held
    BY <2>4 DEF EndsWith
  <2> QED BY <2>4, <2>5, <2>6 DEF EndsWith, Last, Range
<1> QED BY <1>1, <1>2, <1>3, PTL DEF Spec, DoneMeansSaved

-----------------------------------------------------------------------------
(***************************************************************************)
(* Answers follow their questions, in the row and in every held list.      *)
(***************************************************************************)
LEMMA FollowsLists ==
  ASSUME NEW list \in Seq(Messages), Follows(list), NEW r \in Requests
  PROVE  /\ Follows(Append(list, Question(r)))
         /\ Follows(WithIds(list))
         /\ \A i \in DOMAIN list :
              Follows(Append(SubSeq(list, 1, i - 1), Question(r)))
         /\ \/ kind[r] = "resume"
            \/ list = <<>> /\ "evict" \in Kinds
            \/ EndsWith(list, Question(r))
            => Follows(Append(list, Answer(r)))
<1>0. Question(r) \in Messages /\ Answer(r) \in Messages
  BY MessageTypes
<1>1. ASSUME NEW l \in Seq(Messages), Follows(l), NEW m \in Messages,
             \/ m.role # "assistant" \/ kind[m.by] = "resume"
             \/ IF l = <<>> THEN "evict" \in Kinds
                ELSE Gist(Last(l)) = Gist(Question(m.by))
      PROVE  Follows(Append(l, m))
  <2> DEFINE n == Len(l)
             a == Append(l, m)
  <2>1. /\ DOMAIN a = 1..(n + 1) /\ DOMAIN l = 1..n /\ n \in Nat
        /\ a[n + 1] = m
        /\ \A i \in 1..n : a[i] = l[i]
        /\ (n = 0 <=> l = <<>>)
    BY AppendProperties
  <2>2. Last(l) = l[n]
    BY DEF Last
  <2> HIDE DEF n, a
  <2> SUFFICES ASSUME NEW i \in 1..(n + 1), a[i].role = "assistant",
                      a[i].by # Old, kind[a[i].by] # "resume"
               PROVE  IF i = 1 THEN "evict" \in Kinds
                      ELSE Gist(a[i - 1]) = Gist(Question(a[i].by))
    BY <2>1 DEF Follows, a
  <2>3. CASE i \in 1..n
    <3>1. a[i] = l[i] /\ (i # 1 => a[i - 1] = l[i - 1])
      BY <2>1, <2>3
    <3> QED BY <1>1, <2>1, <2>3, <3>1 DEF Follows
  <2>4. CASE i = n + 1
    <3>1. CASE n = 0
      BY <1>1, <2>1, <2>4, <3>1
    <3>2. CASE n # 0
      <4>1. i # 1 /\ i - 1 = n /\ a[i - 1] = l[n]
        BY <2>1, <2>4, <3>2
      <4> QED BY <1>1, <2>1, <2>2, <2>4, <3>2, <4>1
    <3> QED BY <3>1, <3>2
  <2> QED BY <2>1, <2>3, <2>4
<1>2. ASSUME NEW i \in DOMAIN list
      PROVE  /\ SubSeq(list, 1, i - 1) \in Seq(Messages)
             /\ Follows(SubSeq(list, 1, i - 1))
  <2>1. i \in 1..Len(list) /\ DOMAIN list = 1..Len(list)
    OBVIOUS
  <2>2. /\ SubSeq(list, 1, i - 1) \in Seq(Messages)
        /\ DOMAIN SubSeq(list, 1, i - 1) = 1..(i - 1)
        /\ \A j \in 1..(i - 1) : SubSeq(list, 1, i - 1)[j] = list[j]
    BY <2>1
  <2>3. ASSUME NEW j \in 1..(i - 1)
        PROVE  j \in DOMAIN list /\ (j # 1 => j - 1 \in 1..(i - 1))
    BY <2>1
  <2> QED BY <2>2, <2>3 DEF Follows
<1>3. Follows(WithIds(list))
  <2>1. DOMAIN WithIds(list) = DOMAIN list /\ DOMAIN list = 1..Len(list)
    BY DEF WithIds
  <2>2. \A i \in DOMAIN list : list[i] \in Messages
    OBVIOUS
  <2>3. ASSUME NEW i \in DOMAIN list
        PROVE  /\ WithIds(list)[i].role = list[i].role
               /\ WithIds(list)[i].by = list[i].by
               /\ Gist(WithIds(list)[i]) = Gist(list[i])
    BY <2>2 DEF WithIds, Messages, Gist
  <2>4. \A i \in DOMAIN list : i # 1 => i - 1 \in DOMAIN list
    BY <2>1
  <2> QED BY <2>1, <2>3, <2>4 DEF Follows
<1>4. Question(r).role = "user" /\ Answer(r).by = r
  BY DEF Question, Answer
<1>5. EndsWith(list, Question(r)) => list # <<>> /\ Last(list) = Question(r)
  BY DEF EndsWith
<1> QED BY <1>0, <1>1, <1>2, <1>3, <1>4, <1>5

\* The rows the session may start from have older messages only.
LEMMA InitAnswered == Init => Answered
<1> SUFFICES ASSUME Init PROVE Answered
  OBVIOUS
<1>1. row # NoRow => Follows(row.messages)
  BY RowsAreOld DEF Init, Follows
<1>2. \A r \in Requests : Follows(gen[r].held)
  BY DEF Init, NoGen, Follows
<1> QED BY <1>1, <1>2 DEF Answered

\* What a step makes of the list of its request keeps answers in place.
LEMMA StepAnswered == SyncInv /\ Answered /\ [Next]_vars => Answered'
<1> SUFFICES ASSUME SyncInv, Answered, [Next]_vars PROVE Answered'
  OBVIOUS
<1>0. IInv /\ TypeOK /\ Routes /\ kind' = kind
  BY KindStays DEF SyncInv, IInv
<1>1. row' # NoRow => Follows(row'.messages)
  BY <1>0, RowMessages DEF Answered
<1>2. ASSUME NEW r \in Requests, Arrive(r) \/ Step(r) \/ Fault(r)
      PROVE  \A q \in Requests : Follows(gen'[q].held)
  <2>1. Follows(<<>>)
    BY DEF Follows
  <2>2. /\ Follows(gen[r].held) /\ Follows(History)
        /\ gen[r].held \in Seq(Messages) /\ History \in Seq(Messages)
    BY <1>0, <2>1, Lists DEF Answered, History
  <2>3. CASE Reload(r)
    <3>1. kind[r] \in LockKinds /\ pc[r] = "reload"
      BY <1>0, <2>3 DEF Reload, Go, Routes, Route, Unlocked
    <3>2. Synced(r) /\ Ending(r)
      BY <3>1 DEF SyncInv, InSync, Endings
    <3>3. kind[r] # "resume" => HoldsStored(r) /\ AtQuestion(r)
      BY <3>1 DEF HoldsStored, AtQuestion
    <3>4. \/ kind[r] = "resume"
          \/ History = <<>> /\ "evict" \in Kinds
          \/ EndsWith(History, Question(r))
      BY <3>1, <3>2, <3>3 DEF Synced, Ending, History
    <3>5. Follows(Append(History, Answer(r)))
      BY <2>2, <3>4, FollowsLists
    <3>6. gen'[r].held = Append(History, Answer(r))
      BY <1>0, <2>3 DEF Reload, Keep, TypeOK, Gens
    <3> QED BY <1>0, <1>2, <3>5, <3>6, OthersStay DEF Answered
  <2>4. CASE CompactSkipped(r) \/ Install(r)
    <3>1. kind[r] \in LockKinds /\ AtQuestion(r)
      BY <1>0, <2>4
      DEF CompactSkipped, Install, Go, Routes, Route, Unlocked, AtQuestion
    <3>2. EndsWith(gen[r].held, Question(r))
      BY <3>1 DEF SyncInv, Endings, Ending
    <3>3. Follows(Append(gen[r].held, Answer(r)))
      BY <2>2, <3>2, FollowsLists
    <3>4. gen'[r].held = Append(gen[r].held, Answer(r))
      BY <1>0, <2>4 DEF CompactSkipped, Install, Notice, Keep, TypeOK, Gens
    <3> QED BY <1>0, <1>2, <3>3, <3>4, OthersStay DEF Answered
  <2>5. CASE ~Reload(r) /\ ~CompactSkipped(r) /\ ~Install(r)
    <3>1. Follows(gen'[r].held)
      BY <1>0, <1>2, <2>1, <2>2, <2>5, HeldStep, FollowsLists
    <3> QED BY <1>0, <1>2, <3>1, OthersStay DEF Answered
  <2> QED BY <2>3, <2>4, <2>5
<1>3. Lapse \/ CacheExpire \/ UNCHANGED vars =>
        \A q \in Requests : Follows(gen'[q].held)
  BY DEF Lapse, CacheExpire, vars, Answered
<1> QED BY <1>0, <1>1, <1>2, <1>3, StepCases DEF Answered, Follows

(***************************************************************************)
(* ReplyFollowsQuestion: what other requests do while the Agent works does *)
(* not come between a question and its answer.                             *)
(***************************************************************************)
THEOREM RepliesFollow ==
  ASSUME NoOverrun, NoWriteBack
  PROVE  Spec => []ReplyFollowsQuestion
<1>1. Init => SyncInv /\ Answered
  BY InitSyncInv, InitAnswered
<1>2. (SyncInv /\ Answered) /\ [Next]_vars => (SyncInv /\ Answered)'
  BY StepSyncInv, StepAnswered
<1>3. SyncInv /\ Answered => ReplyFollowsQuestion
  BY DEF Answered, Follows, ReplyFollowsQuestion
<1> QED BY <1>1, <1>2, <1>3, PTL DEF Spec

-----------------------------------------------------------------------------
(***************************************************************************)
(* What one step of a request does to the Agent's history in the row.      *)
(***************************************************************************)
LEMMA LlmStep ==
  ASSUME IInv, NEW r \in Requests, Arrive(r) \/ Step(r) \/ Fault(r),
         row' # NoRow
  PROVE  \/ row # NoRow /\ row'.llm = row.llm
         \/ Save(r) /\ row = NoRow /\ row'.llm = NoLlm
         \/ ClearLlm(r) /\ row # NoRow /\ row'.llm = NoLlm
         \/ LlmWrite(r) /\ row # NoRow
              /\ row'.llm = Append(gen[r].llm, Entry(Last(gen[r].held)))
         \/ Install(r) /\ row # NoRow /\ row'.llm = <<Seen(gen[r].sent)>>
<1>0. row # NoRow => row \in Rows
  BY Lists
<1>1. CASE Save(r)
  <2>1. CASE row = NoRow
    BY <1>1, <2>1 DEF Save, Upsert
  <2>2. CASE row # NoRow
    <3>1. [row EXCEPT !.messages = gen[r].held].llm = row.llm
      BY <1>0, <2>2 DEF Rows
    <3> QED BY <1>1, <2>2, <3>1 DEF Save, Upsert
  <2> QED BY <2>1, <2>2
<1>2. CASE ClearLlm(r) \/ LlmWrite(r) \/ Install(r)
  <2>1. row # NoRow
    BY <1>2 DEF ClearLlm, LlmWrite, Install, SetLlm
  <2>2. \A entries : [row EXCEPT !.llm = entries].llm = entries
    BY <1>0, <2>1 DEF Rows
  <2> QED BY <1>2, <2>1, <2>2 DEF ClearLlm, LlmWrite, Install, SetLlm
<1>3. CASE Memory(r) \/ Usage(r)
  <2>1. row # NoRow
    BY <1>3 DEF Memory, Usage
  <2>2. \A set : /\ [row EXCEPT !.usage = @ \cup set].llm = row.llm
                 /\ [row EXCEPT !.memory = @ \cup set].llm = row.llm
    BY <1>0, <2>1 DEF Rows
  <2> QED BY <1>3, <2>1, <2>2 DEF Memory, Usage
<1>4. ~Evict(r)
  BY DEF Evict
<1>5. row' = row \/ WritesRow(r)
  <2>1. CASE Arrive(r)
    BY <2>1 DEF Arrive, Begin, Refuse, Get, WritesRow, stores
  <2>2. CASE Step(r)
    BY <2>2 DEF Step, WritesRow, stores, StartTurn, StartEdited, StartResumed,
      ResumeUnknown, Load, LoadNothing, Adopt, WriteCache, Ask, Truncate,
      NothingToEdit, Viewed, LlmRead, Context, AgentDone, AgentPauses,
      AgentCancels, AgentFails, AgentDrops, Reload, Source, CompactDone,
      CompactSkipped, CompactFails, Finish, DropCache
  <2>3. CASE Fault(r)
    BY <2>3 DEF Fault, Raise, RaiseInBody, RaiseInHandler, RaiseInRelease,
      RaiseOutsideRun, Crash, ClientGone, stores
  <2> QED BY <2>1, <2>2, <2>3
<1> QED BY <1>1, <1>2, <1>3, <1>4, <1>5 DEF WritesRow

\* Whoever is at work is alone, and so is whoever writes that history.
LEMMA WorkerIsAlone ==
  ASSUME IInv, SoleWorker, NEW r \in Requests, NEW q \in Requests, q # r,
         \/ pc[r] \in {"clear", "llmRead", "llmWrite", "install", "context",
                       "compacting", "agent", "source"}
         \/ pc[r] \in {"cache", "save"} /\ kind[r] \in LockKinds,
         kind[q] \in LockKinds
  PROVE  kind[r] \in LockKinds /\ pc[q] \notin Running
<1>1. kind[r] \in LockKinds
  BY DEF IInv, Routes, Route, Unlocked
<1>2. pc[r] \in Running
  BY DEF Running, StoreCalls
<1> QED BY <1>1, <1>2 DEF SoleWorker, Works

(***************************************************************************)
(* What is sent to the Agent ends with the question.                       *)
(***************************************************************************)
LEMMA ForAgentLast ==
  ASSUME NEW list \in Seq(Messages), NEW m, EndsWith(list, m)
  PROVE  ForAgent(list) # <<>> /\ Last(ForAgent(list)) = Entry(m)
<1>1. DOMAIN list = 1..Len(list) /\ Len(list) \in Nat /\ Len(list) # 0
  BY DEF EndsWith
<1>2. ForAgent(list) \in Seq(Entries) /\ DOMAIN ForAgent(list) = 1..Len(list)
  BY <1>1, ListTypes DEF ForAgent
<1>3. Len(ForAgent(list)) = Len(list)
  BY <1>1, <1>2
<1>4. ForAgent(list)[Len(list)] = Entry(list[Len(list)])
  BY <1>1 DEF ForAgent
<1> QED BY <1>1, <1>2, <1>3, <1>4 DEF EndsWith, Last

\* Nothing is sent before the first request.
LEMMA InitAsking == Init => Asking
  BY DEF Init, Asking, AsksIt

\* The entry appended to the Agent's history is the last.
LEMMA AppendEntry ==
  ASSUME NEW entries \in Seq(Entries), NEW e \in Entries
  PROVE  Append(entries, e) # <<>> /\ Last(Append(entries, e)) = e
  BY AppendProperties DEF Last

\* Others do not change what a run at work reads for the Agent.
LEMMA OthersAsking ==
  ASSUME IInv, SoleWorker, Asking,
         NEW r \in Requests, Arrive(r) \/ Step(r) \/ Fault(r),
         NEW q \in Requests, q # r, kind[q] \in LockKinds
  PROVE  AsksIt(q)'
<1>0. TypeOK /\ AsksIt(q)
  BY DEF IInv, Asking
<1>1. kind' = kind /\ pc'[q] = pc[q] /\ gen'[q] = gen[q]
  BY <1>0, OthersStay
<1>2. ASSUME pc[q] = "context", Llm' # NoLlm
      PROVE  Llm' = Llm
  <2>1. row' # NoRow /\ Llm' = row'.llm
    BY <1>2 DEF Llm
  <2>2. ~ClearLlm(r) /\ ~LlmWrite(r) /\ ~Install(r)
    BY <1>2, WorkerIsAlone
    DEF ClearLlm, LlmWrite, Install, Go, Running, StoreCalls
  <2>3. row # NoRow /\ row'.llm = row.llm
    BY <1>2, <2>1, <2>2, LlmStep
  <2> QED BY <2>1, <2>3 DEF Llm
<1> QED BY <1>0, <1>1, <1>2 DEF AsksIt

\* A run sends a history that ends with its question.
LEMMA OwnAsking ==
  ASSUME IInv, Endings, Asking, NEW r \in Requests,
         Arrive(r) \/ Step(r) \/ Fault(r), kind[r] \in LockKinds
  PROVE  AsksIt(r)'
<1>0. /\ TypeOK /\ Route(r) /\ AsksIt(r) /\ Ending(r)
      /\ kind' = kind /\ pc \in [Requests -> Pcs]
      /\ gen[r].held \in Seq(Messages) /\ gen[r].llm \in Seq(Entries)
  <2>1. [Next]_vars
    BY DEF Next
  <2> QED BY <2>1, TypeParts, KindStays, GenUpdates
          DEF IInv, ControlOK, GenOK, Routes, Asking, Endings
<1>a. ASSUME pc'[r] \notin {"context", "agent"} PROVE AsksIt(r)'
  BY <1>a DEF AsksIt
<1>1. CASE Arrive(r)
  BY <1>0, <1>1, <1>a DEF Arrive, Begin, Refuse, Get, Evict, Go
<1>2. CASE Fault(r)
  BY <1>0, <1>2, <1>a DEF Fault, Raise, RaiseInBody, RaiseInHandler,
    RaiseInRelease, RaiseOutsideRun, Crash, ClientGone, Go
<1>3. CASE StartEdited(r)
  <2>1. /\ gen' = [gen EXCEPT ![r].sent = ForAgent(gen[r].held)]
        /\ pc'[r] = "agent" /\ AtQuestion(r)
    BY <1>0, <1>3 DEF StartEdited, Go, AtQuestion
  <2>2. gen'[r].sent = ForAgent(gen[r].held)
    BY <1>0, <2>1, FieldMeans
  <2>3. EndsWith(gen[r].held, Question(r))
    BY <1>0, <2>1 DEF Ending
  <2> QED BY <1>0, <2>1, <2>2, <2>3, ForAgentLast DEF AsksIt
<1>4. CASE StartResumed(r)
  BY <1>0, <1>4 DEF StartResumed, Go, AsksIt
<1>5. CASE LlmRead(r)
  <2>1. pc'[r] = "context" => Llm = NoLlm
    BY <1>0, <1>5 DEF LlmRead, Go
  <2>2. row' = row /\ pc'[r] # "agent"
    BY <1>0, <1>5 DEF LlmRead, stores, Go, AfterAppend
  <2> QED BY <2>1, <2>2 DEF AsksIt, Llm
<1>6. CASE LlmWrite(r)
  <2> SUFFICES ASSUME pc'[r] = "context", Llm' # NoLlm
               PROVE  Llm' # <<>> /\ Last(Llm') = Entry(Question(r))
    BY <1>0, <1>6 DEF AsksIt, LlmWrite, Go, AfterAppend
  <2>1. gen[r].phase = "question" /\ pc[r] = "llmWrite"
    BY <1>0, <1>6 DEF LlmWrite, Go, AfterAppend
  <2>2. Last(gen[r].held) = Question(r)
    BY <1>0, <2>1 DEF Ending, AtQuestion, EndsWith
  <2>3. row' # NoRow /\ Llm' = row'.llm
    BY DEF Llm
  <2>4. row # NoRow /\ row' = [row EXCEPT !.llm =
                         Append(gen[r].llm, Entry(Last(gen[r].held)))]
    BY <1>6, <2>3 DEF LlmWrite, SetLlm
  <2>5. row'.llm = Append(gen[r].llm, Entry(Question(r)))
    BY <2>2, <2>4, Lists DEF Rows
  <2>6. Entry(Question(r)) \in Entries
    BY MessageTypes
  <2> QED BY <1>0, <2>3, <2>5, <2>6, AppendEntry
<1>7. CASE Context(r)
  <2>1. /\ gen' = [gen EXCEPT ![r].sent = AgentMessages(gen[r].held)]
        /\ pc[r] = "context" /\ pc'[r] = "agent" /\ AtQuestion(r)
    BY <1>0, <1>7 DEF Context, Go, AtQuestion
  <2>2. gen'[r].sent = AgentMessages(gen[r].held)
    BY <1>0, <2>1, FieldMeans
  <2>3. EndsWith(gen[r].held, Question(r))
    BY <1>0, <2>1 DEF Ending
  <2>4. CASE Llm # NoLlm
    BY <1>0, <2>1, <2>2, <2>4 DEF AgentMessages, AsksIt
  <2>5. CASE Llm = NoLlm
    BY <1>0, <2>1, <2>2, <2>3, <2>5, ForAgentLast DEF AgentMessages, AsksIt
  <2> QED BY <2>4, <2>5
<1>8. ASSUME Step(r), ~StartEdited(r), ~StartResumed(r), ~LlmRead(r),
             ~LlmWrite(r), ~Context(r)
      PROVE  pc'[r] \notin {"context", "agent"}
  <2>1. CASE Save(r)
    BY <1>0, <2>1 DEF Save, AfterSave, Go
  <2>2. CASE ~Save(r)
    BY <1>0, <1>8, <2>2 DEF Step, Go, StartTurn, ResumeUnknown, Load,
      LoadNothing, Adopt, WriteCache, Ask, Truncate, NothingToEdit, Viewed,
      ClearLlm, AgentDone, AgentPauses, AgentCancels, AgentFails, AgentDrops,
      Reload, Memory, Usage, Source, CompactDone, CompactSkipped,
      CompactFails, Install, Finish, DropCache
  <2> QED BY <2>1, <2>2
<1> QED BY <1>a, <1>1, <1>2, <1>3, <1>4, <1>5, <1>6, <1>7, <1>8

\* So every step keeps what is asked at the end.
LEMMA StepAsking ==
  IInv /\ SoleWorker /\ Endings /\ Asking /\ [Next]_vars => Asking'
<1> SUFFICES ASSUME IInv, SoleWorker, Endings, Asking, [Next]_vars
             PROVE  Asking'
  OBVIOUS
<1>1. kind' = kind
  BY KindStays
<1>2. ASSUME NEW r \in Requests, Arrive(r) \/ Step(r) \/ Fault(r)
      PROVE  Asking'
  BY <1>1, <1>2, OwnAsking, OthersAsking DEF Asking
<1>3. CASE Lapse \/ CacheExpire \/ UNCHANGED vars
  BY <1>3 DEF Lapse, CacheExpire, vars, Asking, AsksIt, Llm
<1> QED BY <1>2, <1>3, StepCases

(***************************************************************************)
(* AgentSeesQuestion: although the Agent's history is read back from one   *)
(* of two columns that were written in turn, it ends with the question.    *)
(* Exceptions, crashes and GETs that write back do not change that.        *)
(***************************************************************************)
THEOREM QuestionsAreSeen ==
  ASSUME NoOverrun
  PROVE  Spec => []AgentSeesQuestion
<1> DEFINE Inv == IInv /\ SoleWorker /\ Endings /\ Asking
<1>1. Init => Inv
  BY InitIInv, InitSoleWorker, InitEndings, InitAsking
<1>2. Inv /\ [Next]_vars => Inv'
  BY StepIInv, StepSoleWorker, StepEndings, StepAsking
<1>3. Inv => AgentSeesQuestion
  BY DEF Asking, AsksIt, AgentSeesQuestion
<1> QED BY <1>1, <1>2, <1>3, PTL DEF Spec

-----------------------------------------------------------------------------
(***************************************************************************)
(* A summary is asked for by a compaction only, and what _append_llm read  *)
(* is still there when it writes.                                          *)
(***************************************************************************)
LEMMA StepCompacts == IInv /\ Compacts /\ [Next]_vars => Compacts'
<1> SUFFICES ASSUME IInv, Compacts, [Next]_vars PROVE Compacts'
  OBVIOUS
<1>0. TypeOK /\ kind' = kind /\ pc \in [Requests -> Pcs]
  BY TypeParts, KindStays DEF IInv, ControlOK
<1>1. ASSUME NEW r \in Requests, Arrive(r) \/ Step(r) \/ Fault(r),
             pc'[r] \in {"source", "compacting", "install"}
      PROVE  kind[r] = "compact"
  <2>1. CASE Arrive(r)
    BY <1>0, <1>1, <2>1 DEF Arrive, Begin, Refuse, Get, Evict, Go
  <2>2. CASE Fault(r)
    BY <1>0, <1>1, <2>2 DEF Fault, Raise, RaiseInBody, RaiseInHandler,
      RaiseInRelease, RaiseOutsideRun, Crash, ClientGone, Go
  <2>3. CASE Save(r)
    BY <1>0, <1>1, <2>3 DEF Save, AfterSave, Go
  <2>4. CASE Source(r) \/ CompactDone(r)
    BY <2>4 DEF Source, CompactDone, Go, Compacts
  <2>5. CASE Step(r) /\ ~Save(r) /\ ~Source(r) /\ ~CompactDone(r)
    BY <1>0, <1>1, <2>5 DEF Step, Go, StartTurn, StartEdited, StartResumed,
      ResumeUnknown, Load, LoadNothing, Adopt, WriteCache, Ask, Truncate,
      NothingToEdit, Viewed, ClearLlm, LlmRead, LlmWrite, AfterAppend,
      Context, AgentDone, AgentPauses, AgentCancels, AgentFails, AgentDrops,
      Reload, Memory, Usage, CompactSkipped, CompactFails, Install, Finish,
      DropCache
  <2> QED BY <1>1, <2>1, <2>2, <2>3, <2>4, <2>5
<1>2. ASSUME NEW r \in Requests, Arrive(r) \/ Step(r) \/ Fault(r)
      PROVE  Compacts'
  <2>1. ASSUME NEW q \in Requests, q # r
        PROVE  pc'[q] = pc[q]
    BY <1>0, <1>2, <2>1, OthersStay
  <2> QED BY <1>0, <1>1, <1>2, <2>1 DEF Compacts
<1>3. CASE Lapse \/ CacheExpire \/ UNCHANGED vars
  BY <1>3 DEF Lapse, CacheExpire, vars, Compacts
<1> QED BY <1>2, <1>3, StepCases

\* Between the read and the write of _append_llm nobody else writes.
LEMMA StepLlmReads ==
  IInv /\ SoleWorker /\ GetsOnlyRead /\ LlmReads /\ [Next]_vars => LlmReads'
<1> SUFFICES ASSUME IInv, SoleWorker, GetsOnlyRead, LlmReads, [Next]_vars
             PROVE  LlmReads'
  OBVIOUS
<1>0. TypeOK /\ Routes /\ kind' = kind /\ pc \in [Requests -> Pcs]
  BY TypeParts, KindStays DEF IInv, ControlOK
<1>1. ASSUME NEW r \in Requests, Arrive(r) \/ Step(r) \/ Fault(r),
             kind[r] \in LockKinds
      PROVE  ReadsLlm(r)'
  <2>1. CASE LlmRead(r)
    <3>1. /\ pc'[r] = "llmWrite" => Llm # NoLlm
          /\ gen'[r].llm = IF Llm = NoLlm THEN <<>> ELSE Llm
          /\ row' = row
      <4> DEFINE read == IF Llm = NoLlm THEN <<>> ELSE Llm
      <4>1. gen' = [gen EXCEPT ![r].llm = read] /\ row' = row
        BY <2>1 DEF LlmRead, stores
      <4>2. pc'[r] = "llmWrite" => Llm # NoLlm
        BY <1>0, <2>1 DEF LlmRead, Go, AfterAppend
      <4> HIDE DEF read
      <4>3. gen'[r].llm = read
        BY <1>0, <4>1, FieldMeans
      <4> QED BY <4>1, <4>2, <4>3 DEF read
    <3> QED BY <3>1 DEF ReadsLlm, Llm
  <2>2. CASE ~LlmRead(r)
    <3>1. pc'[r] # "llmWrite"
      <4>1. CASE Arrive(r)
        BY <1>0, <4>1 DEF Arrive, Begin, Refuse, Get, Evict, Go
      <4>2. CASE Fault(r)
        BY <1>0, <4>2 DEF Fault, Raise, RaiseInBody, RaiseInHandler,
          RaiseInRelease, RaiseOutsideRun, Crash, ClientGone, Go
      <4>3. CASE Save(r)
        BY <1>0, <4>3 DEF Save, AfterSave, Go
      <4>4. CASE Step(r) /\ ~Save(r)
        BY <1>0, <2>2, <4>4 DEF Step, Go, StartTurn, StartEdited, StartResumed,
          ResumeUnknown, Load, LoadNothing, Adopt, WriteCache, Ask, Truncate,
          NothingToEdit, Viewed, ClearLlm, LlmWrite, AfterAppend, Context,
          AgentDone, AgentPauses, AgentCancels, AgentFails, AgentDrops,
          Reload, Memory, Usage, Source, CompactDone, CompactSkipped,
          CompactFails, Install, Finish, DropCache
      <4> QED BY <1>1, <4>1, <4>2, <4>3, <4>4
    <3> QED BY <3>1 DEF ReadsLlm
  <2> QED BY <2>1, <2>2
<1>2. ASSUME NEW r \in Requests, Arrive(r) \/ Step(r) \/ Fault(r),
             NEW q \in Requests, q # r, kind[q] \in LockKinds
      PROVE  ReadsLlm(q)'
  <2>1. pc'[q] = pc[q] /\ gen'[q] = gen[q] /\ ReadsLlm(q)
    BY <1>0, <1>2, OthersStay DEF LlmReads
  <2>2. ASSUME pc[q] = "llmWrite", row' # NoRow
        PROVE  row # NoRow /\ row'.llm = row.llm
    <3>1. ~ClearLlm(r) /\ ~LlmWrite(r) /\ ~Install(r)
      BY <1>2, <2>2, WorkerIsAlone
      DEF ClearLlm, LlmWrite, Install, Go, Running, StoreCalls
    <3>2. ~(Save(r) /\ row = NoRow)
      BY <1>2, <2>2, SaverIsAlone DEF Save, Go, Running, StoreCalls
    <3> QED BY <1>2, <2>2, <3>1, <3>2, LlmStep
  <2> QED BY <2>1, <2>2 DEF ReadsLlm
<1>3. CASE Lapse \/ CacheExpire \/ UNCHANGED vars
  BY <1>3 DEF Lapse, CacheExpire, vars, LlmReads, ReadsLlm
<1>4. ASSUME NEW r \in Requests, Arrive(r) \/ Step(r) \/ Fault(r)
      PROVE  LlmReads'
  BY <1>0, <1>1, <1>2, <1>4 DEF LlmReads
<1> QED BY <1>3, <1>4, StepCases

-----------------------------------------------------------------------------
(***************************************************************************)
(* Nothing is lost on the Agent. What stands for a list stands for its     *)
(* cuts, and for one message more if that is on its way or is not counted. *)
(***************************************************************************)
LEMMA CoversMore ==
  ASSUME NEW list, NEW gists, NEW pending, NEW wider, NEW later,
         Covers(gists, list, pending),
         gists \cup pending \subseteq wider \cup later
  PROVE  Covers(wider, list, later)
  BY DEF Covers

\* A list that says the same is covered by the same.
LEMMA CoversSame ==
  ASSUME NEW list \in Seq(Messages), NEW other \in Seq(Messages),
         Len(other) = Len(list), Agree(other, list, Len(list)),
         NEW gists, NEW pending, Covers(gists, list, pending)
  PROVE  Covers(gists, other, pending)
<1>1. DOMAIN list = 1..Len(list) /\ DOMAIN other = 1..Len(list)
  OBVIOUS
<1>2. \A i \in 1..Len(list) : Gist(other[i]) = Gist(list[i])
  BY DEF Agree
<1>3. \A i \in 1..Len(list) : other[i].by = list[i].by
  BY <1>2 DEF Gist
<1> QED BY <1>1, <1>2, <1>3 DEF Covers

\* One message more is covered if it is pending or not counted.
LEMMA CoversNew ==
  ASSUME NEW list \in Seq(Messages), NEW other \in Seq(Messages),
         NEW m, EndsWith(other, m), Agree(other, list, Len(other) - 1),
         NEW gists, NEW pending, Covers(gists, list, {}),
         \/ m.by # Old /\ kind[m.by] = "compact"
         \/ Gist(m) \in pending
  PROVE  Covers(gists, other, pending)
<1> DEFINE n == Len(other)
<1>1. DOMAIN list = 1..Len(list) /\ DOMAIN other = 1..n /\ n \in Nat
      /\ n # 0 /\ other[n] = m
  BY DEF EndsWith, Last
<1>2. /\ \A i \in 1..(n - 1) : Gist(other[i]) = Gist(list[i])
      /\ n - 1 <= Len(list)
  BY DEF Agree
<1>3. \A i \in 1..(n - 1) : other[i].by = list[i].by
  BY <1>2 DEF Gist
<1> HIDE DEF n
<1>4. \A i \in 1..n : i = n \/ i \in 1..(n - 1)
  BY <1>1
<1>5. \A i \in 1..(n - 1) : i \in DOMAIN list
  BY <1>1, <1>2
<1>6. ASSUME NEW i \in 1..(n - 1)
      PROVE  \/ other[i].by # Old /\ kind[other[i].by] = "compact"
             \/ Gist(other[i]) \in gists
  BY <1>2, <1>3, <1>5 DEF Covers
<1> QED BY <1>1, <1>4, <1>6 DEF Covers

\* The display list, as it is sent, stands for itself.
LEMMA SeenForAgent ==
  ASSUME NEW list \in Seq(Messages)
  PROVE  \A i \in DOMAIN list : Gist(list[i]) \in Seen(ForAgent(list))
  BY DEF ForAgent, Seen, Entry

\* Without its last message too, if that is a compact command.
LEMMA SeenFront ==
  ASSUME NEW list \in Seq(Messages), NEW m, EndsWith(list, m),
         m.by # Old, kind[m.by] = "compact"
  PROVE  Covers(Seen(ForAgent(Front(list))), list, {})
<1> DEFINE n == Len(list)
           f == Front(list)
<1>1. n \in Nat /\ n # 0 /\ DOMAIN list = 1..n /\ list[n] = m
  BY DEF EndsWith, Last
<1>2. /\ f \in Seq(Messages) /\ DOMAIN f = 1..(n - 1)
      /\ \A i \in 1..(n - 1) : f[i] = list[i]
  BY <1>1 DEF Front
<1> HIDE DEF f, n
<1>3. \A i \in 1..(n - 1) : Gist(list[i]) \in Seen(ForAgent(f))
  BY <1>2, SeenForAgent
<1>4. \A i \in 1..n : i = n \/ i \in 1..(n - 1)
  BY <1>1
<1> QED BY <1>1, <1>3, <1>4 DEF Covers, f

\* A summary and an appended entry add what they stand for.
LEMMA SeenOne ==
  ASSUME NEW set
  PROVE  Seen(<<set>>) = set
<1>1. DOMAIN <<set>> = {1} /\ <<set>>[1] = set
  OBVIOUS
<1> QED BY <1>1 DEF Seen

\* An appended entry is seen with all that was.
LEMMA SeenAppend ==
  ASSUME NEW entries \in Seq(Entries), NEW e \in Entries
  PROVE  Seen(Append(entries, e)) = Seen(entries) \cup e
<1> DEFINE a == Append(entries, e)
           n == Len(entries)
<1>1. /\ DOMAIN a = 1..(n + 1) /\ DOMAIN entries = 1..n /\ n \in Nat
      /\ a[n + 1] = e
      /\ \A i \in 1..n : a[i] = entries[i]
  BY AppendProperties
<1>2. \A i \in 1..(n + 1) : i = n + 1 \/ i \in 1..n
  BY <1>1
<1>3. n + 1 \in 1..(n + 1) /\ \A i \in 1..n : i \in 1..(n + 1)
  BY <1>1
<1> HIDE DEF a, n
<1>4. UNION {a[i] : i \in 1..(n + 1)}
        = (UNION {entries[i] : i \in 1..n}) \cup e
  BY <1>1, <1>2, <1>3
<1> QED BY <1>1, <1>4 DEF Seen, a

\* The rows the session may start from are covered, and nothing is pending.
LEMMA InitCovered == ASSUME StartsCovered PROVE Init => Covered
<1> SUFFICES ASSUME Init, row # NoRow PROVE
      /\ row.llm # NoLlm => Covers(Seen(row.llm), row.messages, Pending)
      /\ \A r \in Requests : SentAll(r)
  BY DEF Covered
<1>1. row.llm # NoLlm => Covers(Seen(row.llm), row.messages, Pending)
  BY DEF Init, StartsCovered, Covers
<1>2. \A r \in Requests : SentAll(r)
  BY DEF Init, SentAll
<1> QED BY <1>1, <1>2

\* A message is pending until it is appended, or there is nothing to append to.
LEMMA PendingStays ==
  ASSUME IInv, NoTornWrite, NEW r \in Requests,
         Arrive(r) \/ Step(r) \/ Fault(r),
         ~LlmWrite(r), ~ClearLlm(r), LlmRead(r) => Llm # NoLlm
  PROVE  Pending \subseteq Pending'
<1>0. TypeOK /\ kind' = kind /\ pc \in [Requests -> Pcs]
  <2>1. [Next]_vars
    BY DEF Next
  <2> QED BY <2>1, TypeParts, KindStays DEF IInv, ControlOK
<1> DEFINE Waits(q) == /\ kind[q] \in LockKinds
                       /\ pc[q] \in {"llmRead", "llmWrite", "clear"}
<1>1. ASSUME NEW q \in Requests, Waits(q)
      PROVE  /\ kind'[q] \in LockKinds
             /\ pc'[q] \in {"llmRead", "llmWrite", "clear"}
             /\ gen'[q].held = gen[q].held
  <2>1. CASE q # r
    BY <1>0, <1>1, <2>1, OthersStay
  <2>2. CASE q = r
    <3>1. LlmRead(r)
      <4>1. ~Arrive(r)
        BY <1>1, <2>2 DEF Arrive, Begin, Refuse, Get, Evict, Go
      <4>2. ~Fault(r)
        BY <1>1, <2>2 DEF NoTornWrite, Fault, Raise, Crash, ClientGone
      <4>3. Step(r) => LlmRead(r)
        BY <1>1, <2>2 DEF Step, Go, StartTurn, StartEdited, StartResumed,
          ResumeUnknown, Load, LoadNothing, Adopt, WriteCache, Save, Ask,
          Truncate, NothingToEdit, Viewed, Context, AgentDone, AgentPauses,
          AgentCancels, AgentFails, AgentDrops, Reload, Memory, Usage, Source,
          CompactDone, CompactSkipped, CompactFails, Install, Finish, DropCache
      <4> QED BY <4>1, <4>2, <4>3
    <3>2. pc'[r] = "llmWrite"
      BY <1>0, <3>1 DEF LlmRead, Go
    <3>3. gen'[r].held = gen[r].held
      BY <1>0, <3>1, FieldMeans DEF LlmRead
    <3> QED BY <1>0, <1>1, <2>2, <3>2, <3>3
  <2> QED BY <2>1, <2>2
<1> QED BY <1>1 DEF Pending

\* Nothing is pending while another place of the lock's holder is reached.
LEMMA NothingPending ==
  ASSUME IInv, SoleWorker, NEW r \in Requests, kind[r] \in LockKinds,
         pc[r] \in {"cache", "save", "context", "source"}
  PROVE  Pending = {}
<1>1. \A q \in Requests :
        q # r /\ kind[q] \in LockKinds => pc[q] \notin Running
  BY WorkerIsAlone
<1>2. \A q \in Requests :
        ~(kind[q] \in LockKinds /\ pc[q] \in {"llmRead", "llmWrite", "clear"})
  BY <1>1 DEF Running, StoreCalls
<1> QED BY <1>2 DEF Pending

(***************************************************************************)
(* A step keeps the Agent's history standing for the messages.             *)
(***************************************************************************)
LEMMA StepLlmCovers ==
  ASSUME SyncInv, LlmReads, Compacts, Covered, NoTornWrite,
         NEW r \in Requests, Arrive(r) \/ Step(r) \/ Fault(r),
         row' # NoRow, row'.llm # NoLlm
  PROVE  Covers(Seen(row'.llm), row'.messages, Pending')
<1>0. /\ IInv /\ TypeOK /\ Route(r) /\ kind' = kind
      /\ pc \in [Requests -> Pcs]
      /\ gen[r].held \in Seq(Messages) /\ gen[r].llm \in Seq(Entries)
      /\ gen[r].phase \in Phases
  <2>1. [Next]_vars
    BY DEF Next
  <2> QED BY <2>1, TypeParts, KindStays, GenUpdates
          DEF SyncInv, IInv, ControlOK, Routes
<1>1. CASE Save(r)
  <2>1. /\ row # NoRow /\ row'.llm = row.llm
        /\ row'.messages = gen[r].held
    BY <1>0, <1>1, RowStep, LlmStep DEF Save, Evict, ClearLlm, LlmWrite,
      Install, Go, Upsert
  <2>2. /\ pc[r] = "save" /\ pc'[r] = AfterSave(r) /\ gen' = gen
    BY <1>0, <1>1 DEF Save, Go
  <2>3. kind[r] \in LockKinds /\ Synced(r) /\ Ending(r) /\ Writing(r)
    BY <1>0, <2>2, SaverIsAlone DEF SyncInv, InSync, Endings, Route
  <2>4. Pending = {}
    BY <2>2, <2>3, NothingPending DEF SyncInv
  <2>5. Covers(Seen(row.llm), row.messages, {})
    BY <2>1, <2>4 DEF Covered
  <2>6. row.messages \in Seq(Messages)
    BY <1>0, <2>1, Lists
  <2>7. CASE gen[r].phase = "migrate"
    <3>1. /\ Len(gen[r].held) = Len(row.messages)
          /\ Agree(gen[r].held, row.messages, Len(row.messages))
      BY <2>1, <2>2, <2>3, <2>7 DEF Synced, HoldsRead
    <3>2. Covers(Seen(row.llm), gen[r].held, {})
      BY <1>0, <2>5, <2>6, <3>1, CoversSame
    <3> QED BY <2>1, <3>2, CoversMore
  <2>8. ASSUME NEW m, m = Question(r) \/ m = Answer(r),
               EndsWith(gen[r].held, m),
               Agree(gen[r].held, row.messages, Len(gen[r].held) - 1),
               kind[r] = "compact" \/ pc'[r] \in {"llmRead", "clear"}
        PROVE  Covers(Seen(row'.llm), row'.messages, Pending')
    <3>1. m.by = r /\ r # Old
      BY <2>8, AbsentIsNoValue DEF Question, Answer
    <3>2. kind[r] # "compact" => Gist(m) \in Pending'
      BY <1>0, <2>2, <2>3, <2>8 DEF Pending, EndsWith
    <3> QED BY <1>0, <2>1, <2>5, <2>6, <2>8, <3>1, <3>2, CoversNew
  <2>9. CASE gen[r].phase \in {"question", "truncate"}
    <3>1. EndsWith(gen[r].held, Question(r))
      BY <2>2, <2>3, <2>9 DEF Ending, AtQuestion
    <3>2. Agree(gen[r].held, row.messages, Len(gen[r].held) - 1)
      <4>1. CASE gen[r].phase = "truncate"
        BY <2>1, <2>2, <2>3, <4>1 DEF Synced, HoldsCut
      <4>2. CASE gen[r].phase = "question"
        <5>1. /\ Len(gen[r].held) = Len(row.messages) + 1
              /\ Agree(gen[r].held, row.messages, Len(row.messages))
          BY <2>1, <2>2, <2>3, <4>2 DEF Synced, HoldsNew
        <5>2. Len(gen[r].held) - 1 = Len(row.messages)
          BY <2>6, <5>1
        <5> QED BY <5>1, <5>2
      <4> QED BY <2>9, <4>1, <4>2
    <3>3. kind[r] = "compact" \/ pc'[r] \in {"llmRead", "clear"}
      BY <2>2, <2>9 DEF AfterSave
    <3> QED BY <2>8, <3>1, <3>2, <3>3
  <2>10. CASE gen[r].phase = "reply"
    <3>1. EndsWith(gen[r].held, Answer(r))
      BY <2>2, <2>3, <2>10 DEF Ending, AtAnswer
    <3>2. /\ Len(gen[r].held) = Len(row.messages) + 1
          /\ Agree(gen[r].held, row.messages, Len(row.messages))
      BY <2>1, <2>2, <2>3, <2>10 DEF Synced, HoldsNew
    <3>3. Len(gen[r].held) - 1 = Len(row.messages)
      BY <2>6, <3>2
    <3>4. kind[r] = "compact" \/ pc'[r] \in {"llmRead", "clear"}
      BY <2>2, <2>10 DEF AfterSave
    <3> QED BY <2>8, <3>1, <3>2, <3>3, <3>4
  <2> QED BY <1>0, <2>2, <2>3, <2>7, <2>9, <2>10 DEF Writing, Phases
<1>2. CASE LlmWrite(r)
  <2>1. pc[r] = "llmWrite" /\ kind[r] \in LockKinds /\ gen[r].held # <<>>
    BY <1>0, <1>2 DEF LlmWrite, Go, Route, Unlocked, Writing
  <2>2. row # NoRow
    BY <1>2 DEF LlmWrite, SetLlm
  <2>3. /\ row.llm = gen[r].llm
        /\ row'.llm = Append(gen[r].llm, Entry(Last(gen[r].held)))
        /\ row'.messages = row.messages
    <3>1. row' = [row EXCEPT !.llm = Append(gen[r].llm, Entry(Last(gen[r].held)))]
      BY <1>2, <2>2 DEF LlmWrite, SetLlm
    <3>2. row.llm = gen[r].llm
      BY <2>1, <2>2 DEF LlmReads, ReadsLlm
    <3> QED BY <1>0, <2>2, <3>1, <3>2, Lists DEF Rows
  <2>4. Last(gen[r].held) \in Messages /\ Entry(Last(gen[r].held)) \in Entries
    BY <1>0, <2>1, LastType, MessageTypes
  <2>5. Seen(row'.llm) = Seen(row.llm) \cup {Gist(Last(gen[r].held))}
    BY <1>0, <2>3, <2>4, SeenAppend DEF Entry
  <2>6. row.llm # NoLlm
    BY <1>0, <2>3, AbsentIsNoValue
  <2>7. Covers(Seen(row.llm), row.messages, Pending)
    BY <2>2, <2>6 DEF Covered
  <2>8. Pending \subseteq {Gist(Last(gen[r].held))}
    <3>1. \A q \in Requests :
            q # r /\ kind[q] \in LockKinds => pc[q] \notin Running
      BY <1>0, <2>1, WorkerIsAlone DEF SyncInv
    <3> QED BY <3>1 DEF Pending, Running, StoreCalls
  <2> QED BY <2>3, <2>5, <2>7, <2>8, CoversMore
<1>3. CASE Install(r)
  <2>1. pc[r] = "install" /\ kind[r] \in LockKinds
    BY <1>0, <1>3 DEF Install, Go, Route, Unlocked
  <2>2. row # NoRow
    BY <1>3 DEF Install, SetLlm
  <2>3. row'.llm = <<Seen(gen[r].sent)>> /\ row'.messages = row.messages
    <3>1. row' = [row EXCEPT !.llm = <<Seen(gen[r].sent)>>]
      BY <1>3, <2>2 DEF Install, SetLlm
    <3> QED BY <1>0, <2>2, <3>1, Lists DEF Rows
  <2>4. Covers(Seen(gen[r].sent), row.messages, {})
    BY <2>1, <2>2 DEF Covered, SentAll
  <2>5. Seen(row'.llm) = Seen(gen[r].sent)
    BY <2>3, SeenOne
  <2> QED BY <2>3, <2>4, <2>5, CoversMore
<1>4. CASE ~Save(r) /\ ~LlmWrite(r) /\ ~Install(r)
  <2>1. row # NoRow /\ row'.llm = row.llm
    BY <1>0, <1>4, LlmStep
  <2>2. row'.messages = row.messages
    BY <1>0, <1>4, RowStep
  <2>3. LlmRead(r) => Llm # NoLlm
    BY <2>1 DEF Llm
  <2>4. ~ClearLlm(r)
    <3> SUFFICES ASSUME ClearLlm(r) PROVE FALSE
      OBVIOUS
    <3>1. row' = [row EXCEPT !.llm = NoLlm]
      BY <2>1 DEF ClearLlm, SetLlm
    <3> QED BY <1>0, <2>1, <3>1, Lists DEF Rows
  <2>5. Pending \subseteq Pending'
    BY <1>0, <1>4, <2>3, <2>4, PendingStays
  <2>6. Covers(Seen(row.llm), row.messages, Pending)
    BY <2>1 DEF Covered
  <2> QED BY <2>1, <2>2, <2>5, <2>6, CoversMore
<1> QED BY <1>1, <1>2, <1>3, <1>4

\* What is read for the Agent stands for the stored messages.
LEMMA ReadCovers ==
  ASSUME SyncInv, Covered, row # NoRow, NEW r \in Requests,
         kind[r] \in LockKinds, pc[r] \in {"context", "source"},
         NEW list \in Seq(Messages),
         Covers(Seen(ForAgent(list)), row.messages, {})
  PROVE  Covers(Seen(AgentMessages(list)), row.messages, {})
<1>1. CASE row.llm # NoLlm
  <2>1. Pending = {}
    BY NothingPending DEF SyncInv
  <2> QED BY <1>1, <2>1 DEF Covered, AgentMessages, Llm
<1>2. CASE row.llm = NoLlm
  BY <1>2 DEF AgentMessages, Llm
<1> QED BY <1>1, <1>2

\* What the Agent was sent still stands for the stored messages.
LEMMA StepSentAll ==
  ASSUME SyncInv, Compacts, Covered, NEW r \in Requests,
         Arrive(r) \/ Step(r) \/ Fault(r), row' # NoRow,
         NEW q \in Requests
  PROVE  SentAll(q)'
<1>0. /\ IInv /\ TypeOK /\ kind' = kind /\ pc \in [Requests -> Pcs]
      /\ gen[r].held \in Seq(Messages)
  <2>1. [Next]_vars
    BY DEF Next
  <2> QED BY <2>1, TypeParts, KindStays, GenUpdates
          DEF SyncInv, IInv, ControlOK
<1>a. Covers(Seen(gen'[q].sent), row'.messages, {}) => SentAll(q)'
  BY <1>0 DEF SentAll, Covers
<1>b. ASSUME pc'[q] \notin {"agent", "compacting", "install"}
      PROVE  SentAll(q)'
  BY <1>b DEF SentAll
<1>1. CASE q # r
  <2>1. pc'[q] = pc[q] /\ gen'[q] = gen[q]
    BY <1>0, <1>1, OthersStay
  <2>2. ASSUME kind[q] \in LockKinds, pc[q] \in {"agent", "compacting", "install"}
        PROVE  row # NoRow /\ row'.messages = row.messages
    <3>1. ~Save(r)
      BY <1>0, <1>1, <2>2, SaverIsAlone
      DEF SyncInv, Save, Go, Running, StoreCalls
    <3> QED BY <1>0, <2>2, <3>1, RowStep, LlmStep
            DEF ClearLlm, LlmWrite, Install, SetLlm
  <2> QED BY <1>0, <2>1, <2>2 DEF Covered, SentAll, Covers
<1>2. CASE q = r
  <2>1. CASE StartEdited(r)
    <3>1. /\ gen' = [gen EXCEPT ![r].sent = ForAgent(gen[r].held)]
          /\ pc[r] = "body" /\ kind[r] = "edit" /\ row' = row
      BY <2>1 DEF StartEdited, Go, stores
    <3>2. row.messages = gen[r].held /\ row # NoRow
      BY <1>0, <3>1 DEF SyncInv, InSync, Synced, HoldsStored
    <3>3. gen'[r].sent = ForAgent(gen[r].held)
      BY <1>0, <3>1, FieldMeans
    <3>4. Covers(Seen(gen'[r].sent), row'.messages, {})
      BY <1>0, <3>1, <3>2, <3>3, SeenForAgent DEF Covers
    <3> QED BY <1>2, <1>a, <3>4
  <2>2. CASE Context(r)
    <3>1. /\ gen' = [gen EXCEPT ![r].sent = AgentMessages(gen[r].held)]
          /\ pc[r] = "context" /\ row' = row
      BY <2>2 DEF Context, Go, stores
    <3>2. kind[r] \in LockKinds
      BY <1>0, <3>1 DEF IInv, Routes, Route, Unlocked
    <3>3. row.messages = gen[r].held /\ row # NoRow
      BY <1>0, <3>1, <3>2 DEF SyncInv, InSync, Synced, HoldsStored
    <3>4. Covers(Seen(ForAgent(gen[r].held)), row.messages, {})
      BY <1>0, <3>3, SeenForAgent DEF Covers
    <3>5. gen'[r].sent = AgentMessages(gen[r].held)
      BY <1>0, <3>1, FieldMeans
    <3>6. Covers(Seen(gen'[r].sent), row'.messages, {})
      BY <1>0, <3>1, <3>2, <3>3, <3>4, <3>5, ReadCovers
    <3> QED BY <1>2, <1>a, <3>6
  <2>3. CASE Source(r)
    <3>1. /\ gen' = [gen EXCEPT ![r].sent = AgentMessages(Front(gen[r].held))]
          /\ pc[r] = "source" /\ row' = row
      BY <2>3 DEF Source, Go, stores
    <3>2. kind[r] \in LockKinds /\ kind[r] = "compact"
      BY <3>1 DEF Compacts
    <3>3. row.messages = gen[r].held /\ row # NoRow
      BY <1>0, <3>1, <3>2 DEF SyncInv, InSync, Synced, HoldsStored
    <3>4. EndsWith(gen[r].held, Question(r))
      BY <3>1, <3>2 DEF SyncInv, Endings, Ending, AtQuestion
    <3>5. Question(r).by = r /\ r # Old
      BY AbsentIsNoValue DEF Question
    <3>6. Covers(Seen(ForAgent(Front(gen[r].held))), row.messages, {})
      BY <1>0, <3>2, <3>3, <3>4, <3>5, SeenFront
    <3>7. gen'[r].sent = AgentMessages(Front(gen[r].held))
      BY <1>0, <3>1, FieldMeans
    <3>8. Front(gen[r].held) \in Seq(Messages)
      BY <1>0, FrontType
    <3>9. Covers(Seen(gen'[r].sent), row'.messages, {})
      BY <1>0, <3>1, <3>2, <3>3, <3>6, <3>7, <3>8, ReadCovers
    <3> QED BY <1>2, <1>a, <3>9
  <2>4. CASE CompactDone(r)
    <3>1. gen' = gen /\ row' = row /\ pc[r] = "compacting"
      BY <2>4 DEF CompactDone, Go, stores
    <3> QED BY <1>0, <1>2, <3>1 DEF Covered, SentAll, Covers
  <2>5. CASE StartResumed(r)
    BY <1>0, <1>2, <2>5 DEF StartResumed, Go, SentAll
  <2>6. CASE ~StartEdited(r) /\ ~Context(r) /\ ~Source(r) /\ ~CompactDone(r)
             /\ ~StartResumed(r)
    <3>1. CASE Arrive(r)
      BY <1>0, <1>2, <1>b, <3>1 DEF Arrive, Begin, Refuse, Get, Evict, Go
    <3>2. CASE Fault(r)
      BY <1>0, <1>2, <1>b, <3>2 DEF Fault, Raise, RaiseInBody, RaiseInHandler,
        RaiseInRelease, RaiseOutsideRun, Crash, ClientGone, Go
    <3>3. CASE Save(r)
      BY <1>0, <1>2, <1>b, <3>3 DEF Save, AfterSave, Go
    <3>4. CASE Step(r) /\ ~Save(r)
      BY <1>0, <1>2, <1>b, <2>6, <3>4 DEF Step, Go, StartTurn, ResumeUnknown,
        Load, LoadNothing, Adopt, WriteCache, Ask, Truncate, NothingToEdit,
        Viewed, ClearLlm, LlmRead, LlmWrite, AfterAppend, AgentDone,
        AgentPauses, AgentCancels, AgentFails, AgentDrops, Reload, Memory,
        Usage, CompactSkipped, CompactFails, Install, Finish, DropCache
    <3> QED BY <3>1, <3>2, <3>3, <3>4
  <2> QED BY <2>1, <2>2, <2>3, <2>4, <2>5, <2>6
<1> QED BY <1>1, <1>2

\* So every step keeps the history covered.
LEMMA StepCovered ==
  ASSUME NoTornWrite
  PROVE  SyncInv /\ LlmReads /\ Compacts /\ Covered /\ [Next]_vars => Covered'
<1> SUFFICES ASSUME SyncInv, LlmReads, Compacts, Covered, [Next]_vars
             PROVE  Covered'
  OBVIOUS
<1>1. kind' = kind
  BY KindStays
<1>2. ASSUME NEW r \in Requests, Arrive(r) \/ Step(r) \/ Fault(r)
      PROVE  Covered'
  <2> SUFFICES ASSUME row' # NoRow
               PROVE  /\ (row.llm # NoLlm =>
                            Covers(Seen(row.llm), row.messages, Pending))'
                      /\ \A q \in Requests : SentAll(q)'
    BY DEF Covered
  <2>1. ASSUME row'.llm # NoLlm
        PROVE  Covers(Seen(row'.llm), row'.messages, Pending')
    BY <1>2, <2>1, StepLlmCovers
  <2>2. \A q \in Requests : SentAll(q)'
    BY <1>2, StepSentAll
  <2> QED BY <1>1, <2>1, <2>2 DEF Covers
<1>3. CASE Lapse \/ CacheExpire \/ UNCHANGED vars
  BY <1>3 DEF Lapse, CacheExpire, vars, Covered, Covers, Pending, SentAll
<1> QED BY <1>2, <1>3, StepCases

(***************************************************************************)
(* AgentSeesHistory: messages and llm_messages, which are written in       *)
(* separate transactions, do not drift apart as long as no run breaks off  *)
(* between the two.                                                        *)
(***************************************************************************)
THEOREM HistoryIsSeen ==
  ASSUME NoOverrun, NoWriteBack, NoTornWrite, StartsCovered
  PROVE  Spec => []AgentSeesHistory
<1> DEFINE Inv == SyncInv /\ LlmReads /\ Compacts /\ Covered
<1>1. Init => Inv
  <2>1. Init => LlmReads /\ Compacts
    BY DEF Init, LlmReads, ReadsLlm, Compacts
  <2> QED BY <2>1, InitSyncInv, InitCovered
<1>2. Inv /\ [Next]_vars => Inv'
  BY StepSyncInv, StepLlmReads, StepCompacts, StepCovered DEF SyncInv
<1>3. Inv => AgentSeesHistory
  <2> SUFFICES ASSUME Inv, NEW r \in Requests, pc[r] = "agent",
                      kind[r] \in {"post", "edit"}, row # NoRow,
                      NEW i \in DOMAIN row.messages
               PROVE  \/ row.messages[i].by # Old
                           /\ kind[row.messages[i].by] = "compact"
                      \/ Gist(row.messages[i]) \in Seen(gen[r].sent)
    BY DEF AgentSeesHistory
  <2>1. Covers(Seen(gen[r].sent), row.messages, {})
    BY DEF Covered, SentAll
  <2> QED BY <2>1 DEF Covers
<1> QED BY <1>1, <1>2, <1>3, PTL DEF Spec

-----------------------------------------------------------------------------
(***************************************************************************)
(* The hash in Redis. It is written before the row, by the run that holds  *)
(* the lock, and dropped after it, by a deletion that holds none.          *)
(***************************************************************************)
LEMMA StepHash ==
  ASSUME NoTornWrite
  PROVE  SyncInv /\ Hash /\ [Next]_vars => Hash'
<1> SUFFICES ASSUME SyncInv, Hash, [Next]_vars PROVE Hash'
  OBVIOUS
<1>0. /\ IInv /\ TypeOK /\ kind' = kind /\ pc \in [Requests -> Pcs]
  BY TypeParts, KindStays DEF SyncInv, IInv, ControlOK
<1>1. ASSUME NEW r \in Requests, Arrive(r) \/ Step(r) \/ Fault(r)
      PROVE  Hash'
  <2>a. \A q \in Requests : q # r => pc'[q] = pc[q] /\ gen'[q] = gen[q]
    BY <1>0, <1>1, OthersStay
  <2>1. CASE WriteCache(r)
    <3>1. /\ pc[r] = "cache" /\ pc'[r] = "save" /\ gen' = gen
          /\ cache' = Window(gen[r].held)
      BY <1>0, <2>1 DEF WriteCache, Go
    <3>2. /\ kind[r] \in LockKinds
          /\ \A q \in Requests :
               q # r /\ kind[q] \in LockKinds => pc[q] \notin Running
      BY <3>1, SaverIsAlone DEF SyncInv
    <3>3. \A q \in Requests : kind[q] \in LockKinds /\ pc'[q] = "save" => q = r
      BY <2>a, <3>2 DEF Running, StoreCalls
    <3> QED BY <1>0, <3>1, <3>2, <3>3 DEF Hash
  <2>2. CASE Save(r)
    <3>1. /\ pc[r] = "save" /\ pc'[r] = AfterSave(r) /\ cache' = cache
      BY <1>0, <2>2 DEF Save, Go
    <3>2. /\ kind[r] \in LockKinds
          /\ \A q \in Requests :
               q # r /\ kind[q] \in LockKinds => pc[q] \notin Running
      BY <3>1, SaverIsAlone DEF SyncInv
    <3>3. \A q \in Requests : ~(kind[q] \in LockKinds /\ pc'[q] = "save")
      BY <2>a, <3>1, <3>2 DEF Running, StoreCalls, AfterSave
    <3>4. cache = NoCache \/ cache = Window(gen[r].held)
      BY <3>1, <3>2 DEF Hash
    <3>5. row' # NoRow /\ row'.messages = gen[r].held
      <4>1. Upsert(gen[r].held) \in Rows
        BY <1>0, TypeParts, RowWrites, GenUpdates
      <4>2. row # NoRow =>
              [row EXCEPT !.messages = gen[r].held].messages = gen[r].held
        BY <1>0, Lists DEF Rows
      <4> QED BY <2>2, <4>1, <4>2, AbsentIsNoValue DEF Save, Upsert
    <3> QED BY <1>0, <3>1, <3>3, <3>4, <3>5 DEF Hash
  <2>3. CASE DropCache(r)
    BY <2>3 DEF DropCache, Hash
  <2>4. CASE Evict(r)
    <3>1. pc'[r] = "drop" /\ cache' = cache /\ gen' = gen
      BY <1>0, <2>4 DEF Evict, Go
    <3> QED BY <1>0, <2>a, <3>1 DEF Hash
  <2>5. CASE ~WriteCache(r) /\ ~Save(r) /\ ~DropCache(r) /\ ~Evict(r)
    <3>1. cache' = cache /\ pc[r] # "drop" /\ pc'[r] # "save"
          /\ (kind[r] \in LockKinds => pc[r] # "save")
      <4>1. CASE Arrive(r)
        BY <1>0, <2>5, <4>1 DEF Arrive, Begin, Refuse, Get, Go, stores
      <4>2. CASE Fault(r)
        BY <1>0, <4>2 DEF Fault, Raise, Crash, ClientGone, NoTornWrite, stores
      <4>3. CASE Step(r)
        BY <1>0, <2>5, <4>3 DEF Step, Go, stores, StartTurn, StartEdited,
          StartResumed, ResumeUnknown, Load, LoadNothing, Adopt, Ask, Truncate,
          NothingToEdit, Viewed, ClearLlm, LlmRead, LlmWrite, AfterAppend,
          Context, AgentDone, AgentPauses, AgentCancels, AgentFails,
          AgentDrops, Reload, Memory, Usage, Source, CompactDone,
          CompactSkipped, CompactFails, Install, Finish
      <4> QED BY <1>1, <4>1, <4>2, <4>3
    <3>2. row' = row \/ (row # NoRow /\ row' # NoRow
                           /\ row'.messages = row.messages)
      BY <1>0, <1>1, <2>5, RowStep
    <3> QED BY <1>0, <2>a, <3>1, <3>2 DEF Hash
  <2> QED BY <2>1, <2>2, <2>3, <2>4, <2>5
<1>2. CASE Lapse \/ UNCHANGED vars
  BY <1>2 DEF Lapse, vars, Hash
<1>3. CASE CacheExpire
  BY <1>3 DEF CacheExpire, Hash
<1> QED BY <1>1, <1>2, <1>3, StepCases

(***************************************************************************)
(* CacheMirrors: once nothing runs, the hash is the window of the stored   *)
(* history or there is none, in whatever order runs and deletions wrote.   *)
(***************************************************************************)
THEOREM HashMirrors ==
  ASSUME NoOverrun, NoWriteBack, NoTornWrite
  PROVE  Spec => []CacheMirrors
<1>1. Init => SyncInv /\ Hash
  <2>1. Init => Hash
    BY DEF Init, Hash
  <2> QED BY <2>1, InitSyncInv
<1>2. (SyncInv /\ Hash) /\ [Next]_vars => (SyncInv /\ Hash)'
  BY StepSyncInv, StepHash
<1>3. SyncInv /\ Hash => CacheMirrors
  BY DEF Hash, CacheMirrors, Running, StoreCalls
<1> QED BY <1>1, <1>2, <1>3, PTL DEF Spec

=============================================================================
