--------------------------- MODULE ChatTurn_proofs ---------------------------
(***************************************************************************)
(* Proofs about ChatTurn, for any number of requests, any kinds and faults *)
(* and any initial rows: its types, what a request may do where, that it   *)
(* implements GenerationLock, and that no reply is stored unearned.        *)
(***************************************************************************)
EXTENDS ChatTurn, SequenceTheorems, TLAPS

USE DEF LockKinds

-----------------------------------------------------------------------------
(***************************************************************************)
(* Messages and entries made by the operators have their types.            *)
(***************************************************************************)
LEMMA MessageTypes ==
  /\ \A r \in Requests : Question(r) \in Messages /\ Answer(r) \in Messages
  /\ \A m \in Messages : Entry(m) \in Entries
  /\ \A m \in Messages : [m EXCEPT !.hasId = TRUE] \in Messages
<1>1. \A r \in Requests : Question(r) \in Messages /\ Answer(r) \in Messages
  BY DEF Question, Answer, Messages, Authors
<1>2. ASSUME NEW m \in Messages PROVE Entry(m) \in Entries
  <2>1. Gist(m) \in Gists
    BY DEF Messages, Gist, Gists
  <2> QED BY <2>1 DEF Entry, Entries
<1>3. ASSUME NEW m \in Messages PROVE [m EXCEPT !.hasId = TRUE] \in Messages
  BY DEF Messages
<1> QED BY <1>1, <1>2, <1>3

(***************************************************************************)
(* The Redis window of a history is a list of messages.                    *)
(***************************************************************************)
LEMMA WindowType ==
  ASSUME NEW list \in Seq(Messages)
  PROVE  Window(list) \in Seq(Messages)
<1> DEFINE first == IF Len(list) > RecentMessages
                    THEN Len(list) - RecentMessages + 1 ELSE 1
<1>1. first \in 1..(Len(list) + 1)
  BY WindowIsNat
<1>2. SubSeq(list, first, Len(list)) \in Seq(Messages)
  BY <1>1
<1> QED BY <1>2 DEF Window

(***************************************************************************)
(* Assigning ids and stripping them for the Agent keep a list a list.      *)
(***************************************************************************)
LEMMA ListTypes ==
  ASSUME NEW list \in Seq(Messages)
  PROVE  WithIds(list) \in Seq(Messages) /\ ForAgent(list) \in Seq(Entries)
<1>1. \A i \in DOMAIN list : list[i] \in Messages
  OBVIOUS
<1>2. \A i \in DOMAIN list : [list[i] EXCEPT !.hasId = TRUE] \in Messages
  BY <1>1, MessageTypes
<1>3. DOMAIN list = 1..Len(list) /\ Len(list) \in Nat
  OBVIOUS
<1>4. WithIds(list) \in Seq(Messages)
  <2> DEFINE f(i) == [list[i] EXCEPT !.hasId = TRUE]
  <2>1. \A i \in 1..Len(list) : f(i) \in Messages
    BY <1>2, <1>3
  <2> HIDE DEF f
  <2>2. [i \in 1..Len(list) |-> f(i)] \in Seq(Messages)
    BY <2>1, <1>3
  <2> QED BY <2>2, <1>3 DEF WithIds, f
<1>5. ForAgent(list) \in Seq(Entries)
  <2>1. \A i \in 1..Len(list) : Entry(list[i]) \in Entries
    BY <1>1, <1>3, MessageTypes
  <2>2. [i \in 1..Len(list) |-> Entry(list[i])] \in Seq(Entries)
    BY <2>1, <1>3
  <2> QED BY <2>2, <1>3 DEF ForAgent
<1> QED BY <1>4, <1>5

(***************************************************************************)
(* A list without its last message, and what the Agent's list stands for.  *)
(***************************************************************************)
LEMMA FrontType ==
  ASSUME NEW list \in Seq(Messages)
  PROVE  Front(list) \in Seq(Messages)
  BY DEF Front

\* A message appended to a list makes a list that is not empty.
LEMMA AppendType ==
  ASSUME NEW list \in Seq(Messages), NEW m \in Messages
  PROVE  Append(list, m) \in Seq(Messages) /\ Append(list, m) # <<>>
  BY AppendProperties

\* A summary of the Agent's history is a history of one entry.
LEMMA SeenType ==
  ASSUME NEW entries \in Seq(Entries)
  PROVE  <<Seen(entries)>> \in Seq(Entries)
<1>1. \A i \in DOMAIN entries : entries[i] \in Entries
  OBVIOUS
<1>2. Seen(entries) \in Entries
  BY <1>1 DEF Seen, Entries
<1> QED BY <1>2

\* The last message of a list that is not empty.
LEMMA LastType ==
  ASSUME NEW list \in Seq(Messages), list # <<>>
  PROVE  Last(list) \in Messages
  BY DEF Last

\* The text given to the semantic layer has an author.
LEMMA LastUserTextType ==
  ASSUME NEW list \in Seq(Messages)
  PROVE  LastUserText(list) \subseteq Authors
<1>1. \A i \in DOMAIN list : list[i] \in Messages
  OBVIOUS
<1>2. \A m \in Messages : m.by \in Authors
  BY DEF Messages
<1> QED BY <1>1, <1>2 DEF LastUserText

-----------------------------------------------------------------------------
(***************************************************************************)
(* The types, in the parts that a step disturbs separately.                *)
(***************************************************************************)
Pcs == {"idle"} \cup Running \cup Over
Tolds == {"none", "refused", "error", "interrupt", "cancelled", "done"}
Ends == {"none", "failed", "dropped", "interrupt", "cancelled", "done"}

RowOK == row \in Rows \cup {NoRow}
KeysOK ==
  /\ cache \in Seq(Messages) \cup {NoCache}
  /\ lock \in Requests \cup {Free}
  /\ lapsed \subseteq Requests
  /\ paused \subseteq Requests
ControlOK ==
  /\ kind \in [Requests -> Kinds]
  /\ pc \in [Requests -> Pcs]
  /\ told \in [Requests -> Tolds]
  /\ agent \in [Requests -> Ends]
GenOK == gen \in [Requests -> Gens]

\* The parts together are TypeOK.
LEMMA TypeParts == TypeOK <=> RowOK /\ KeysOK /\ ControlOK /\ GenOK
  BY DEF TypeOK, RowOK, KeysOK, ControlOK, GenOK, Pcs, Tolds, Ends

(***************************************************************************)
(* A write to the locals of one generator, or to one of its fields, keeps  *)
(* the types of all of them.                                               *)
(***************************************************************************)
LEMMA GenUpdates ==
  ASSUME GenOK, NEW r \in Requests
  PROVE  /\ gen[r].held \in Seq(Messages)
         /\ gen[r].llm \in Seq(Entries)
         /\ gen[r].sent \in Seq(Entries)
         /\ gen[r].phase \in Phases
         /\ [gen EXCEPT ![r] = NoGen] \in [Requests -> Gens]
         /\ \A phase \in Phases :
              [gen EXCEPT ![r].phase = phase] \in [Requests -> Gens]
         /\ \A phase \in Phases, list \in Seq(Messages) :
              [gen EXCEPT ![r].phase = phase, ![r].held = list]
                \in [Requests -> Gens]
         /\ \A entries \in Seq(Entries) :
              /\ [gen EXCEPT ![r].llm = entries] \in [Requests -> Gens]
              /\ [gen EXCEPT ![r].sent = entries] \in [Requests -> Gens]
<1>1. gen[r] \in Gens
  BY DEF GenOK
<1>2. /\ gen[r].held \in Seq(Messages)
      /\ gen[r].llm \in Seq(Entries)
      /\ gen[r].sent \in Seq(Entries)
      /\ gen[r].phase \in Phases
  BY <1>1 DEF Gens
<1>3. NoGen \in Gens
  BY DEF NoGen, Gens, Phases
<1>4. \A g \in Gens : [gen EXCEPT ![r] = g] \in [Requests -> Gens]
  BY DEF GenOK
<1>5. ASSUME NEW phase \in Phases
      PROVE  [gen EXCEPT ![r].phase = phase] \in [Requests -> Gens]
  <2>1. [gen[r] EXCEPT !.phase = phase] \in Gens
    BY <1>1 DEF Gens
  <2> QED BY <2>1 DEF GenOK
<1>6. ASSUME NEW phase \in Phases, NEW list \in Seq(Messages)
      PROVE  [gen EXCEPT ![r].phase = phase, ![r].held = list]
               \in [Requests -> Gens]
  <2>1. [gen[r] EXCEPT !.phase = phase, !.held = list] \in Gens
    BY <1>1 DEF Gens
  <2> QED BY <2>1 DEF GenOK
<1>7. ASSUME NEW entries \in Seq(Entries)
      PROVE  /\ [gen EXCEPT ![r].llm = entries] \in [Requests -> Gens]
             /\ [gen EXCEPT ![r].sent = entries] \in [Requests -> Gens]
  <2>1. /\ [gen[r] EXCEPT !.llm = entries] \in Gens
        /\ [gen[r] EXCEPT !.sent = entries] \in Gens
    BY <1>1 DEF Gens
  <2> QED BY <2>1 DEF GenOK
<1> QED BY <1>2, <1>3, <1>4, <1>5, <1>6, <1>7

(***************************************************************************)
(* What the stores return, and what a write leaves in the row.             *)
(***************************************************************************)
LEMMA RowReads ==
  ASSUME RowOK
  PROVE  /\ History \in Seq(Messages)
         /\ Llm \in Seq(Entries) \cup {NoLlm}
         /\ \A list \in Seq(Messages) : AgentMessages(list) \in Seq(Entries)
  BY ListTypes DEF RowOK, Rows, History, Llm, AgentMessages

\* Each UPDATE and the upsert leave a row, or none if there was none.
LEMMA RowWrites ==
  ASSUME RowOK
  PROVE  /\ \A list \in Seq(Messages) : Upsert(list) \in Rows
         /\ \A entries \in Seq(Entries) \cup {NoLlm} :
              SetLlm(entries) \in Rows \cup {NoRow}
         /\ row # NoRow =>
              /\ \A r \in Requests : [row EXCEPT !.usage = @ \cup {r}] \in Rows
              /\ \A texts \in SUBSET Authors :
                   [row EXCEPT !.memory = @ \cup texts] \in Rows
<1>1. CASE row = NoRow
  BY <1>1 DEF Upsert, SetLlm, Rows
<1>2. CASE row # NoRow
  <2>1. row \in Rows
    BY <1>2 DEF RowOK
  <2>2. /\ \A list \in Seq(Messages) : [row EXCEPT !.messages = list] \in Rows
        /\ \A entries \in Seq(Entries) \cup {NoLlm} :
             [row EXCEPT !.llm = entries] \in Rows
    BY <2>1 DEF Rows
  <2>3. \A r \in Requests : [row EXCEPT !.usage = @ \cup {r}] \in Rows
    BY <2>1 DEF Rows
  <2>4. \A texts \in SUBSET Authors : [row EXCEPT !.memory = @ \cup texts] \in Rows
    BY <2>1 DEF Rows
  <2> QED BY <1>2, <2>2, <2>3, <2>4 DEF Upsert, SetLlm
<1> QED BY <1>1, <1>2

-----------------------------------------------------------------------------
(***************************************************************************)
(* Which steps write what: every other step of the system leaves it alone. *)
(***************************************************************************)
WritesRow(r) ==
  \/ Save(r) \/ ClearLlm(r) \/ LlmWrite(r) \/ Memory(r) \/ Usage(r)
  \/ Install(r) \/ Evict(r)

WritesGen(r) ==
  \/ StartEdited(r) \/ StartResumed(r) \/ Load(r) \/ Adopt(r) \/ Ask(r)
  \/ Truncate(r) \/ Viewed(r) \/ ClearLlm(r) \/ LlmRead(r) \/ Context(r)
  \/ Reload(r) \/ Source(r) \/ CompactSkipped(r) \/ Install(r) \/ Finish(r)
  \/ Raise(r) \/ Crash(r)

\* A step is one request's, Redis's, or a stutter.
LEMMA StepCases ==
  ASSUME [Next]_vars
  PROVE  \/ \E r \in Requests : Arrive(r) \/ Step(r) \/ Fault(r)
         \/ Lapse \/ CacheExpire
         \/ UNCHANGED vars
  BY DEF Next

\* The row changes only by the steps of WritesRow.
LEMMA RowWriters ==
  ASSUME [Next]_vars
  PROVE  row' = row \/ \E r \in Requests : WritesRow(r)
<1>1. ASSUME NEW r \in Requests, Arrive(r) PROVE row' = row \/ WritesRow(r)
  BY <1>1 DEF Arrive, Begin, Refuse, Get, WritesRow, stores
<1>2. ASSUME NEW r \in Requests, Step(r) PROVE row' = row \/ WritesRow(r)
  BY <1>2 DEF Step, WritesRow, stores, StartTurn, StartEdited, StartResumed,
    ResumeUnknown, Load, LoadNothing, Adopt, WriteCache, Ask, Truncate,
    NothingToEdit, Viewed, LlmRead, Context, AgentDone, AgentPauses,
    AgentCancels, AgentFails, AgentDrops, Reload, Source, CompactDone,
    CompactSkipped, CompactFails, Finish, DropCache
<1>3. ASSUME NEW r \in Requests, Fault(r) PROVE row' = row
  BY <1>3 DEF Fault, Raise, RaiseInBody, RaiseInHandler, RaiseInRelease,
    RaiseOutsideRun, Crash, ClientGone, stores
<1>4. Lapse \/ CacheExpire \/ UNCHANGED vars => row' = row
  BY DEF Lapse, CacheExpire, vars
<1> QED BY <1>1, <1>2, <1>3, <1>4, StepCases

\* The locals of a generator change only by the steps of WritesGen.
LEMMA GenWriters ==
  ASSUME [Next]_vars
  PROVE  gen' = gen \/ \E r \in Requests : WritesGen(r)
<1>1. ASSUME NEW r \in Requests, Arrive(r) PROVE gen' = gen
  BY <1>1 DEF Arrive, Begin, Refuse, Get, Evict
<1>2. ASSUME NEW r \in Requests, Step(r) PROVE gen' = gen \/ WritesGen(r)
  BY <1>2 DEF Step, WritesGen, StartTurn, ResumeUnknown, LoadNothing,
    WriteCache, Save, NothingToEdit, LlmWrite, AgentDone, AgentPauses,
    AgentCancels, AgentFails, AgentDrops, Memory, Usage, CompactDone,
    CompactFails, DropCache
<1>3. ASSUME NEW r \in Requests, Fault(r) PROVE gen' = gen \/ WritesGen(r)
  BY <1>3 DEF Fault, ClientGone, WritesGen
<1>4. Lapse \/ CacheExpire \/ UNCHANGED vars => gen' = gen
  BY DEF Lapse, CacheExpire, vars
<1> QED BY <1>1, <1>2, <1>3, <1>4, StepCases

-----------------------------------------------------------------------------
(***************************************************************************)
(* Where a request can be. One that takes no lock only reads or writes     *)
(* back ids, or deletes. A list that is about to be written, or was and    *)
(* goes on to the Agent's history, is not empty. What is stored and        *)
(* counted as an answer has been earned.                                   *)
(***************************************************************************)
Unlocked(r) ==
  /\ pc[r] \in {"idle", "load", "adopt", "cache", "save", "ready", "drop",
                "ended", "dead"}
  /\ gen[r].phase \in {"open", "migrate"}

Writing(r) ==
  /\ pc[r] \in {"cache", "save"} => gen[r].phase # "open"
  /\ pc[r] \in {"cache", "save"} /\ gen[r].phase # "migrate" =>
       gen[r].held # <<>>
  /\ pc[r] \in {"llmRead", "llmWrite"} =>
       gen[r].phase \in {"question", "reply"} /\ gen[r].held # <<>>

Earned(r) ==
  /\ pc[r] \in {"idle", "load", "adopt", "ready", "clear", "body", "source",
                "context", "agent", "compacting"} => agent[r] = "none"
  /\ pc[r] \in {"cache", "save", "llmRead", "llmWrite"} =>
       agent[r] = IF gen[r].phase = "reply" THEN "done" ELSE "none"
  /\ pc[r] \in {"reload", "install", "memory"} => agent[r] = "done"
  /\ pc[r] = "usage" => agent[r] \in {"interrupt", "cancelled", "done"}

Route(r) ==
  /\ kind[r] \notin LockKinds => Unlocked(r)
  /\ pc[r] = "drop" => kind[r] \notin LockKinds
  /\ Writing(r)
  /\ Earned(r)

Routes == \A r \in Requests : Route(r)

IInv == TypeOK /\ Routes

\* The invariant holds before the first request.
LEMMA InitIInv == Init => IInv
<1> SUFFICES ASSUME Init PROVE IInv
  OBVIOUS
<1>1. RowOK /\ KeysOK
  BY RowsAreRows DEF Init, RowOK, KeysOK
<1>2. ControlOK
  BY DEF Init, ControlOK, Pcs, Tolds, Ends
<1>3. GenOK
  BY DEF Init, GenOK, Gens, NoGen, Phases
<1>4. Routes
  BY DEF Init, Routes, Route, Unlocked, Writing, Earned, NoGen
<1> QED BY <1>1, <1>2, <1>3, <1>4, TypeParts DEF IInv

(***************************************************************************)
(* The row keeps its type: what is written is a list some generator held.  *)
(***************************************************************************)
LEMMA StepRow == IInv /\ [Next]_vars => RowOK'
<1> SUFFICES ASSUME IInv, [Next]_vars PROVE RowOK'
  OBVIOUS
<1>0. RowOK /\ ControlOK /\ GenOK
  BY TypeParts DEF IInv
<1>1. ASSUME NEW r \in Requests, Save(r) PROVE RowOK'
  BY <1>0, <1>1, RowWrites, GenUpdates DEF Save, RowOK
<1>2. ASSUME NEW r \in Requests, ClearLlm(r) PROVE RowOK'
  BY <1>0, <1>2, RowWrites DEF ClearLlm, RowOK
<1>3. ASSUME NEW r \in Requests, LlmWrite(r) PROVE RowOK'
  <2>1. gen[r].held # <<>>
    BY <1>3 DEF LlmWrite, Go, IInv, Routes, Route, Writing
  <2>2. Entry(Last(gen[r].held)) \in Entries
    BY <1>0, <2>1, GenUpdates, LastType, MessageTypes
  <2>3. Append(gen[r].llm, Entry(Last(gen[r].held))) \in Seq(Entries)
    BY <1>0, <2>2, GenUpdates
  <2> QED BY <1>0, <1>3, <2>3, RowWrites DEF LlmWrite, RowOK
<1>4. ASSUME NEW r \in Requests, Memory(r) PROVE RowOK'
  <2>1. gen[r].held \in Seq(Messages)
    BY <1>0, GenUpdates
  <2>2. LastUserText(gen[r].held) \in SUBSET Authors
    BY <2>1, LastUserTextType
  <2>3. row # NoRow =>
          [row EXCEPT !.memory = @ \cup LastUserText(gen[r].held)] \in Rows
    BY <1>0, <2>2, RowWrites
  <2> QED BY <1>0, <1>4, <2>3 DEF Memory, RowOK
<1>5. ASSUME NEW r \in Requests, Usage(r) PROVE RowOK'
  BY <1>0, <1>5, RowWrites DEF Usage, RowOK
<1>6. ASSUME NEW r \in Requests, Install(r) PROVE RowOK'
  BY <1>0, <1>6, RowWrites, GenUpdates, SeenType DEF Install, RowOK
<1>7. ASSUME NEW r \in Requests, Evict(r) PROVE RowOK'
  BY <1>7 DEF Evict, RowOK
<1> QED
  BY <1>0, <1>1, <1>2, <1>3, <1>4, <1>5, <1>6, <1>7, RowWriters
  DEF WritesRow, RowOK

(***************************************************************************)
(* The locals of every generator keep their types.                         *)
(***************************************************************************)
LEMMA StepGen == IInv /\ [Next]_vars => GenOK'
<1> SUFFICES ASSUME IInv, [Next]_vars PROVE GenOK'
  OBVIOUS
<1>0. RowOK /\ ControlOK /\ GenOK
  BY TypeParts DEF IInv
<1> USE DEF GenOK
<1>a. ASSUME NEW r \in Requests, NEW phase \in Phases,
             NEW list \in Seq(Messages), Keep(r, phase, list)
      PROVE  GenOK'
  BY <1>0, <1>a, GenUpdates DEF Keep
<1>b. {"open", "migrate", "question", "truncate", "reply"} \subseteq Phases
  BY DEF Phases
<1>c. ASSUME NEW r \in Requests
      PROVE  /\ Question(r) \in Messages
             /\ Answer(r) \in Messages
             /\ gen[r].held \in Seq(Messages)
  BY <1>0, MessageTypes, GenUpdates
<1>1. ASSUME NEW r \in Requests, StartEdited(r) PROVE GenOK'
  BY <1>0, <1>1, GenUpdates, ListTypes DEF StartEdited
<1>2. ASSUME NEW r \in Requests, StartResumed(r) \/ ClearLlm(r) PROVE GenOK'
  <2>1. [gen EXCEPT ![r].phase = "reply"] \in [Requests -> Gens]
    BY <1>0, <1>b, GenUpdates
  <2> QED BY <1>2, <2>1 DEF StartResumed, ClearLlm
<1>3. ASSUME NEW r \in Requests, Load(r) PROVE GenOK'
  BY <1>0, <1>3, <1>a, <1>b, RowReads, ListTypes DEF Load
<1>4. ASSUME NEW r \in Requests, Adopt(r) PROVE GenOK'
  BY <1>0, <1>4, <1>a, <1>b, GenUpdates DEF Adopt
<1>5. ASSUME NEW r \in Requests, Ask(r) PROVE GenOK'
  <2>1. Append(gen[r].held, Question(r)) \in Seq(Messages)
    BY <1>c
  <2> QED BY <1>5, <1>a, <1>b, <2>1 DEF Ask
<1>6. ASSUME NEW r \in Requests, Truncate(r) PROVE GenOK'
  <2>1. PICK i \in DOMAIN gen[r].held :
          Keep(r, "truncate",
               Append(SubSeq(gen[r].held, 1, i - 1), Question(r)))
    BY <1>6 DEF Truncate
  <2>2. gen[r].held \in Seq(Messages)
    BY <1>0, GenUpdates
  <2>3. SubSeq(gen[r].held, 1, i - 1) \in Seq(Messages)
    BY <2>2
  <2>4. Append(SubSeq(gen[r].held, 1, i - 1), Question(r)) \in Seq(Messages)
    BY <2>3, <1>c
  <2> QED BY <1>a, <1>b, <2>1, <2>4
<1>7. ASSUME NEW r \in Requests, Viewed(r) \/ Finish(r) \/ Crash(r)
      PROVE  GenOK'
  BY <1>0, <1>7, GenUpdates DEF Viewed, Finish, Crash
<1>8. ASSUME NEW r \in Requests, LlmRead(r) PROVE GenOK'
  <2>1. <<>> \in Seq(Entries)
    OBVIOUS
  <2> QED BY <1>0, <1>8, <2>1, RowReads, GenUpdates DEF LlmRead
<1>9. ASSUME NEW r \in Requests, Context(r) PROVE GenOK'
  BY <1>0, <1>9, RowReads, GenUpdates DEF Context
<1>10. ASSUME NEW r \in Requests, Reload(r) PROVE GenOK'
  <2>1. Append(History, Answer(r)) \in Seq(Messages)
    BY <1>0, <1>c, RowReads
  <2> QED BY <1>10, <1>a, <1>b, <2>1 DEF Reload
<1>11. ASSUME NEW r \in Requests, Source(r) PROVE GenOK'
  <2>1. AgentMessages(Front(gen[r].held)) \in Seq(Entries)
    BY <1>0, RowReads, GenUpdates, FrontType
  <2> QED BY <1>0, <1>11, <2>1, GenUpdates DEF Source
<1>12. ASSUME NEW r \in Requests, CompactSkipped(r) \/ Install(r)
       PROVE  GenOK'
  <2>1. Append(gen[r].held, Answer(r)) \in Seq(Messages)
    BY <1>c
  <2> QED BY <1>12, <1>a, <1>b, <2>1 DEF CompactSkipped, Install, Notice
<1>13. ASSUME NEW r \in Requests, Raise(r) PROVE GenOK'
  BY <1>0, <1>13, GenUpdates
  DEF Raise, RaiseInBody, RaiseInHandler, RaiseInRelease, RaiseOutsideRun
<1> QED
  BY <1>0, <1>1, <1>2, <1>3, <1>4, <1>5, <1>6, <1>7, <1>8, <1>9, <1>10,
     <1>11, <1>12, <1>13, GenWriters
  DEF WritesGen

(***************************************************************************)
(* The keys of Redis and the Agent's suspended runs keep their types.      *)
(***************************************************************************)
WritesKeys(r) ==
  \/ Begin(r) \/ StartResumed(r) \/ WriteCache(r) \/ AgentPauses(r)
  \/ Finish(r) \/ DropCache(r)

keys == <<cache, lock, lapsed, paused>>

\* The keys change by the steps of WritesKeys and by their expiry.
LEMMA KeyWriters ==
  ASSUME [Next]_vars
  PROVE  \/ keys' = keys
         \/ \E r \in Requests : WritesKeys(r)
         \/ Lapse
         \/ CacheExpire
<1>1. ASSUME NEW r \in Requests, Arrive(r) PROVE keys' = keys \/ WritesKeys(r)
  BY <1>1 DEF Arrive, Refuse, Get, Evict, WritesKeys, keys, stores
<1>2. ASSUME NEW r \in Requests, Step(r) PROVE keys' = keys \/ WritesKeys(r)
  BY <1>2 DEF Step, WritesKeys, keys, stores, StartTurn, StartEdited,
    ResumeUnknown, Load, LoadNothing, Adopt, Save, Ask, Truncate,
    NothingToEdit, Viewed, ClearLlm, LlmRead, LlmWrite, Context, AgentDone,
    AgentCancels, AgentFails, AgentDrops, Reload, Memory, Usage, Source,
    CompactDone, CompactSkipped, CompactFails, Install
<1>3. ASSUME NEW r \in Requests, Fault(r) PROVE keys' = keys
  BY <1>3 DEF Fault, Raise, RaiseInBody, RaiseInHandler, RaiseInRelease,
    RaiseOutsideRun, Crash, ClientGone, stores, keys
<1>4. UNCHANGED vars => keys' = keys
  BY DEF vars, keys
<1> QED BY <1>1, <1>2, <1>3, <1>4, StepCases

\* The hash, the lock and the suspended runs keep their types.
LEMMA StepKeys == IInv /\ [Next]_vars => KeysOK'
<1> SUFFICES ASSUME IInv, [Next]_vars PROVE KeysOK'
  OBVIOUS
<1>0. KeysOK /\ GenOK
  BY TypeParts DEF IInv
<1> USE DEF KeysOK
<1>1. ASSUME NEW r \in Requests, Begin(r) PROVE KeysOK'
  BY <1>0, <1>1 DEF Begin
<1>2. ASSUME NEW r \in Requests, StartResumed(r) PROVE KeysOK'
  BY <1>0, <1>2 DEF StartResumed
<1>3. ASSUME NEW r \in Requests, WriteCache(r) PROVE KeysOK'
  BY <1>0, <1>3, GenUpdates, WindowType DEF WriteCache
<1>4. ASSUME NEW r \in Requests, AgentPauses(r) PROVE KeysOK'
  BY <1>0, <1>4 DEF AgentPauses
<1>5. ASSUME NEW r \in Requests, Finish(r) PROVE KeysOK'
  BY <1>0, <1>5 DEF Finish, Released
<1>6. ASSUME NEW r \in Requests, DropCache(r) PROVE KeysOK'
  BY <1>0, <1>6 DEF DropCache
<1>7. CASE Lapse
  BY <1>0, <1>7 DEF Lapse
<1>8. CASE CacheExpire
  BY <1>0, <1>8 DEF CacheExpire
<1>9. CASE keys' = keys
  BY <1>0, <1>9 DEF keys
<1> QED
  BY <1>1, <1>2, <1>3, <1>4, <1>5, <1>6, <1>7, <1>8, <1>9, KeyWriters
  DEF WritesKeys

(***************************************************************************)
(* Control keeps its types: every step goes somewhere, and a client is     *)
(* told of an end that the Agent can report.                               *)
(***************************************************************************)
LEMMA AfterTypes ==
  ASSUME NEW r \in Requests
  PROVE  AfterSave(r) \in Running /\ AfterAppend(r) \in Running
  BY DEF AfterSave, AfterAppend, Running, StoreCalls

\* Kinds, places, and what the client and the Agent said keep theirs.
LEMMA StepControl == IInv /\ [Next]_vars => ControlOK'
<1> SUFFICES ASSUME IInv, [Next]_vars PROVE ControlOK'
  OBVIOUS
<1>0. ControlOK
  BY TypeParts DEF IInv
<1> USE <1>0 DEF ControlOK, Pcs, Running, StoreCalls, Over, Tolds, Ends, Go, Tell
<1>1. ASSUME NEW r \in Requests, Arrive(r) PROVE ControlOK'
  BY <1>1 DEF Arrive, Begin, Refuse, Get, Evict
<1>2. ASSUME NEW r \in Requests,
             \/ StartTurn(r) \/ StartEdited(r) \/ StartResumed(r)
             \/ ResumeUnknown(r) \/ Load(r) \/ LoadNothing(r)
      PROVE  ControlOK'
  BY <1>2 DEF StartTurn, StartEdited, StartResumed, ResumeUnknown, Load,
    LoadNothing
<1>3. ASSUME NEW r \in Requests,
             Adopt(r) \/ WriteCache(r) \/ Ask(r) \/ Truncate(r)
               \/ NothingToEdit(r) \/ Viewed(r) \/ ClearLlm(r)
      PROVE  ControlOK'
  BY <1>3 DEF Adopt, WriteCache, Ask, Truncate, NothingToEdit, Viewed, ClearLlm
<1>4. ASSUME NEW r \in Requests,
             Save(r) \/ LlmRead(r) \/ LlmWrite(r) \/ Context(r)
      PROVE  ControlOK'
  BY <1>4, AfterTypes DEF Save, LlmRead, LlmWrite, Context
<1>5. ASSUME NEW r \in Requests,
             AgentDone(r) \/ AgentPauses(r) \/ AgentCancels(r)
               \/ AgentFails(r) \/ AgentDrops(r)
      PROVE  ControlOK'
  BY <1>5 DEF AgentDone, AgentPauses, AgentCancels, AgentFails, AgentDrops
<1>6. ASSUME NEW r \in Requests,
             Reload(r) \/ Memory(r) \/ Usage(r) \/ Source(r)
      PROVE  ControlOK'
  <2>1. pc[r] = "usage" => agent[r] \in {"interrupt", "cancelled", "done"}
    BY DEF IInv, Routes, Route, Earned
  <2> QED BY <1>6, <2>1 DEF Reload, Memory, Usage, Source
<1>7. ASSUME NEW r \in Requests,
             CompactDone(r) \/ CompactSkipped(r) \/ CompactFails(r)
               \/ Install(r) \/ Finish(r) \/ DropCache(r)
      PROVE  ControlOK'
  BY <1>7 DEF CompactDone, CompactSkipped, CompactFails, Install, Finish,
    DropCache
<1>8. ASSUME NEW r \in Requests, Fault(r) PROVE ControlOK'
  BY <1>8 DEF Fault, Raise, RaiseInBody, RaiseInHandler, RaiseInRelease,
    RaiseOutsideRun, Crash, ClientGone
<1>9. Lapse \/ CacheExpire \/ UNCHANGED vars => ControlOK'
  BY DEF Lapse, CacheExpire, vars
<1> QED
  BY <1>1, <1>2, <1>3, <1>4, <1>5, <1>6, <1>7, <1>8, <1>9, StepCases DEF Step

(***************************************************************************)
(* A step of one request leaves the others where they are, with the locals *)
(* they had and the same outcome of their runs.                            *)
(***************************************************************************)
LEMMA OthersStay ==
  ASSUME NEW r \in Requests, NEW q \in Requests, q # r,
         Arrive(r) \/ Step(r) \/ Fault(r), TypeOK
  PROVE  /\ kind' = kind
         /\ pc'[q] = pc[q] /\ gen'[q] = gen[q] /\ agent'[q] = agent[q]
<1> USE DEF TypeOK, Go
<1>1. CASE Arrive(r)
  BY <1>1 DEF Arrive, Begin, Refuse, Get, Evict
<1>2. CASE Step(r)
  BY <1>2 DEF Step, Keep, Notice, StartTurn, StartEdited, StartResumed,
    ResumeUnknown, Load, LoadNothing, Adopt, WriteCache, Save, Ask, Truncate,
    NothingToEdit, Viewed, ClearLlm, LlmRead, LlmWrite, Context, AgentDone,
    AgentPauses, AgentCancels, AgentFails, AgentDrops, Reload, Memory, Usage,
    Source, CompactDone, CompactSkipped, CompactFails, Install, Finish,
    DropCache
<1>3. CASE Fault(r)
  BY <1>3 DEF Fault, Raise, RaiseInBody, RaiseInHandler, RaiseInRelease,
    RaiseOutsideRun, Crash, ClientGone
<1> QED BY <1>1, <1>2, <1>3

(***************************************************************************)
(* What a request asks for is decided when it is made.                     *)
(***************************************************************************)
LEMMA KindStays ==
  ASSUME [Next]_vars
  PROVE  kind' = kind
<1>1. ASSUME NEW r \in Requests, Arrive(r) PROVE kind' = kind
  BY <1>1 DEF Arrive, Begin, Refuse, Get, Evict
<1>2. ASSUME NEW r \in Requests, Step(r) PROVE kind' = kind
  BY <1>2 DEF Step, StartTurn, StartEdited, StartResumed,
    ResumeUnknown, Load, LoadNothing, Adopt, WriteCache, Save, Ask, Truncate,
    NothingToEdit, Viewed, ClearLlm, LlmRead, LlmWrite, Context, AgentDone,
    AgentPauses, AgentCancels, AgentFails, AgentDrops, Reload, Memory, Usage,
    Source, CompactDone, CompactSkipped, CompactFails, Install, Finish,
    DropCache
<1>3. ASSUME NEW r \in Requests, Fault(r) PROVE kind' = kind
  BY <1>3 DEF Fault, Raise, RaiseInBody, RaiseInHandler, RaiseInRelease,
    RaiseOutsideRun, Crash, ClientGone
<1>4. Lapse \/ CacheExpire \/ UNCHANGED vars => kind' = kind
  BY DEF Lapse, CacheExpire, vars
<1> QED BY <1>1, <1>2, <1>3, <1>4, StepCases

(***************************************************************************)
(* So Routes is preserved if every step preserves the Route of its own     *)
(* request.                                                                *)
(***************************************************************************)
LEMMA StepRoutes == IInv /\ [Next]_vars => Routes'
<1> SUFFICES ASSUME IInv, [Next]_vars PROVE Routes'
  OBVIOUS
<1>0. TypeOK /\ Routes
  BY DEF IInv
<1>a. ASSUME NEW r \in Requests PROVE Route(r)
  BY <1>0 DEF Routes
<1>b. /\ pc \in [Requests -> Pcs]
      /\ gen \in [Requests -> Gens]
      /\ agent \in [Requests -> Ends]
  BY <1>0, TypeParts DEF ControlOK, GenOK
<1>c. ASSUME NEW r \in Requests
      PROVE  gen[r].held \in Seq(Messages) /\ gen[r] \in Gens
  BY <1>b DEF Gens
<1>d. ASSUME NEW r \in Requests, NEW list \in Seq(Messages)
      PROVE  /\ Append(list, Question(r)) # <<>>
             /\ Append(list, Answer(r)) # <<>>
  BY MessageTypes, AppendType
<1> USE <1>a, <1>b, <1>c
    DEF Route, Unlocked, Writing, Earned, Go, Keep, Notice, NoGen, Gens
<1>1. ASSUME NEW r \in Requests, Arrive(r) PROVE Route(r)'
  BY <1>1 DEF Arrive, Begin, Refuse, Get, Evict
<1>2. ASSUME NEW r \in Requests, StartTurn(r) \/ StartEdited(r)
      PROVE  Route(r)'
  BY <1>2 DEF StartTurn, StartEdited
<1>3. ASSUME NEW r \in Requests, StartResumed(r) \/ ResumeUnknown(r)
      PROVE  Route(r)'
  BY <1>3 DEF StartResumed, ResumeUnknown
<1>4. ASSUME NEW r \in Requests, Load(r) \/ LoadNothing(r)
      PROVE  Route(r)'
  BY <1>4 DEF Load, LoadNothing
<1>5. ASSUME NEW r \in Requests, Adopt(r) PROVE Route(r)'
  BY <1>5 DEF Adopt
<1>6. ASSUME NEW r \in Requests, WriteCache(r) PROVE Route(r)'
  BY <1>6 DEF WriteCache
<1>7. ASSUME NEW r \in Requests, Save(r) PROVE Route(r)'
  BY <1>7 DEF Save, AfterSave, Phases
<1>8. ASSUME NEW r \in Requests, Ask(r) PROVE Route(r)'
  <2>1. Append(gen[r].held, Question(r)) # <<>>
    BY <1>c, <1>d
  <2> QED BY <1>8, <2>1 DEF Ask
<1>9. ASSUME NEW r \in Requests, Truncate(r) PROVE Route(r)'
  <2>1. PICK i \in DOMAIN gen[r].held :
          Keep(r, "truncate",
               Append(SubSeq(gen[r].held, 1, i - 1), Question(r)))
    BY <1>9 DEF Truncate
  <2>2. SubSeq(gen[r].held, 1, i - 1) \in Seq(Messages)
    BY <1>c
  <2>3. Append(SubSeq(gen[r].held, 1, i - 1), Question(r)) # <<>>
    BY <2>2, <1>d
  <2> QED BY <1>9, <2>1, <2>3 DEF Truncate
<1>10. ASSUME NEW r \in Requests,
              NothingToEdit(r) \/ Viewed(r) \/ ClearLlm(r)
       PROVE  Route(r)'
  <2>1. CASE NothingToEdit(r)
    BY <2>1 DEF NothingToEdit
  <2>2. CASE Viewed(r)
    BY <2>2 DEF Viewed
  <2>3. CASE ClearLlm(r)
    BY <2>3 DEF ClearLlm
  <2> QED BY <1>10, <2>1, <2>2, <2>3
<1>11. ASSUME NEW r \in Requests, LlmRead(r) \/ LlmWrite(r) \/ Context(r)
       PROVE  Route(r)'
  <2>1. CASE LlmRead(r)
    BY <2>1 DEF LlmRead, AfterAppend
  <2>2. CASE LlmWrite(r)
    BY <2>2 DEF LlmWrite, AfterAppend
  <2>3. CASE Context(r)
    BY <2>3 DEF Context
  <2> QED BY <1>11, <2>1, <2>2, <2>3
<1>12. ASSUME NEW r \in Requests,
              AgentDone(r) \/ AgentPauses(r) \/ AgentCancels(r)
                \/ AgentFails(r) \/ AgentDrops(r)
       PROVE  Route(r)'
  <2>1. CASE AgentDone(r)
    BY <2>1 DEF AgentDone
  <2>2. CASE AgentPauses(r)
    BY <2>2 DEF AgentPauses
  <2>3. CASE AgentCancels(r)
    BY <2>3 DEF AgentCancels
  <2>4. CASE AgentFails(r)
    BY <2>4 DEF AgentFails
  <2>5. CASE AgentDrops(r)
    BY <2>5 DEF AgentDrops
  <2> QED BY <1>12, <2>1, <2>2, <2>3, <2>4, <2>5
<1>13. ASSUME NEW r \in Requests, Reload(r) PROVE Route(r)'
  <2>1. Append(History, Answer(r)) # <<>>
    BY <1>0, <1>d, RowReads, TypeParts
  <2> QED BY <1>13, <2>1 DEF Reload
<1>14. ASSUME NEW r \in Requests, Memory(r) \/ Usage(r) PROVE Route(r)'
  BY <1>14 DEF Memory, Usage
<1>15. ASSUME NEW r \in Requests,
              Source(r) \/ CompactDone(r) \/ CompactFails(r)
       PROVE  Route(r)'
  BY <1>15 DEF Source, CompactDone, CompactFails
<1>16. ASSUME NEW r \in Requests, CompactSkipped(r) \/ Install(r)
       PROVE  Route(r)'
  <2>1. Append(gen[r].held, Answer(r)) # <<>>
    BY <1>c, <1>d
  <2>2. CASE CompactSkipped(r)
    BY <2>1, <2>2 DEF CompactSkipped
  <2>3. CASE Install(r)
    BY <2>1, <2>3 DEF Install
  <2> QED BY <1>16, <2>2, <2>3
<1>17. ASSUME NEW r \in Requests, Finish(r) \/ DropCache(r)
       PROVE  Route(r)'
  BY <1>17 DEF Finish, DropCache
<1>18. ASSUME NEW r \in Requests, Fault(r) PROVE Route(r)'
  <2>1. CASE RaiseInBody(r)
    BY <2>1 DEF RaiseInBody
  <2>2. CASE RaiseInHandler(r)
    BY <2>2 DEF RaiseInHandler, InHandler
  <2>3. CASE RaiseInRelease(r)
    BY <2>3 DEF RaiseInRelease
  <2>4. CASE RaiseOutsideRun(r)
    BY <2>4 DEF RaiseOutsideRun
  <2>5. CASE Crash(r)
    BY <2>5 DEF Crash
  <2>6. CASE ClientGone(r)
    BY <2>6 DEF ClientGone
  <2> QED BY <1>18, <2>1, <2>2, <2>3, <2>4, <2>5, <2>6 DEF Fault, Raise
<1>19. ASSUME NEW r \in Requests, Step(r) PROVE Route(r)'
  BY <1>2, <1>3, <1>4, <1>5, <1>6, <1>7, <1>8, <1>9, <1>10, <1>11, <1>12,
     <1>13, <1>14, <1>15, <1>16, <1>17, <1>19
  DEF Step
<1>20. CASE \E r \in Requests : Arrive(r) \/ Step(r) \/ Fault(r)
  <2>1. PICK r \in Requests : Arrive(r) \/ Step(r) \/ Fault(r)
    BY <1>20
  <2>2. Route(r)'
    BY <2>1, <1>1, <1>18, <1>19
  <2>3. ASSUME NEW q \in Requests, q # r PROVE Route(q)'
    BY <1>0, <1>a, <2>1, <2>3, OthersStay
  <2> QED BY <2>2, <2>3 DEF Routes
<1>21. CASE Lapse \/ CacheExpire \/ UNCHANGED vars
  <2>1. kind' = kind /\ pc' = pc /\ gen' = gen /\ agent' = agent
    BY <1>21 DEF Lapse, CacheExpire, vars
  <2> QED BY <1>0, <2>1 DEF Routes
<1> QED BY <1>20, <1>21, StepCases

(***************************************************************************)
(* Types and routes hold in every behaviour.                               *)
(***************************************************************************)
LEMMA StepIInv == IInv /\ [Next]_vars => IInv'
<1> SUFFICES ASSUME IInv, [Next]_vars PROVE IInv'
  OBVIOUS
<1>1. RowOK' /\ KeysOK' /\ ControlOK' /\ GenOK'
  BY StepRow, StepKeys, StepControl, StepGen
<1>2. TypeOK'
  BY <1>1 DEF TypeOK, RowOK, KeysOK, ControlOK, GenOK, Pcs, Tolds, Ends
<1> QED BY <1>2, StepRoutes DEF IInv

\* Types and routes hold in every behaviour: no store is ever handed a
\* value of another shape, and no request is where its route does not lead.
THEOREM Inductive == Spec => []IInv
  BY InitIInv, StepIInv, PTL DEF Spec

(***************************************************************************)
(* TypeOK in every behaviour: what is written to the row, the hash and the *)
(* Agent's history is always a list of messages or entries, and the client *)
(* is told of an end that the run had.                                     *)
(***************************************************************************)
THEOREM TypeCorrect == Spec => []TypeOK
<1>1. IInv => TypeOK
  BY DEF IInv
<1> QED BY <1>1, Inductive, PTL

-----------------------------------------------------------------------------
(***************************************************************************)
(* ChatTurn implements GenerationLock. Seen through the lock, a step of a  *)
(* request is one of five things.                                          *)
(***************************************************************************)
LockStays == lock' = lock /\ lapsed' = lapsed

Inside(r) ==
  /\ kind[r] \notin LockKinds \/ (pc[r] \in Running /\ pc'[r] \in Running)
  /\ LockStays

Loses(r) ==
  /\ kind[r] \in LockKinds
  /\ pc[r] \in Running /\ pc'[r] \in {"lost", "dead"}
  /\ LockStays

\* Every step of a request is one of the five.
LEMMA LockView ==
  ASSUME IInv, NEW r \in Requests, Arrive(r) \/ Step(r) \/ Fault(r)
  PROVE  \/ Begin(r) \/ Refuse(r) \/ Inside(r) \/ Loses(r)
         \/ Finish(r) /\ kind[r] \in LockKinds
<1>0. pc \in [Requests -> Pcs] /\ gen \in [Requests -> Gens]
  BY TypeParts DEF IInv, ControlOK, GenOK
<1>1. Route(r)
  BY DEF IInv, Routes
<1> USE <1>0 DEF Inside, Loses, LockStays, Go, stores
<1>2. CASE Arrive(r)
  BY <1>2 DEF Arrive, Get, Evict
<1>3. CASE Step(r)
  <2>1. CASE StartTurn(r) \/ StartEdited(r) \/ StartResumed(r)
               \/ ResumeUnknown(r) \/ Load(r) \/ LoadNothing(r) \/ Adopt(r)
    BY <2>1 DEF StartTurn, StartEdited, StartResumed, ResumeUnknown, Load,
      LoadNothing, Adopt, Running, StoreCalls
  <2>2. CASE WriteCache(r) \/ Ask(r) \/ Truncate(r) \/ NothingToEdit(r)
               \/ Viewed(r) \/ ClearLlm(r)
    BY <2>2 DEF WriteCache, Ask, Truncate, NothingToEdit, Viewed, ClearLlm,
      Running, StoreCalls
  <2>3. CASE Save(r) \/ LlmRead(r) \/ LlmWrite(r) \/ Context(r)
    <3>1. AfterSave(r) \in Running /\ AfterAppend(r) \in Running
      BY AfterTypes
    <3> QED BY <2>3, <3>1 DEF Save, LlmRead, LlmWrite, Context, Running,
      StoreCalls
  <2>4. CASE AgentDone(r) \/ AgentPauses(r) \/ AgentCancels(r)
               \/ AgentFails(r) \/ AgentDrops(r)
    BY <2>4 DEF AgentDone, AgentPauses, AgentCancels, AgentFails, AgentDrops,
      Running, StoreCalls
  <2>5. CASE Reload(r) \/ Memory(r) \/ Usage(r) \/ Source(r)
               \/ CompactDone(r) \/ CompactSkipped(r) \/ CompactFails(r)
               \/ Install(r)
    BY <2>5 DEF Reload, Memory, Usage, Source, CompactDone, CompactSkipped,
      CompactFails, Install, Running, StoreCalls
  <2>6. CASE Finish(r)
    BY <1>1, <2>6 DEF Finish, Route, Unlocked
  <2>7. CASE DropCache(r)
    BY <1>1, <2>7 DEF DropCache, Route
  <2> QED BY <1>3, <2>1, <2>2, <2>3, <2>4, <2>5, <2>6, <2>7 DEF Step
<1>4. CASE Fault(r)
  <2>1. CASE RaiseInBody(r)
    BY <2>1 DEF RaiseInBody, Running, StoreCalls
  <2>2. CASE RaiseInHandler(r)
    BY <2>2 DEF RaiseInHandler, InHandler, Running
  <2>3. CASE RaiseInRelease(r)
    BY <2>3 DEF RaiseInRelease, Running, StoreCalls
  <2>4. CASE RaiseOutsideRun(r)
    BY <2>4 DEF RaiseOutsideRun
  <2>5. CASE Crash(r)
    BY <2>5 DEF Crash
  <2>6. CASE ClientGone(r)
    BY <2>6 DEF ClientGone, Running, StoreCalls
  <2> QED BY <1>4, <2>1, <2>2, <2>3, <2>4, <2>5, <2>6 DEF Fault, Raise
<1> QED BY <1>2, <1>3, <1>4

(***************************************************************************)
(* The stage of a request follows from its kind and its place.             *)
(***************************************************************************)
LEMMA StageOf ==
  ASSUME NEW r \in Requests
  PROVE  /\ kind[r] \notin LockKinds \/ pc[r] = "idle" => Stage(r) = "arriving"
         /\ kind[r] \in LockKinds /\ pc[r] \in Running => Stage(r) = "generating"
         /\ kind[r] \in LockKinds /\ pc[r] = "dead" => Stage(r) = "lost"
         /\ kind[r] \in LockKinds /\ pc[r] \in {"ended", "refused", "lost"} =>
              Stage(r) = pc[r]
  BY DEF Stage, Running, StoreCalls

(***************************************************************************)
(* Each of the five maps to a step of GenerationLock or to none.           *)
(***************************************************************************)
LEMMA BeginIsAcquire ==
  ASSUME IInv, NEW r \in Requests, Begin(r)
  PROVE  GL!Acquire(r)
<1>1. \A q \in Requests : q # r => pc'[q] = pc[q]
  BY OthersStay DEF Arrive, IInv
<1>2. kind' = kind /\ kind[r] \in LockKinds /\ pc[r] = "idle"
      /\ pc'[r] \in Running
  BY TypeParts DEF Begin, Go, Running, StoreCalls, IInv, ControlOK
<1>3. Stage(r) = "arriving" /\ Stage(r)' = "generating"
  BY <1>2 DEF Stage, Running, StoreCalls
<1>4. \A q \in Requests : q # r => Stage(q)' = Stage(q)
  BY <1>1, <1>2 DEF Stage
<1> QED BY <1>3, <1>4 DEF GL!Acquire, Begin

\* A 409 is a Refuse.
LEMMA RefuseIsRefuse ==
  ASSUME IInv, NEW r \in Requests, Refuse(r)
  PROVE  GL!Refuse(r)
<1>1. \A q \in Requests : q # r => pc'[q] = pc[q]
  BY OthersStay DEF Arrive, IInv
<1>2. kind' = kind /\ kind[r] \in LockKinds /\ pc[r] = "idle"
      /\ pc'[r] = "refused"
  BY TypeParts DEF Refuse, Go, IInv, ControlOK
<1>3. Stage(r) = "arriving" /\ Stage(r)' = "refused"
  BY <1>2 DEF Stage, Running, StoreCalls
<1>4. \A q \in Requests : q # r => Stage(q)' = Stage(q)
  BY <1>1, <1>2 DEF Stage
<1> QED BY <1>3, <1>4 DEF GL!Refuse, Refuse, stores

\* The release of a run that took the lock is an End.
LEMMA FinishIsEnd ==
  ASSUME IInv, NEW r \in Requests, Finish(r), kind[r] \in LockKinds
  PROVE  GL!End(r)
<1>1. \A q \in Requests : q # r => pc'[q] = pc[q]
  BY OthersStay DEF Step, IInv
<1>2. kind' = kind /\ pc[r] \in Running /\ pc'[r] = "ended"
  BY TypeParts DEF Finish, Go, Running, StoreCalls, IInv, ControlOK
<1>3. Stage(r) = "generating" /\ Stage(r)' = "ended"
  BY <1>2 DEF Stage, Running, StoreCalls
<1>4. \A q \in Requests : q # r => Stage(q)' = Stage(q)
  BY <1>1, <1>2 DEF Stage
<1> QED BY <1>3, <1>4 DEF GL!End, GL!Released, Finish, Released

\* A crash, or an error in a handler or a release, is a Lose.
LEMMA LosesIsLose ==
  ASSUME IInv, NEW r \in Requests, Arrive(r) \/ Step(r) \/ Fault(r),
         Loses(r), kind' = kind
  PROVE  GL!Lose(r)
<1>1. \A q \in Requests : q # r => pc'[q] = pc[q]
  BY OthersStay DEF IInv
<1>2. kind' = kind
  OBVIOUS
<1>3. Stage(r) = "generating" /\ Stage(r)' = "lost"
  BY <1>2 DEF Loses, Stage, Running, StoreCalls
<1>4. \A q \in Requests : q # r => Stage(q)' = Stage(q)
  BY <1>1, <1>2 DEF Stage
<1> QED BY <1>3, <1>4 DEF GL!Lose, Loses, LockStays

\* Everything else a request does is not seen at the lock.
LEMMA InsideIsStutter ==
  ASSUME IInv, NEW r \in Requests, Arrive(r) \/ Step(r) \/ Fault(r),
         Inside(r), kind' = kind
  PROVE  UNCHANGED GL!vars
<1>1. \A q \in Requests : q # r => pc'[q] = pc[q]
  BY OthersStay DEF IInv
<1>2. kind' = kind
  OBVIOUS
<1>3. Stage(r)' = Stage(r)
  BY <1>2 DEF Inside, Stage, Running, StoreCalls
<1>4. \A q \in Requests : Stage(q)' = Stage(q)
  BY <1>1, <1>2, <1>3 DEF Stage
<1> QED BY <1>4 DEF GL!vars, Inside, LockStays

(***************************************************************************)
(* The initial states map to initial states, the expiry of the key to the  *)
(* expiry of the key.                                                      *)
(***************************************************************************)
LEMMA InitIsInit == Init => GL!Init
  BY DEF Init, GL!Init, Stage

\* The expiry of the key is a Lapse.
LEMMA LapseIsLapse ==
  ASSUME Lapse
  PROVE  GL!Lapse("this")
<1>1. \A q \in Requests : Stage(q)' = Stage(q)
  BY DEF Lapse, Stage
<1> QED BY <1>1 DEF Lapse, GL!Lapse

\* So every step is one of GenerationLock or a stutter.
LEMMA StepIsStep == IInv /\ [Next]_vars => [GL!Next]_GL!vars
<1> SUFFICES ASSUME IInv, [Next]_vars PROVE [GL!Next]_GL!vars
  OBVIOUS
<1>1. ASSUME NEW r \in Requests, Arrive(r) \/ Step(r) \/ Fault(r)
      PROVE  [GL!Next]_GL!vars
  BY <1>1, KindStays, LockView, BeginIsAcquire, RefuseIsRefuse, FinishIsEnd, LosesIsLose,
     InsideIsStutter
  DEF GL!Next
<1>2. CASE Lapse
  BY <1>2, LapseIsLapse DEF GL!Next
<1>3. CASE CacheExpire \/ UNCHANGED vars
  <2>1. kind' = kind /\ pc' = pc /\ lock' = lock /\ lapsed' = lapsed
    BY <1>3 DEF CacheExpire, vars
  <2>2. \A q \in Requests : Stage(q)' = Stage(q)
    BY <2>1 DEF Stage
  <2> QED BY <2>1, <2>2 DEF GL!vars
<1> QED BY <1>1, <1>2, <1>3, StepCases

(***************************************************************************)
(* The request pipeline implements the lock: whatever posts, compactions,  *)
(* edits, resumes, GETs and deletions do, and however they fail, at the    *)
(* key gen:{id} they behave as GenerationLock says.                        *)
(***************************************************************************)
THEOREM Refinement == Spec => ImplementsLock
<1>1. Init => GL!Init
  BY InitIsInit
<1>2. IInv /\ [Next]_vars => [GL!Next]_GL!vars
  BY StepIsStep
<1> QED BY <1>1, <1>2, Inductive, PTL DEF Spec, ImplementsLock, GL!Spec

-----------------------------------------------------------------------------
(***************************************************************************)
(* No unearned reply. Every assistant message in a list, stored or held by *)
(* a generator, is older than the run or by a run the Agent has finished.  *)
(***************************************************************************)
Done == {r \in Requests : agent[r] = "done"}
Backed(list, done) ==
  \A i \in DOMAIN list :
    list[i].role = "assistant" /\ list[i].by # Old => list[i].by \in done

Earnings ==
  /\ row # NoRow => Backed(row.messages, Done)
  /\ \A r \in Requests : Backed(gen[r].held, Done)

(***************************************************************************)
(* The ways lists are made: a message at the end, a cut and a new message, *)
(* ids for all.                                                            *)
(***************************************************************************)
LEMMA BackedAppend ==
  ASSUME NEW list \in Seq(Messages), NEW done, Backed(list, done),
         NEW r \in Requests
  PROVE  /\ Backed(Append(list, Question(r)), done)
         /\ r \in done => Backed(Append(list, Answer(r)), done)
<1>1. ASSUME NEW m \in Messages,
             m.role = "assistant" /\ m.by # Old => m.by \in done
      PROVE  Backed(Append(list, m), done)
  <2>1. DOMAIN Append(list, m) = 1..(Len(list) + 1) /\ DOMAIN list = 1..Len(list)
    OBVIOUS
  <2>2. /\ Append(list, m)[Len(list) + 1] = m
        /\ \A i \in 1..Len(list) : Append(list, m)[i] = list[i]
    BY AppendProperties
  <2>3. \A i \in 1..(Len(list) + 1) : i = Len(list) + 1 \/ i \in 1..Len(list)
    OBVIOUS
  <2> QED BY <1>1, <2>1, <2>2, <2>3 DEF Backed
<1>2. Question(r).role # "assistant" /\ Answer(r).by = r
  BY DEF Question, Answer
<1> QED BY <1>1, <1>2, MessageTypes

\* An edit's cut keeps what is before it backed.
LEMMA BackedCut ==
  ASSUME NEW list \in Seq(Messages), NEW done, Backed(list, done),
         NEW i \in DOMAIN list
  PROVE  /\ SubSeq(list, 1, i - 1) \in Seq(Messages)
         /\ Backed(SubSeq(list, 1, i - 1), done)
<1>1. i \in 1..Len(list) /\ DOMAIN list = 1..Len(list)
  OBVIOUS
<1>2. SubSeq(list, 1, i - 1) \in Seq(Messages)
  OBVIOUS
<1>3. /\ DOMAIN SubSeq(list, 1, i - 1) = 1..(i - 1)
      /\ \A j \in 1..(i - 1) : SubSeq(list, 1, i - 1)[j] = list[j]
  BY <1>1
<1> QED BY <1>1, <1>2, <1>3 DEF Backed

\* Assigning ids changes neither role nor author.
LEMMA BackedIds ==
  ASSUME NEW list \in Seq(Messages), NEW done, Backed(list, done)
  PROVE  Backed(WithIds(list), done)
<1>1. \A i \in DOMAIN list : list[i] \in Messages
  OBVIOUS
<1>2. ASSUME NEW i \in DOMAIN list
      PROVE  /\ WithIds(list)[i].role = list[i].role
             /\ WithIds(list)[i].by = list[i].by
  BY <1>1 DEF WithIds, Messages
<1>3. DOMAIN WithIds(list) = DOMAIN list
  BY DEF WithIds
<1> QED BY <1>2, <1>3 DEF Backed

\* An empty list has nothing to back.
LEMMA BackedEmpty == \A done : Backed(<<>>, done)
  BY DEF Backed

\* A list stays backed when more runs are done.
LEMMA BackedGrows ==
  ASSUME NEW list, NEW done, NEW more, Backed(list, done), done \subseteq more
  PROVE  Backed(list, more)
  BY DEF Backed

(***************************************************************************)
(* A run that is done stays done: the Agent's report comes once.           *)
(***************************************************************************)
LEMMA DoneGrows == IInv /\ [Next]_vars => Done \subseteq Done'
<1> SUFFICES ASSUME IInv, [Next]_vars,
                    NEW q \in Requests, agent[q] = "done"
             PROVE  agent'[q] = "done"
  BY DEF Done
<1>0. TypeOK /\ agent \in [Requests -> Ends] /\ Earned(q)
  BY TypeParts DEF IInv, ControlOK, Routes, Route
<1>1. ASSUME NEW r \in Requests, Arrive(r) \/ Step(r) \/ Fault(r)
      PROVE  agent'[q] = "done"
  <2>1. CASE q # r
    BY <1>0, <1>1, <2>1, OthersStay
  <2>2. CASE q = r
    <3>1. pc[q] \notin {"body", "agent", "compacting"}
      BY <1>0 DEF Earned
    <3>2. CASE Arrive(q)
      BY <3>2 DEF Arrive, Begin, Refuse, Get, Evict
    <3>3. CASE Step(q)
      BY <3>1, <3>3 DEF Step, Go, StartTurn, StartEdited, StartResumed,
        ResumeUnknown, Load, LoadNothing, Adopt, WriteCache, Save, Ask,
        Truncate, NothingToEdit, Viewed, ClearLlm, LlmRead, LlmWrite, Context,
        AgentDone, AgentPauses, AgentCancels, AgentFails, AgentDrops, Reload,
        Memory, Usage, Source, CompactDone, CompactSkipped, CompactFails,
        Install, Finish, DropCache
    <3>4. CASE Fault(q)
      BY <3>4 DEF Fault, Raise, RaiseInBody, RaiseInHandler, RaiseInRelease,
        RaiseOutsideRun, Crash, ClientGone
    <3> QED BY <1>1, <2>2, <3>2, <3>3, <3>4
  <2> QED BY <2>1, <2>2
<1>2. Lapse \/ CacheExpire \/ UNCHANGED vars => agent' = agent
  BY DEF Lapse, CacheExpire, vars
<1> QED BY <1>1, <1>2, StepCases

\* The rows the session may start from hold only older messages.
LEMMA InitEarnings == Init => Earnings
<1> SUFFICES ASSUME Init PROVE Earnings
  OBVIOUS
<1>1. row # NoRow => Backed(row.messages, Done)
  BY RowsAreOld DEF Init, Backed
<1>2. \A r \in Requests : Backed(gen[r].held, Done)
  BY BackedEmpty DEF Init, NoGen
<1> QED BY <1>1, <1>2 DEF Earnings

(***************************************************************************)
(* What is written to the row is what was there, or what a generator held. *)
(***************************************************************************)
LEMMA RowMessages ==
  ASSUME IInv, [Next]_vars, row' # NoRow
  PROVE  \/ row # NoRow /\ row'.messages = row.messages
         \/ \E r \in Requests : row'.messages = gen[r].held
<1>0. RowOK
  BY TypeParts DEF IInv
<1>a. \A entries : row # NoRow /\ SetLlm(entries) # NoRow =>
        SetLlm(entries).messages = row.messages
  BY <1>0 DEF RowOK, Rows, SetLlm
<1>1. CASE row' = row
  BY <1>1
<1>2. ASSUME NEW r \in Requests, Save(r)
      PROVE  row'.messages = gen[r].held
  <2>1. row # NoRow => [row EXCEPT !.messages = gen[r].held].messages = gen[r].held
    BY <1>0 DEF RowOK, Rows
  <2> QED BY <1>2, <2>1 DEF Save, Upsert
<1>3. ASSUME NEW r \in Requests, ClearLlm(r) \/ LlmWrite(r) \/ Install(r)
      PROVE  row # NoRow /\ row'.messages = row.messages
  <2>1. row # NoRow
    BY <1>3 DEF ClearLlm, LlmWrite, Install, SetLlm
  <2> QED BY <1>3, <1>a, <2>1 DEF ClearLlm, LlmWrite, Install
<1>4. ASSUME NEW r \in Requests, Memory(r) \/ Usage(r)
      PROVE  row # NoRow /\ row'.messages = row.messages
  <2>1. row # NoRow
    BY <1>4 DEF Memory, Usage
  <2>2. \A texts :
          /\ [row EXCEPT !.memory = @ \cup texts].messages = row.messages
          /\ [row EXCEPT !.usage = @ \cup texts].messages = row.messages
    BY <1>0, <2>1 DEF RowOK, Rows
  <2> QED BY <1>4, <2>1, <2>2 DEF Memory, Usage
<1>5. ASSUME NEW r \in Requests PROVE ~Evict(r)
  BY DEF Evict
<1> QED BY <1>1, <1>2, <1>3, <1>4, <1>5, RowWriters DEF WritesRow

(***************************************************************************)
(* What a generator holds comes from the row or from what it held, with an *)
(* answer at its end only once the run is done.                            *)
(***************************************************************************)
LEMMA StepHeld ==
  IInv /\ Earnings /\ [Next]_vars =>
    \A r \in Requests : Backed(gen'[r].held, Done')
<1> SUFFICES ASSUME IInv, Earnings, [Next]_vars
             PROVE  \A r \in Requests : Backed(gen'[r].held, Done')
  OBVIOUS
<1>0. RowOK /\ GenOK /\ TypeOK /\ agent \in [Requests -> Ends]
  BY TypeParts DEF IInv, ControlOK
<1>a. Done \subseteq Done'
  BY DoneGrows
<1>b. \A r \in Requests : Backed(gen[r].held, Done')
  BY <1>a, BackedGrows DEF Earnings
<1>c. Backed(History, Done')
  BY <1>a, BackedGrows, BackedEmpty DEF Earnings, History
<1>d. History \in Seq(Messages) /\ \A r \in Requests : gen[r].held \in Seq(Messages)
  BY <1>0, RowReads, GenUpdates
<1>e. gen \in [Requests -> Gens]
  BY <1>0 DEF GenOK
<1>f. ASSUME NEW r \in Requests, NEW phase, NEW list, Keep(r, phase, list),
             Backed(list, Done')
      PROVE  \A q \in Requests : Backed(gen'[q].held, Done')
  <2>1. gen'[r].held = list
    BY <1>e, <1>f DEF Keep, Gens
  <2>2. \A q \in Requests : q # r => gen'[q] = gen[q]
    BY <1>e, <1>f DEF Keep
  <2> QED BY <1>b, <1>f, <2>1, <2>2
<1>g. ASSUME NEW r \in Requests, gen' = [gen EXCEPT ![r] = NoGen]
      PROVE  \A q \in Requests : Backed(gen'[q].held, Done')
  <2>1. \A q \in Requests : gen'[q].held = <<>> \/ gen'[q] = gen[q]
    BY <1>e, <1>g DEF NoGen
  <2> QED BY <1>b, <2>1, BackedEmpty
<1>h. ASSUME \A q \in Requests : gen'[q].held = gen[q].held
      PROVE  \A q \in Requests : Backed(gen'[q].held, Done')
  BY <1>b, <1>h
<1>1. ASSUME NEW r \in Requests,
             \/ StartEdited(r) \/ StartResumed(r) \/ ClearLlm(r)
             \/ LlmRead(r) \/ Context(r) \/ Source(r)
      PROVE  \A q \in Requests : Backed(gen'[q].held, Done')
  <2>1. PICK v : \/ gen' = [gen EXCEPT ![r].phase = v]
                 \/ gen' = [gen EXCEPT ![r].llm = v]
                 \/ gen' = [gen EXCEPT ![r].sent = v]
    BY <1>1
    DEF StartEdited, StartResumed, ClearLlm, LlmRead, Context, Source
  <2>2. /\ [gen[r] EXCEPT !.phase = v].held = gen[r].held
        /\ [gen[r] EXCEPT !.llm = v].held = gen[r].held
        /\ [gen[r] EXCEPT !.sent = v].held = gen[r].held
    BY <1>e DEF Gens
  <2>3. \A q \in Requests : gen'[q].held = gen[q].held
    BY <1>e, <2>1, <2>2
  <2> QED BY <1>h, <2>3
<1>2. ASSUME NEW r \in Requests, Load(r)
      PROVE  \A q \in Requests : Backed(gen'[q].held, Done')
  <2>1. Backed(WithIds(History), Done')
    BY <1>c, <1>d, BackedIds
  <2> QED BY <1>2, <1>f, <2>1 DEF Load
<1>3. ASSUME NEW r \in Requests, Adopt(r)
      PROVE  \A q \in Requests : Backed(gen'[q].held, Done')
  BY <1>3, <1>b, <1>f DEF Adopt
<1>4. ASSUME NEW r \in Requests, Ask(r)
      PROVE  \A q \in Requests : Backed(gen'[q].held, Done')
  <2>1. Backed(Append(gen[r].held, Question(r)), Done')
    BY <1>b, <1>d, BackedAppend
  <2> QED BY <1>4, <1>f, <2>1 DEF Ask
<1>5. ASSUME NEW r \in Requests, Truncate(r)
      PROVE  \A q \in Requests : Backed(gen'[q].held, Done')
  <2>1. PICK i \in DOMAIN gen[r].held :
          Keep(r, "truncate",
               Append(SubSeq(gen[r].held, 1, i - 1), Question(r)))
    BY <1>5 DEF Truncate
  <2>2. /\ SubSeq(gen[r].held, 1, i - 1) \in Seq(Messages)
        /\ Backed(SubSeq(gen[r].held, 1, i - 1), Done')
    BY <1>b, <1>d, BackedCut
  <2>3. Backed(Append(SubSeq(gen[r].held, 1, i - 1), Question(r)), Done')
    BY <2>2, BackedAppend
  <2> QED BY <1>f, <2>1, <2>3
<1>6. ASSUME NEW r \in Requests, Reload(r)
      PROVE  \A q \in Requests : Backed(gen'[q].held, Done')
  <2>1. agent[r] = "done"
    BY <1>6 DEF Reload, Go, IInv, Routes, Route, Earned
  <2>2. r \in Done'
    BY <1>a, <2>1 DEF Done
  <2>3. Backed(Append(History, Answer(r)), Done')
    BY <1>c, <1>d, <2>2, BackedAppend
  <2> QED BY <1>6, <1>f, <2>3 DEF Reload
<1>7. ASSUME NEW r \in Requests, CompactSkipped(r) \/ Install(r)
      PROVE  \A q \in Requests : Backed(gen'[q].held, Done')
  <2>1. agent'[r] = "done"
    BY <1>0, <1>7 DEF CompactSkipped, Install, Go, IInv, Routes, Route, Earned
  <2>2. r \in Done'
    BY <2>1 DEF Done
  <2>3. Backed(Append(gen[r].held, Answer(r)), Done')
    BY <1>b, <1>d, <2>2, BackedAppend
  <2> QED BY <1>7, <1>f, <2>3 DEF CompactSkipped, Install, Notice
<1>8. ASSUME NEW r \in Requests, Viewed(r) \/ Finish(r) \/ Crash(r)
      PROVE  \A q \in Requests : Backed(gen'[q].held, Done')
  BY <1>8, <1>g DEF Viewed, Finish, Crash
<1>9. ASSUME NEW r \in Requests, Raise(r)
      PROVE  \A q \in Requests : Backed(gen'[q].held, Done')
  <2>1. gen' = gen \/ gen' = [gen EXCEPT ![r] = NoGen]
    BY <1>9
    DEF Raise, RaiseInBody, RaiseInHandler, RaiseInRelease, RaiseOutsideRun
  <2> QED BY <1>b, <1>g, <2>1
<1> QED
  BY <1>b, <1>1, <1>2, <1>3, <1>4, <1>5, <1>6, <1>7, <1>8, <1>9, GenWriters
  DEF WritesGen

\* Every step keeps stored and held lists backed.
LEMMA StepEarnings == IInv /\ Earnings /\ [Next]_vars => Earnings'
<1> SUFFICES ASSUME IInv, Earnings, [Next]_vars PROVE Earnings'
  OBVIOUS
<1>1. Done \subseteq Done'
  BY DoneGrows
<1>2. ASSUME row' # NoRow PROVE Backed(row'.messages, Done')
  BY <1>1, <1>2, RowMessages, BackedGrows DEF Earnings
<1> QED BY <1>2, StepHeld DEF Earnings

(***************************************************************************)
(* NoUnearnedReply in every behaviour, with every fault, locks that lapse  *)
(* and GETs that write back stale lists included: an assistant message is  *)
(* stored only for a run the Agent brought to its end.                     *)
(***************************************************************************)
THEOREM RepliesAreEarned == Spec => []NoUnearnedReply
<1>1. Init => IInv /\ Earnings
  BY InitIInv, InitEarnings
<1>2. (IInv /\ Earnings) /\ [Next]_vars => (IInv /\ Earnings)'
  BY StepIInv, StepEarnings
<1>3. IInv /\ Earnings => NoUnearnedReply
  <2> SUFFICES ASSUME IInv, Earnings, row # NoRow,
                      NEW i \in DOMAIN row.messages,
                      row.messages[i].role = "assistant",
                      row.messages[i].by # Old
               PROVE  agent[row.messages[i].by] = "done"
    BY DEF NoUnearnedReply
  <2>1. row.messages[i].by \in Done
    BY DEF Earnings, Backed
  <2> QED BY <2>1 DEF Done
<1> QED BY <1>1, <1>2, <1>3, PTL DEF Spec

=============================================================================
