------------------------------ MODULE ChatTurn ------------------------------
(***************************************************************************)
(* One chat session and the requests that work on it: the routes that post *)
(* a message, compact, edit or resume and stream the Agent's answer, the   *)
(* GET that may write back missing message ids, and the deletion of the    *)
(* session by a guest quota or a login that runs elsewhere.                *)
(*                                                                         *)
(* The session lives in three places: a PostgreSQL row (messages, the      *)
(* Agent's own history llm_messages, token usage, memory rows), a Redis    *)
(* hash with the recent window, and the Redis lock gen:{id}. Each call to  *)
(* PostgreSQL or Redis is one step: it commits on its own, and any other   *)
(* request, in this worker or another, may act between two of them.        *)
(*                                                                         *)
(* A request is sequential. What its generator holds in local variables    *)
(* between two calls is gen[r], so a value read early and written late is  *)
(* as stale here as it is in the code.                                     *)
(***************************************************************************)
EXTENDS Naturals, SequencesExt

CONSTANTS Requests,        \* HTTP requests on this session, in all workers
          Kinds,           \* what they may be: a subset of AllKinds
          Faults,          \* what may go wrong: a subset of AllFaults
          InitialRows,     \* the rows the session may start from
          RecentMessages,  \* StorageService.RECENT_MESSAGES, the Redis window
          Free,            \* the lock key does not exist
          NoRow, NoCache, NoLlm,  \* no row, no hash, llm_messages IS NULL
          Old              \* the author of messages older than the run

\* Requests that take the generation lock, and all requests.
LockKinds == {"post", "compact", "edit", "resume"}
AllKinds == LockKinds \cup {"get", "evict"}

\* An exception from a store, a dead worker, a client that goes away, a run
\* that outlives the TTL of its lock, a hash that outlives its own.
AllFaults == {"raise", "crash", "gone", "lapse", "expire"}

(***************************************************************************)
(* A message is known by its role and the request whose text it holds (for *)
(* an edited message, the edit's). Rows written before ids existed have    *)
(* messages without one. Its gist is what is left for the Agent.           *)
(***************************************************************************)
Authors == Requests \cup {Old}
Gists == [role : {"user", "assistant"}, by : Authors]
Messages == [role : {"user", "assistant"}, by : Authors, hasId : BOOLEAN]

\* Mutant of Question: the message is stored without an id key.
QuestionWithoutId(r) == [role |-> "user", by |-> r]

Question(r) == [role |-> "user", by |-> r, hasId |-> TRUE]
Answer(r) == [role |-> "assistant", by |-> r, hasId |-> TRUE]
Gist(m) == [role |-> m.role, by |-> m.by]

(***************************************************************************)
(* An entry of the Agent's history is the set of messages it stands for:   *)
(* one for a message, many for a summary.                                  *)
(***************************************************************************)
Entries == SUBSET Gists
Entry(m) == {Gist(m)}
ForAgent(list) == [i \in DOMAIN list |-> Entry(list[i])]
Seen(entries) == UNION {entries[i] : i \in DOMAIN entries}

Rows == [messages : Seq(Messages),
         llm      : Seq(Entries) \cup {NoLlm},
         usage    : SUBSET Requests,   \* the runs whose tokens are counted
         memory   : SUBSET Authors]    \* the user texts in memory_vectors

ASSUME KindsAreKnown == Kinds \subseteq AllKinds
ASSUME WindowIsNat == RecentMessages \in Nat
ASSUME RowsAreRows == InitialRows \subseteq Rows \cup {NoRow}
ASSUME RowsAreOld ==
  \A start \in InitialRows \ {NoRow} :
    \A i \in DOMAIN start.messages : start.messages[i].by = Old
ASSUME AbsentIsNoValue ==
  /\ Free \notin Requests
  /\ NoRow \notin Rows
  /\ NoCache \notin Seq(Messages)
  /\ NoLlm \notin Seq(Entries)
  /\ Old \notin Requests

VARIABLES row,     \* the row of sessions, with what references it
          cache,   \* the messages under session:{id} in Redis
          lock,    \* the token under gen:{id} in Redis
          lapsed,  \* history: the tokens that Redis let expire
          paused,  \* runs the Agent keeps suspended on an interrupt
          kind,    \* kind[r]: what r asks for
          pc,      \* pc[r]: the call r makes next
          gen,     \* gen[r]: the local variables of its generator
          told,    \* told[r]: the last event its client got (deltas aside)
          agent    \* agent[r]: how the Agent's run for r came out

vars == <<row, cache, lock, lapsed, paused, kind, pc, gen, told, agent>>
stores == <<row, cache, lock, lapsed, paused>>

\* Steps of a run that call PostgreSQL or Redis, and the other steps.
StoreCalls == {"load", "adopt", "cache", "save", "llmRead", "llmWrite",
               "context", "reload", "usage", "source", "install", "clear",
               "memory", "finish", "drop"}
Running == StoreCalls \cup {"body", "ready", "agent", "compacting"}
Over == {"ended", "refused", "lost", "dead"}

Phases == {"open", "migrate", "question", "truncate", "reply"}
Gens == [phase : Phases, held : Seq(Messages), llm : Seq(Entries),
         sent : Seq(Entries)]
NoGen == [phase |-> "open", held |-> <<>>, llm |-> <<>>, sent |-> <<>>]

TypeOK ==
  /\ row \in Rows \cup {NoRow}
  /\ cache \in Seq(Messages) \cup {NoCache}
  /\ lock \in Requests \cup {Free}
  /\ lapsed \subseteq Requests
  /\ paused \subseteq Requests
  /\ kind \in [Requests -> Kinds]
  /\ pc \in [Requests -> {"idle"} \cup Running \cup Over]
  /\ gen \in [Requests -> Gens]
  /\ told \in [Requests -> {"none", "refused", "error", "interrupt",
                            "cancelled", "done"}]
  /\ agent \in [Requests -> {"none", "failed", "dropped", "interrupt",
                             "cancelled", "done"}]

Init ==
  /\ row \in InitialRows
  /\ cache = NoCache
  /\ lock = Free
  /\ lapsed = {}
  /\ paused = {}
  /\ kind \in [Requests -> Kinds]
  /\ pc = [r \in Requests |-> "idle"]
  /\ gen = [r \in Requests |-> NoGen]
  /\ told = [r \in Requests |-> "none"]
  /\ agent = [r \in Requests |-> "none"]

-----------------------------------------------------------------------------
(***************************************************************************)
(* The calls on the stores.                                                *)
(***************************************************************************)
History == IF row = NoRow THEN <<>> ELSE row.messages
Llm == IF row = NoRow THEN NoLlm ELSE row.llm

\* What the hash keeps of a list: messages[-RECENT_MESSAGES:].
Window(list) ==
  SubSeq(list, IF Len(list) > RecentMessages
               THEN Len(list) - RecentMessages + 1 ELSE 1, Len(list))

\* INSERT ... ON CONFLICT (id) DO UPDATE SET messages.
Upsert(list) ==
  IF row = NoRow
  THEN [messages |-> list, llm |-> NoLlm, usage |-> {}, memory |-> {}]
  ELSE [row EXCEPT !.messages = list]

\* UPDATE sessions SET llm_messages: nothing when the row is gone.
SetLlm(entries) ==
  IF row = NoRow THEN NoRow ELSE [row EXCEPT !.llm = entries]

\* Mutant of Released: a plain DEL.
PlainRelease(r) == Free

\* What the release script leaves under gen:{id}.
Released(r) == IF lock = r THEN Free ELSE lock

\* The messages to run the Agent on: llm_messages, or else the display list.
AgentMessages(list) == IF Llm # NoLlm THEN Llm ELSE ForAgent(list)

LacksId(list) == \E i \in DOMAIN list : ~list[i].hasId
WithIds(list) == [i \in DOMAIN list |-> [list[i] EXCEPT !.hasId = TRUE]]

\* The author of the last user text of a list, if there is one.
LastUserText(list) ==
  LET users == {i \in DOMAIN list : list[i].role = "user"}
  IN  {list[i].by : i \in {j \in users : \A k \in users : k <= j}}

Go(r, here, there) == pc[r] = here /\ pc' = [pc EXCEPT ![r] = there]
Keep(r, phase, list) ==
  gen' = [gen EXCEPT ![r].phase = phase, ![r].held = list]
Tell(r, event) == told' = [told EXCEPT ![r] = event]

\* An edit works in the handler until its message is truncated: the lock is
\* held but there is no response body to release it.
InHandler(r) == kind[r] = "edit" /\ gen[r].phase # "reply"

-----------------------------------------------------------------------------
\* Mutant of Begin: SET without NX.
BeginAnyway(r) ==
  /\ kind[r] \in LockKinds
  /\ lock' = r
  /\ Go(r, "idle", IF kind[r] = "edit" THEN "load" ELSE "body")
  /\ UNCHANGED <<row, cache, lapsed, paused, kind, gen, told, agent>>

(***************************************************************************)
(* A request arrives. Runs take the lock first: posts and resumes start    *)
(* their body, an edit truncates in the handler. GETs take no lock.        *)
(***************************************************************************)
Begin(r) ==
  /\ kind[r] \in LockKinds
  /\ lock = Free
  /\ lock' = r
  /\ Go(r, "idle", IF kind[r] = "edit" THEN "load" ELSE "body")
  /\ UNCHANGED <<row, cache, lapsed, paused, kind, gen, told, agent>>

\* 409 session is generating.
Refuse(r) ==
  /\ kind[r] \in LockKinds
  /\ lock # Free
  /\ Go(r, "idle", "refused")
  /\ Tell(r, "refused")
  /\ UNCHANGED <<stores, kind, gen, agent>>

Get(r) ==
  /\ kind[r] = "get"
  /\ Go(r, "idle", IF row = NoRow THEN "ended" ELSE "load")
  /\ UNCHANGED <<stores, kind, gen, told, agent>>

(***************************************************************************)
(* The body of a post is iterated for the first time. A resume hands its   *)
(* results to a suspended run; an edit sends the list it truncated, which  *)
(* it still holds.                                                         *)
(***************************************************************************)
StartTurn(r) ==
  /\ kind[r] \in {"post", "compact"}
  /\ Go(r, "body", "load")
  /\ UNCHANGED <<stores, kind, gen, told, agent>>

StartEdited(r) ==
  /\ kind[r] = "edit"
  /\ Go(r, "body", "agent")
  /\ gen' = [gen EXCEPT ![r].sent = ForAgent(gen[r].held)]
  /\ UNCHANGED <<stores, kind, told, agent>>

StartResumed(r) ==
  /\ kind[r] = "resume"
  /\ Go(r, "body", "agent")
  /\ \E run \in paused : paused' = paused \ {run}
  /\ gen' = [gen EXCEPT ![r].phase = "reply"]
  /\ UNCHANGED <<row, cache, lock, lapsed, kind, told, agent>>

\* Mutant of ResumeUnknown: the body waits until the run is known.
ResumeWaits(r) == FALSE

\* The Agent does not know the run (any more) and answers an HTTP error.
ResumeUnknown(r) ==
  /\ kind[r] = "resume"
  /\ Go(r, "body", "finish")
  /\ paused = {}
  /\ Tell(r, "error")
  /\ agent' = [agent EXCEPT ![r] = "failed"]
  /\ UNCHANGED <<stores, kind, gen>>

-----------------------------------------------------------------------------
\* Mutant of Load: the window in Redis is preferred to the stored history.
LoadFromCache(r) ==
  LET list == IF cache # NoCache THEN cache ELSE History
  IN  /\ row # NoRow \/ kind[r] \in {"post", "compact"}
      /\ Go(r, "load", IF LacksId(list) THEN "adopt" ELSE "ready")
      /\ Keep(r, "open", WithIds(list))
      /\ UNCHANGED <<stores, kind, told, agent>>

(***************************************************************************)
(* The history is read; messages without an id get one, and the whole list *)
(* is written back if the row is still there: _ensure_message_ids, in a    *)
(* GET without any lock.                                                   *)
(***************************************************************************)
Load(r) ==
  /\ row # NoRow \/ kind[r] \in {"post", "compact"}
  /\ Go(r, "load", IF LacksId(History) THEN "adopt" ELSE "ready")
  /\ Keep(r, "open", WithIds(History))
  /\ UNCHANGED <<stores, kind, told, agent>>

\* 404 session not found for an edit, an empty view for a GET.
LoadNothing(r) ==
  /\ row = NoRow
  /\ kind[r] \in {"edit", "get"}
  /\ Go(r, "load", IF kind[r] = "edit" THEN "finish" ELSE "ended")
  /\ told' = IF kind[r] = "edit" THEN [told EXCEPT ![r] = "refused"] ELSE told
  /\ UNCHANGED <<stores, kind, gen, agent>>

Adopt(r) ==
  /\ Go(r, "adopt", IF row = NoRow THEN "ready" ELSE "cache")
  /\ Keep(r, IF row = NoRow THEN "open" ELSE "migrate", gen[r].held)
  /\ UNCHANGED <<stores, kind, told, agent>>

\* Mutant of WriteCache: append to the hash (update_session), not replace it.
AppendCache(r) ==
  /\ Go(r, "cache", "save")
  /\ cache' = IF cache = NoCache THEN Window(gen[r].held)
              ELSE Window(Append(cache, Last(gen[r].held)))
  /\ UNCHANGED <<row, lock, lapsed, paused, kind, gen, told, agent>>

(***************************************************************************)
(* _write_messages: the window to Redis first, then the list to            *)
(* PostgreSQL. What comes next depends on what was written.                *)
(***************************************************************************)
WriteCache(r) ==
  /\ Go(r, "cache", "save")
  /\ cache' = Window(gen[r].held)
  /\ UNCHANGED <<row, lock, lapsed, paused, kind, gen, told, agent>>

\* Mutant of AfterSave: a question is not appended to the Agent's history.
AfterSaveNoAppend(r) ==
  LET phase == gen[r].phase
  IN  CASE phase = "migrate" -> "ready"
        [] phase = "truncate" -> "clear"
        [] phase = "question" -> IF kind[r] = "compact" THEN "source"
                                 ELSE "context"
        [] phase = "reply" /\ kind[r] = "compact" -> "memory"
        [] OTHER -> "llmRead"

AfterSave(r) ==
  LET phase == gen[r].phase
  IN  CASE phase = "migrate" -> "ready"
        [] phase = "truncate" -> "clear"
        [] phase = "question" /\ kind[r] = "compact" -> "source"
        [] phase = "reply" /\ kind[r] = "compact" -> "memory"
        [] OTHER -> "llmRead"

Save(r) ==
  /\ Go(r, "save", AfterSave(r))
  /\ row' = Upsert(gen[r].held)
  /\ UNCHANGED <<cache, lock, lapsed, paused, kind, gen, told, agent>>

(***************************************************************************)
(* With the history in hand: a post appends its message, an edit cuts the  *)
(* list at the message it replaces, a GET is done.                         *)
(***************************************************************************)
Ask(r) ==
  /\ kind[r] \in {"post", "compact"}
  /\ Go(r, "ready", "cache")
  /\ Keep(r, "question", Append(gen[r].held, Question(r)))
  /\ UNCHANGED <<stores, kind, told, agent>>

Truncate(r) ==
  /\ kind[r] = "edit"
  /\ Go(r, "ready", "cache")
  /\ \E i \in DOMAIN gen[r].held :
       /\ gen[r].held[i].role = "user"
       /\ Keep(r, "truncate",
               Append(SubSeq(gen[r].held, 1, i - 1), Question(r)))
  /\ UNCHANGED <<stores, kind, told, agent>>

\* No message has the id, or the one that has it is the assistant's: the
\* handler releases the lock and answers 404 or 400.
NothingToEdit(r) ==
  /\ kind[r] = "edit"
  /\ Go(r, "ready", "finish")
  /\ Tell(r, "refused")
  /\ UNCHANGED <<stores, kind, gen, agent>>

Viewed(r) ==
  /\ kind[r] = "get"
  /\ Go(r, "ready", "ended")
  /\ gen' = [gen EXCEPT ![r] = NoGen]
  /\ UNCHANGED <<stores, kind, told, agent>>

\* Mutant of ClearLlm: a truncation leaves the compacted history.
KeepLlm(r) ==
  /\ Go(r, "clear", "body")
  /\ gen' = [gen EXCEPT ![r].phase = "reply"]
  /\ UNCHANGED <<stores, kind, told, agent>>

\* llm_messages = NULL after a truncation; then the response body may start.
ClearLlm(r) ==
  /\ Go(r, "clear", "body")
  /\ row' = SetLlm(NoLlm)
  /\ gen' = [gen EXCEPT ![r].phase = "reply"]
  /\ UNCHANGED <<cache, lock, lapsed, paused, kind, told, agent>>

(***************************************************************************)
(* _append_llm: read the Agent's history and, if there is one, write it    *)
(* back with the message just saved. Then a question goes to the Agent, an *)
(* answer to the semantic layer.                                           *)
(***************************************************************************)
AfterAppend(r) == IF gen[r].phase = "question" THEN "context" ELSE "memory"

LlmRead(r) ==
  /\ Go(r, "llmRead", IF Llm = NoLlm THEN AfterAppend(r) ELSE "llmWrite")
  /\ gen' = [gen EXCEPT ![r].llm = IF Llm = NoLlm THEN <<>> ELSE Llm]
  /\ UNCHANGED <<stores, kind, told, agent>>

LlmWrite(r) ==
  /\ Go(r, "llmWrite", AfterAppend(r))
  /\ row' = SetLlm(Append(gen[r].llm, Entry(Last(gen[r].held))))
  /\ UNCHANGED <<cache, lock, lapsed, paused, kind, gen, told, agent>>

\* _agent_messages and the request to the Agent.
Context(r) ==
  /\ Go(r, "context", "agent")
  /\ gen' = [gen EXCEPT ![r].sent = AgentMessages(gen[r].held)]
  /\ UNCHANGED <<stores, kind, told, agent>>

-----------------------------------------------------------------------------
\* Mutant of AgentDone: done is passed on before the answer is stored.
DoneUnsaved(r) ==
  /\ Go(r, "agent", "usage")
  /\ agent' = [agent EXCEPT ![r] = "done"]
  /\ UNCHANGED <<stores, kind, gen, told>>

\* Mutant of AgentCancels: the text so far is stored as an answer.
StoreCancelled(r) ==
  /\ Go(r, "agent", "reload")
  /\ agent' = [agent EXCEPT ![r] = "cancelled"]
  /\ UNCHANGED <<stores, kind, gen, told>>

(***************************************************************************)
(* The Agent answers (_relay_agent_events). Deltas are relayed and change  *)
(* nothing. An interrupt suspends the run in the Agent.                    *)
(***************************************************************************)
AgentDone(r) ==
  /\ Go(r, "agent", "reload")
  /\ agent' = [agent EXCEPT ![r] = "done"]
  /\ UNCHANGED <<stores, kind, gen, told>>

AgentPauses(r) ==
  /\ Go(r, "agent", "usage")
  /\ agent' = [agent EXCEPT ![r] = "interrupt"]
  /\ paused' = paused \cup {r}
  /\ UNCHANGED <<row, cache, lock, lapsed, kind, gen, told>>

AgentCancels(r) ==
  /\ Go(r, "agent", "usage")
  /\ agent' = [agent EXCEPT ![r] = "cancelled"]
  /\ UNCHANGED <<stores, kind, gen, told>>

\* An error event, an HTTP error, a timeout, or a stream that just stops.
AgentFails(r) ==
  /\ Go(r, "agent", "finish")
  /\ agent' = [agent EXCEPT ![r] = "failed"]
  /\ Tell(r, "error")
  /\ UNCHANGED <<stores, kind, gen>>

\* ConnectionError or ChunkedEncodingError: the generator returns.
AgentDrops(r) ==
  /\ Go(r, "agent", "finish")
  /\ agent' = [agent EXCEPT ![r] = "dropped"]
  /\ UNCHANGED <<stores, kind, gen, told>>

\* Mutant of Reload: the answer is appended to the list the run started from.
AppendToHeld(r) ==
  /\ Go(r, "reload", "cache")
  /\ Keep(r, "reply", Append(gen[r].held, Answer(r)))
  /\ UNCHANGED <<stores, kind, told, agent>>

(***************************************************************************)
(* On done the history is read again and the answer appended to it.        *)
(***************************************************************************)
Reload(r) ==
  /\ Go(r, "reload", "cache")
  /\ Keep(r, "reply", Append(History, Answer(r)))
  /\ UNCHANGED <<stores, kind, told, agent>>

(***************************************************************************)
(* A failure of the semantic layer, and its foreign key when the row is    *)
(* gone, is swallowed.                                                     *)
(***************************************************************************)
Memory(r) ==
  /\ Go(r, "memory", "usage")
  /\ IF row = NoRow
     THEN UNCHANGED row
     ELSE \/ row' = [row EXCEPT !.memory = @ \cup LastUserText(gen[r].held)]
          \/ "raise" \in Faults /\ UNCHANGED row
  /\ UNCHANGED <<cache, lock, lapsed, paused, kind, gen, told, agent>>

\* Mutant of Usage: the tokens are not added.
TellOnly(r) ==
  /\ Go(r, "usage", "finish")
  /\ Tell(r, agent[r])
  /\ UNCHANGED <<stores, kind, gen, agent>>

(***************************************************************************)
(* The tokens are added in one UPDATE; the event that ends the stream      *)
(* carries the new total.                                                  *)
(***************************************************************************)
Usage(r) ==
  /\ Go(r, "usage", "finish")
  /\ row' = IF row = NoRow THEN NoRow ELSE [row EXCEPT !.usage = @ \cup {r}]
  /\ Tell(r, agent[r])
  /\ UNCHANGED <<cache, lock, lapsed, paused, kind, gen, agent>>

(***************************************************************************)
(* /compact (_stream_compact): the Agent's history, or else the messages   *)
(* before the command, are replaced by what the Agent makes of them. The   *)
(* notice is appended to the list read at the start.                       *)
(***************************************************************************)
Source(r) ==
  /\ Go(r, "source", "compacting")
  /\ gen' = [gen EXCEPT ![r].sent = AgentMessages(Front(gen[r].held))]
  /\ UNCHANGED <<stores, kind, told, agent>>

Notice(r) == Keep(r, "reply", Append(gen[r].held, Answer(r)))

CompactDone(r) ==
  /\ Go(r, "compacting", "install")
  /\ agent' = [agent EXCEPT ![r] = "done"]
  /\ UNCHANGED <<stores, kind, gen, told>>

CompactSkipped(r) ==
  /\ Go(r, "compacting", "cache")
  /\ agent' = [agent EXCEPT ![r] = "done"]
  /\ Notice(r)
  /\ UNCHANGED <<stores, kind, told>>

CompactFails(r) ==
  /\ Go(r, "compacting", "finish")
  /\ agent' = [agent EXCEPT ![r] = "failed"]
  /\ Tell(r, "error")
  /\ UNCHANGED <<stores, kind, gen>>

\* The Agent's summary stands for all it was sent.
Install(r) ==
  /\ Go(r, "install", "cache")
  /\ row' = SetLlm(<<Seen(gen[r].sent)>>)
  /\ Notice(r)
  /\ UNCHANGED <<cache, lock, lapsed, paused, kind, told, agent>>

(***************************************************************************)
(* The generator is closed and the lock released.                          *)
(***************************************************************************)
Finish(r) ==
  /\ Go(r, "finish", "ended")
  /\ lock' = Released(r)
  /\ gen' = [gen EXCEPT ![r] = NoGen]
  /\ UNCHANGED <<row, cache, lapsed, paused, kind, told, agent>>

-----------------------------------------------------------------------------
(***************************************************************************)
(* The session is deleted, to make room for another one or because its     *)
(* guest logged in: the row and all that references it, then the hash.     *)
(* Neither asks for the lock.                                              *)
(***************************************************************************)
Evict(r) ==
  /\ kind[r] = "evict"
  /\ row # NoRow
  /\ Go(r, "idle", "drop")
  /\ row' = NoRow
  /\ UNCHANGED <<cache, lock, lapsed, paused, kind, gen, told, agent>>

DropCache(r) ==
  /\ Go(r, "drop", "ended")
  /\ cache' = NoCache
  /\ UNCHANGED <<row, lock, lapsed, paused, kind, gen, told, agent>>

(***************************************************************************)
(* A store raises. In a response body the exception ends the stream and    *)
(* the finally clause releases the lock; only the usage of a run that was  *)
(* interrupted or cancelled is added under the except clause that turns it *)
(* into an error event. In the handler of an edit, and in the release      *)
(* itself, the lock stays.                                                 *)
(***************************************************************************)
RaiseInBody(r) ==
  /\ kind[r] \in LockKinds /\ ~InHandler(r)
  /\ pc[r] \in StoreCalls \ {"finish", "memory"}
  /\ pc' = [pc EXCEPT ![r] = "finish"]
  /\ told' = IF pc[r] = "usage" /\ agent[r] # "done"
             THEN [told EXCEPT ![r] = "error"] ELSE told
  /\ UNCHANGED <<stores, kind, gen, agent>>

RaiseInHandler(r) ==
  /\ InHandler(r)
  /\ pc[r] \in StoreCalls \ {"finish"}
  /\ pc' = [pc EXCEPT ![r] = "lost"]
  /\ gen' = [gen EXCEPT ![r] = NoGen]
  /\ UNCHANGED <<stores, kind, told, agent>>

RaiseInRelease(r) ==
  /\ Go(r, "finish", "lost")
  /\ gen' = [gen EXCEPT ![r] = NoGen]
  /\ UNCHANGED <<stores, kind, told, agent>>

RaiseOutsideRun(r) ==
  /\ kind[r] \notin LockKinds
  /\ pc[r] \in StoreCalls
  /\ pc' = [pc EXCEPT ![r] = "ended"]
  /\ gen' = [gen EXCEPT ![r] = NoGen]
  /\ UNCHANGED <<stores, kind, told, agent>>

Raise(r) ==
  /\ "raise" \in Faults
  /\ \/ RaiseInBody(r) \/ RaiseInHandler(r)
     \/ RaiseInRelease(r) \/ RaiseOutsideRun(r)

(***************************************************************************)
(* The worker of r dies between two calls.                                 *)
(***************************************************************************)
Crash(r) ==
  /\ "crash" \in Faults
  /\ pc[r] \in Running
  /\ pc' = [pc EXCEPT ![r] = "dead"]
  /\ gen' = [gen EXCEPT ![r] = NoGen]
  /\ UNCHANGED <<stores, kind, told, agent>>

(***************************************************************************)
(* The client disconnects. next() runs in a thread that is not cancelled,  *)
(* so the generator is closed before its first step or at a delta.         *)
(***************************************************************************)
ClientGone(r) ==
  /\ "gone" \in Faults
  /\ pc[r] \in {"body", "agent"}
  /\ pc' = [pc EXCEPT ![r] = "finish"]
  /\ UNCHANGED <<stores, kind, gen, told, agent>>

\* Mutant of Lapse: SET without EX.
NoTtl == FALSE

(***************************************************************************)
(* Redis expires the lock: always once its holder is gone, and under a     *)
(* running one only where runs may outlive GENERATION_LOCK_TTL_SECONDS.    *)
(***************************************************************************)
Lapse ==
  /\ lock # Free
  /\ pc[lock] \in {"lost", "dead"} \/ "lapse" \in Faults
  /\ lapsed' = lapsed \cup {lock}
  /\ lock' = Free
  /\ UNCHANGED <<row, cache, paused, kind, pc, gen, told, agent>>

\* Redis expires the hash.
CacheExpire ==
  /\ "expire" \in Faults
  /\ cache # NoCache
  /\ cache' = NoCache
  /\ UNCHANGED <<row, lock, lapsed, paused, kind, pc, gen, told, agent>>

-----------------------------------------------------------------------------
Arrive(r) == Begin(r) \/ Refuse(r) \/ Get(r) \/ Evict(r)

\* What a request does of itself once it has been let in.
Step(r) ==
  \/ StartTurn(r) \/ StartEdited(r) \/ StartResumed(r) \/ ResumeUnknown(r)
  \/ Load(r) \/ LoadNothing(r) \/ Adopt(r) \/ WriteCache(r) \/ Save(r)
  \/ Ask(r) \/ Truncate(r) \/ NothingToEdit(r) \/ Viewed(r) \/ ClearLlm(r)
  \/ LlmRead(r) \/ LlmWrite(r) \/ Context(r)
  \/ AgentDone(r) \/ AgentPauses(r) \/ AgentCancels(r)
  \/ AgentFails(r) \/ AgentDrops(r)
  \/ Reload(r) \/ Memory(r) \/ Usage(r)
  \/ Source(r) \/ CompactDone(r) \/ CompactSkipped(r) \/ CompactFails(r)
  \/ Install(r) \/ Finish(r) \/ DropCache(r)

Fault(r) == Raise(r) \/ Crash(r) \/ ClientGone(r)

Next ==
  \/ \E r \in Requests : Arrive(r) \/ Step(r) \/ Fault(r)
  \/ Lapse
  \/ CacheExpire

Spec == Init /\ [][Next]_vars

(***************************************************************************)
(* A generator that is iterated goes on: its calls return (the Agent's     *)
(* within the timeouts of AgentRuntime, for a stream if it does not send   *)
(* for ever), and Redis expires what has a TTL. Arrivals and faults are    *)
(* not fair.                                                               *)
(***************************************************************************)
FairSpec == Spec /\ WF_vars(Lapse) /\ \A r \in Requests : WF_vars(Step(r))

-----------------------------------------------------------------------------
(***************************************************************************)
(* A step of the row that keeps both its ends: neither the insertion nor   *)
(* the deletion of the session.                                            *)
(***************************************************************************)
RowStays == row # NoRow /\ row' # NoRow
Truncates(r) == pc[r] = "save" /\ pc'[r] = "clear"
Gisted(list) == [i \in DOMAIN list |-> Gist(list[i])]

(***************************************************************************)
(* The stored history only grows at its end. The one exception is an edit, *)
(* which keeps all that is before the message it replaces. Every writer    *)
(* saves a whole list that it read some calls earlier, so this is what the *)
(* lock is for: no save is based on a stale read.                          *)
(***************************************************************************)
HistoryOnlyGrows ==
  [][RowStays =>
       LET old == Gisted(row.messages)
           new == Gisted(row'.messages)
       IN  \/ IsPrefix(old, new)
           \/ \E r \in Requests : Truncates(r) /\ IsPrefix(Front(new), old)]_vars

(***************************************************************************)
(* A user message that was stored stays in PostgreSQL, unless an edit cuts *)
(* it off or the session is deleted: "The user message stays in PG - that  *)
(* is correct (user did send it)" (stream_user_message).                   *)
(***************************************************************************)
UserMessageStays ==
  [][RowStays /\ (\A r \in Requests : ~Truncates(r)) =>
       \A i \in DOMAIN row.messages :
         row.messages[i].role = "user" =>
           Gist(row.messages[i]) \in Range(Gisted(row'.messages))]_vars

(***************************************************************************)
(* The answer of a post, a compaction or an edit stands right after its    *)
(* question, whatever other requests did while the Agent worked. It stands *)
(* alone only at the head of a session that was deleted under the run. (A  *)
(* resumed run may be answered after later messages and is left out.)      *)
(***************************************************************************)
ReplyFollowsQuestion ==
  row # NoRow =>
    \A i \in DOMAIN row.messages :
      LET m == row.messages[i]
      IN  /\ m.role = "assistant" /\ m.by # Old
          /\ kind[m.by] # "resume"
          => IF i = 1 THEN "evict" \in Kinds
             ELSE Gist(row.messages[i - 1]) = Gist(Question(m.by))

(***************************************************************************)
(* An assistant message is stored only for a run the Agent brought to its  *)
(* end: never for one that failed, was interrupted or was cancelled, not   *)
(* even when the client had seen part of its text.                         *)
(***************************************************************************)
NoUnearnedReply ==
  row # NoRow =>
    \A i \in DOMAIN row.messages :
      LET m == row.messages[i]
      IN  m.role = "assistant" /\ m.by # Old => agent[m.by] = "done"

(***************************************************************************)
(* The Agent is never run on a history that lacks the message it has to    *)
(* answer, although that history is read back from the store, from one of  *)
(* two columns, after the message was written to each of them in turn.     *)
(***************************************************************************)
AgentSeesQuestion ==
  \A r \in Requests :
    pc[r] = "agent" /\ kind[r] \in {"post", "edit"} =>
      /\ gen[r].sent # <<>>
      /\ Last(gen[r].sent) = Entry(Question(r))

(***************************************************************************)
(* Nothing in the session is lost on the Agent: every stored message, save *)
(* the compact commands and their notices, is in what the Agent is sent,   *)
(* by itself or under a summary. It relates messages to llm_messages,      *)
(* which are written in separate transactions.                             *)
(***************************************************************************)
AgentSeesHistory ==
  \A r \in Requests :
    pc[r] = "agent" /\ kind[r] \in {"post", "edit"} /\ row # NoRow =>
      \A i \in DOMAIN row.messages :
        LET m == row.messages[i]
        IN  m.by = Old \/ kind[m.by] # "compact" => Gist(m) \in Seen(gen[r].sent)

(***************************************************************************)
(* Once nothing runs, the hash in Redis, if it is there, is the window of  *)
(* the stored history.                                                     *)
(***************************************************************************)
CacheMirrors ==
  (\A r \in Requests : pc[r] \notin Running) =>
    \/ cache = NoCache
    \/ row # NoRow /\ cache = Window(row.messages)

(***************************************************************************)
(* A client that is told "done" finds the answer in the history and its    *)
(* tokens in the total when it asks for the session again.                 *)
(***************************************************************************)
DoneMeansSaved ==
  [][\A r \in Requests :
       told'[r] = "done" /\ told[r] # "done" /\ row' # NoRow =>
         /\ Answer(r) \in Range(row'.messages)
         /\ r \in row'.usage]_vars

(***************************************************************************)
(* A run whose Agent failed under it says so: "Agent failures surface as   *)
(* `error` events so the frontend can show "send failed"" (the docstring   *)
(* of stream_user_message).                                                *)
(***************************************************************************)
AgentFailureSurfaces ==
  \A r \in Requests :
    pc[r] = "ended" /\ agent[r] \in {"failed", "dropped"} => told[r] = "error"

(***************************************************************************)
(* The TTL is the "safety net if a worker dies mid-stream without          *)
(* releasing" (GENERATION_LOCK_TTL_SECONDS): a request that is over in a   *)
(* live worker does not hold the session.                                  *)
(***************************************************************************)
OnlyTheDeadHoldOn ==
  lock # Free => pc[lock] \in Running \cup {"dead"}

(***************************************************************************)
(* Every run that took the lock comes to an end, and the session is free   *)
(* again and again: no fault and no order of requests blocks it for good.  *)
(***************************************************************************)
RunsEnd == \A r \in Requests : lock = r ~> pc[r] \in Over
SessionFreed == []<>(lock = Free)

(***************************************************************************)
(* The lock as GenerationLock has it: this module implements it for one    *)
(* session. Requests that take no lock never arrive there.                 *)
(***************************************************************************)
Stage(r) ==
  IF kind[r] \notin LockKinds \/ pc[r] = "idle" THEN "arriving"
  ELSE IF pc[r] \in Running THEN "generating"
  ELSE IF pc[r] = "dead" THEN "lost" ELSE pc[r]

GL == INSTANCE GenerationLock
        WITH Sessions <- {"this"},
             lock     <- [s \in {"this"} |-> lock],
             session  <- [r \in Requests |-> "this"],
             stage    <- [r \in Requests |-> Stage(r)]

ImplementsLock == GL!Spec

=============================================================================
