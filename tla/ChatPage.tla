----------------------------- MODULE ChatPage -----------------------------
(***************************************************************************)
(* The page of app.js in one tab: the session in localStorage, the view,   *)
(* the streams of posts and resumed runs, the records of paused runs, and  *)
(* the loads that paint a session. A callback runs to its end; what the    *)
(* user does and which answer arrives comes in any order. Of the backend   *)
(* the model has what the page can notice: the lock per session, whose row *)
(* there is, the texts that are stored, how a stream ends.                 *)
(*                                                                         *)
(* Streams and loads are numbered in the order they start; the text of a   *)
(* post and the run it starts are named by its stream. 0 is none. A new    *)
(* session has its id when its creation is asked for: the backend draws a  *)
(* random one, and which it is makes no difference.                        *)
(***************************************************************************)
EXTENDS Naturals, Sequences, Functions

CONSTANTS Sessions,    \* session ids
          MaxStreams,  \* bound: streams the page may start
          MaxLoads     \* bound: GETs of a session the page may send

ASSUME SessionsAssumption == Sessions # {}
ASSUME BoundsAssumption == MaxStreams \in Nat /\ MaxLoads \in Nat \ {0}

Streams == 1..MaxStreams
Loads == 1..MaxLoads

VARIABLES current,   \* localStorage session_id
          sessionId, \* the page's own copy of it
          hitl,      \* hitl[s]: the paused run under hitl:{s}
          whatever,  \* whatever[s]: run_whatever:{s} is on
          sending, streamAbort,
          card,      \* the paused run the composer asks about
          view,      \* the session painted last, and the texts of the user in it
          creation,  \* creation[s]: the POST /api/sessions that makes s
          started,   \* how many streams were started
          stream,    \* stream[i]: [session, run, edit, client, server, how]
          loads,     \* how many loads were sent
          load,      \* load[k]: [session, restore, at, answer, texts]
          owner,     \* owner[s]: whose row there is for s
          rows,      \* rows[s]: the texts of the row, in order; of a deleted row, the last
          lost,      \* sessions whose row was deleted, whether or not it came back
          ids,       \* session ids handed out so far
          moved,     \* history: the session changed while a stream was open
          hasty,     \* history: a stream was started while a load was pending
          blurred    \* history: a load was sent while another was pending, or failed

vars == <<current, sessionId, hitl, whatever, sending, streamAbort, card, view,
          creation, started, stream, loads, load, owner, rows, lost, ids, moved,
          hasty, blurred>>
local == <<current, sessionId, hitl, whatever>>
screen == <<sending, streamAbort, card, view>>
backend == <<owner, rows, lost>>
history == <<moved, hasty, blurred>>

Idle == [session |-> CHOOSE s \in Sessions : TRUE, run |-> 0, edit |-> 0,
         client |-> "none", server |-> "none", how |-> "none"]
Unsent == [session |-> CHOOSE s \in Sessions : TRUE, restore |-> FALSE,
           at |-> "none", answer |-> "none", texts |-> <<>>]

TypeOK ==
  /\ current \in Sessions /\ sessionId \in Sessions
  /\ hitl \in [Sessions -> 0..MaxStreams]
  /\ whatever \in [Sessions -> BOOLEAN]
  /\ sending \in BOOLEAN
  /\ creation \in [Sessions -> {"none", "sent", "left", "made"}]
  /\ streamAbort \in 0..MaxStreams /\ card \in 0..MaxStreams
  /\ view \in [session : Sessions, texts : Seq(Streams)]
  /\ started \in 0..MaxStreams /\ loads \in 0..MaxLoads
  /\ stream \in [Streams ->
       [session : Sessions, run : 0..MaxStreams, edit : 0..MaxStreams,
        client : {"none", "open", "over"},
        server : {"none", "running", "over", "denied"},
        how : {"none", "done", "interrupt", "error", "refused", "late"}]]
  /\ load \in [Loads -> [session : Sessions, restore : BOOLEAN,
                         at : {"none", "sent", "answered", "over"},
                         answer : {"none", "row", "missing", "error", "lost"},
                         texts : Seq(Streams)]]
  /\ rows \in [Sessions -> Seq(Streams)]
  /\ owner \in [Sessions -> {"nobody", "visitor", "other"}]
  /\ lost \subseteq Sessions /\ ids \subseteq Sessions
  /\ \A i \in Streams : stream[i].client = "none" <=> i > started
  /\ \A k \in Loads : load[k].at = "none" <=> k > loads
  /\ moved \in BOOLEAN /\ hasty \in BOOLEAN /\ blurred \in BOOLEAN

Open == {i \in Streams : stream[i].client = "open"}
\* The message id of a text: an edited one keeps the id of what it replaces.
Id(t) == IF stream[t].edit = 0 THEN t ELSE stream[t].edit
Pending == {k \in Loads : load[k].at \in {"sent", "answered"}}

\* GET /api/sessions/{s} is sent, from restoreSession or loadSessionIntoView.
Fetch(s, restore) ==
  /\ loads < MaxLoads
  /\ loads' = loads + 1
  /\ load' = [load EXCEPT ![loads + 1] =
       [session |-> s, restore |-> restore, at |-> "sent", answer |-> "none", texts |-> <<>>]]

NoFetch == UNCHANGED <<loads, load>>

\* The page opens: a session the browser knows, without a row, with the visitor's
\* or with that of an identity the browser no longer has, and the first
\* restoreSession on its way.
Init ==
  /\ current \in Sessions
  /\ sessionId = current
  /\ \E whose \in {"nobody", "visitor", "other"} :
       owner = [s \in Sessions |-> IF s = current THEN whose ELSE "nobody"]
  /\ rows = [s \in Sessions |-> <<>>] /\ lost = {}
  /\ hitl = [s \in Sessions |-> 0]
  /\ whatever = [s \in Sessions |-> FALSE]
  /\ sending = FALSE /\ streamAbort = 0 /\ card = 0
  /\ view = [session |-> current, texts |-> <<>>]
  /\ creation = [s \in Sessions |-> "none"]
  /\ started = 0 /\ stream = [i \in Streams |-> Idle]
  /\ loads = 1
  /\ load = [k \in Loads |->
       IF k = 1 THEN [Unsent EXCEPT !.session = current, !.restore = TRUE, !.at = "sent"]
                ELSE Unsent]
  /\ ids = {current}
  /\ moved = FALSE /\ hasty = FALSE /\ blurred = FALSE

-----------------------------------------------------------------------------
(* Streams: send, resumeHitl, streamAgent *)

\* streamAgent: a post or an edit with a run of its own, or the resumption of run.
Start(s, run, edit, others) ==
  /\ started < MaxStreams
  /\ started' = started + 1
  /\ stream' = [others EXCEPT ![started + 1] =
       [session |-> s, run |-> IF run = 0 THEN started + 1 ELSE run,
        edit |-> edit, client |-> "open", server |-> "none", how |-> "none"]]
  /\ sending' = TRUE
  /\ streamAbort' = started + 1

Send ==
  /\ ~sending
  /\ Start(current, 0, 0, stream)
  /\ card' = 0
  /\ hitl' = [hitl EXCEPT ![current] = 0]
  /\ view' = [view EXCEPT !.texts = Append(@, started + 1)]
  /\ hasty' = (hasty \/ Pending # {})
  /\ NoFetch
  /\ UNCHANGED <<current, sessionId, whatever, creation, backend, ids, moved, blurred>>

\* The editor replaces the card for as long as it is open, and cancelling it does
\* not bring the card back.
StartEdit ==
  /\ ~sending /\ card # 0 /\ view.texts # <<>>
  /\ card' = 0
  /\ NoFetch
  /\ UNCHANGED <<local, sending, streamAbort, view, creation, started, stream,
                 backend, ids, history>>

\* A text of the view is edited: what follows it leaves the view at once.
Edit(k) ==
  /\ ~sending /\ k \in DOMAIN view.texts
  /\ Start(current, 0, Id(view.texts[k]), stream)
  /\ card' = 0
  /\ hitl' = [hitl EXCEPT ![current] = 0]
  /\ view' = [view EXCEPT !.texts = Append(SubSeq(@, 1, k - 1), started + 1)]
  /\ hasty' = (hasty \/ Pending # {})
  /\ NoFetch
  /\ UNCHANGED <<current, sessionId, whatever, creation, backend, ids, moved, blurred>>

\* The text /run-whatever.
RunWhatever ==
  /\ ~sending
  /\ whatever' = [whatever EXCEPT ![current] = ~@]
  /\ card' = 0
  /\ NoFetch
  /\ UNCHANGED <<current, sessionId, hitl, sending, streamAbort, view, creation,
                 started, stream, backend, ids, history>>

\* A choice of the card: resumeHitl of whatever session is current now.
Answer ==
  /\ card # 0
  /\ Start(current, card, 0, stream)
  /\ card' = 0
  /\ hitl' = [hitl EXCEPT ![current] = 0]
  /\ \/ UNCHANGED whatever
     \/ whatever' = [whatever EXCEPT ![current] = TRUE]
  /\ hasty' = (hasty \/ Pending # {})
  /\ NoFetch
  /\ UNCHANGED <<current, sessionId, view, creation, backend, ids, moved, blurred>>

\* Mutant: the handler of an aborted fetch leaves sending alone.
StopAndStay ==
  /\ sending /\ streamAbort # 0
  /\ stream' = [stream EXCEPT ![streamAbort].client = "over"]
  /\ streamAbort' = 0
  /\ NoFetch
  /\ UNCHANGED <<local, sending, card, view, creation, started, backend, ids, history>>

\* The stop button: the fetch of streamAbort is aborted, and its handler clears
\* up. With streamAbort null nothing happens.
Stop ==
  /\ sending /\ streamAbort # 0
  /\ stream' = [stream EXCEPT ![streamAbort].client = "over"]
  /\ streamAbort' = 0 /\ sending' = FALSE
  /\ NoFetch
  /\ UNCHANGED <<local, card, view, creation, started, backend, ids, history>>

\* Mutant: an ended stream is taken back as if it had never been started.
Unstarted(i) == [stream EXCEPT ![i].client = "none"]

Closed(i) == [stream EXCEPT ![i].client = "over"]

\* How a stream ends for the page: done, cancelled or a silent end; an error
\* event or a failed connection.
Finished(i) ==
  /\ stream[i].client = "open" /\ stream[i].how \in {"done", "error"}
  /\ stream' = Closed(i)
  /\ streamAbort' = 0 /\ sending' = FALSE
  /\ NoFetch
  /\ UNCHANGED <<local, card, view, creation, started, backend, ids, history>>

\* HTTP 409: the view is loaded anew.
Refused(i) ==
  /\ stream[i].client = "open" /\ stream[i].how = "refused"
  /\ stream' = Closed(i)
  /\ streamAbort' = 0 /\ sending' = FALSE
  /\ sessionId' = current
  /\ Fetch(current, TRUE)
  /\ blurred' = (blurred \/ Pending # {})
  /\ moved' = (moved \/ Open \ {i} # {})
  /\ UNCHANGED <<current, hitl, whatever, card, view, creation, started, backend, ids,
                 hasty>>

\* handleInterrupt: the paused run is kept under the session that is current
\* now, or resumed at once where run-whatever is on.
Interrupted(i) ==
  /\ stream[i].client = "open" /\ stream[i].how = "interrupt"
  /\ IF whatever[current]
       THEN /\ Start(current, stream[i].run, 0, Closed(i))
            /\ hitl' = [hitl EXCEPT ![current] = 0]
            /\ card' = 0
       ELSE /\ stream' = Closed(i)
            /\ streamAbort' = 0 /\ sending' = FALSE
            /\ hitl' = [hitl EXCEPT ![current] = stream[i].run]
            /\ card' = stream[i].run
            /\ UNCHANGED started
  /\ NoFetch
  /\ UNCHANGED <<current, sessionId, whatever, view, creation, backend, ids, history>>

-----------------------------------------------------------------------------
(* Sessions: switchTo, createNewSession, restoreSession, a reload *)

SwitchTo(s) ==
  /\ current' = s
  /\ Fetch(s, FALSE)
  /\ moved' = (moved \/ Open # {})
  /\ blurred' = (blurred \/ Pending # {})
  /\ UNCHANGED <<sessionId, hitl, whatever, screen, started, stream, hasty>>

\* The sidebar lists sessions of the visitor; its list may be from before a row
\* was deleted.
Switch(s) ==
  /\ owner[s] = "visitor" \/ s \in lost
  /\ SwitchTo(s)
  /\ UNCHANGED <<creation, backend, ids>>

Awaited == {s \in Sessions : creation[s] \in {"sent", "made"}}

Create ==
  /\ Awaited = {}
  /\ \E s \in Sessions \ ids :
       /\ creation' = [creation EXCEPT ![s] = "sent"]
       /\ ids' = ids \cup {s}
  /\ NoFetch
  /\ UNCHANGED <<local, screen, started, stream, backend, history>>

\* The new session's id arrives, and the page switches to it.
Created(s) ==
  /\ creation[s] = "made"
  /\ creation' = [creation EXCEPT ![s] = "none"]
  /\ SwitchTo(s)
  /\ UNCHANGED <<backend, ids>>

\* The page waits no longer: the request may still be on its way.
GivenUp == [s \in Sessions |-> CASE creation[s] = "sent" -> "left"
                               [] creation[s] = "made" -> "none"
                               [] OTHER -> creation[s]]

\* The POST failed, for the page at least.
CreateFailed ==
  /\ Awaited # {}
  /\ creation' = GivenUp
  /\ NoFetch
  /\ UNCHANGED <<local, screen, started, stream, backend, ids, history>>

\* Mutant: the listener of chat:session-changed ignores the event's session.
RestoredOld(s) ==
  /\ sending' = FALSE
  /\ card' = hitl[sessionId]
  /\ UNCHANGED streamAbort

\* restoreHitlForSession: the card of s, or none; sending is reset in any case.
Restored(s) ==
  /\ sending' = FALSE
  /\ card' = hitl[s]
  /\ UNCHANGED streamAbort

Forgotten == [Unsent EXCEPT !.at = "over"]
Over(k) == load' = [load EXCEPT ![k] = Forgotten] /\ UNCHANGED loads

\* restoreSession gets its answer. For a row of somebody else the page takes a
\* fresh id; on another error the view stays, and so does the card if the request
\* was lost.
Repaint(k) ==
  /\ load[k].at = "answered" /\ load[k].restore
  /\ Over(k)
  /\ CASE load[k].answer = "row" ->
            /\ view' = [session |-> load[k].session, texts |-> load[k].texts]
            /\ Restored(sessionId)
            /\ UNCHANGED <<current, sessionId, ids, moved>>
       [] load[k].answer = "missing" -> \E s \in Sessions \ ids :
            /\ ids' = ids \cup {s}
            /\ current' = s /\ sessionId' = s
            /\ view' = [session |-> s, texts |-> <<>>]
            /\ Restored(s)
            /\ moved' = (moved \/ Open # {})
       [] load[k].answer = "error" ->
            /\ Restored(sessionId)
            /\ UNCHANGED <<current, sessionId, view, ids, moved>>
       [] load[k].answer = "lost" ->
            UNCHANGED <<current, sessionId, screen, ids, moved>>
  /\ UNCHANGED <<hitl, whatever, creation, started, stream, backend, hasty, blurred>>

\* loadSessionIntoView gets its answer: what is not a row is shown as no message.
\* chat:session-changed is dispatched unless the request was lost.
Show(k) ==
  /\ load[k].at = "answered" /\ ~load[k].restore
  /\ Over(k)
  /\ view' = [session |-> load[k].session, texts |-> load[k].texts]
  /\ IF load[k].answer = "lost"
       THEN UNCHANGED <<sessionId, sending, streamAbort, card>>
       ELSE sessionId' = load[k].session /\ Restored(load[k].session)
  /\ UNCHANGED <<current, hitl, whatever, creation, started, stream, backend, ids,
                 history>>

\* Mutant: nothing is restored when the page opens.
ReloadEmpty ==
  /\ sessionId' = current
  /\ sending' = FALSE /\ streamAbort' = 0 /\ card' = 0
  /\ view' = [session |-> current, texts |-> <<>>]
  /\ creation' = GivenUp
  /\ stream' = [i \in Streams |->
       IF i \in Open THEN [stream[i] EXCEPT !.client = "over"] ELSE stream[i]]
  /\ load' = [k \in Loads |-> IF k \in Pending THEN Forgotten ELSE load[k]]
  /\ UNCHANGED <<current, hitl, whatever, started, loads, backend, ids, history>>

\* A reload: only localStorage stays. Streams and loads of the old page are gone.
Reload ==
  /\ loads < MaxLoads
  /\ sessionId' = current
  /\ sending' = FALSE /\ streamAbort' = 0 /\ card' = 0
  /\ view' = [session |-> current, texts |-> <<>>]
  /\ creation' = GivenUp
  /\ stream' = [i \in Streams |->
       IF i \in Open THEN [stream[i] EXCEPT !.client = "over"] ELSE stream[i]]
  /\ loads' = loads + 1
  /\ load' = [k \in Loads |->
       IF k = loads + 1
         THEN [Unsent EXCEPT !.session = current, !.restore = TRUE, !.at = "sent"]
         ELSE IF k \in Pending THEN Forgotten ELSE load[k]]
  /\ UNCHANGED <<current, hitl, whatever, started, backend, ids, history>>

-----------------------------------------------------------------------------
(* The backend, as far as the page notices it *)

Busy(s) == \E i \in Streams : stream[i].session = s /\ stream[i].server = "running"

\* Where a message id stands in a list of texts.
Places(list, id) == {k \in DOMAIN list : Id(list[k]) = id}

\* What a reader of the row finds.
Texts(s) == IF owner[s] = "visitor" THEN rows[s] ELSE <<>>

\* The texts of i's session once post or edit i is accepted: a post is appended, an
\* edit replaces its text and all that came later.
Stored(i) ==
  LET old == Texts(stream[i].session)
  IN  Append(IF stream[i].edit = 0 THEN old
             ELSE SubSeq(old, 1, (CHOOSE k \in Places(old, stream[i].edit) : TRUE) - 1),
             i)

\* s gets a row. If it had none, a guest at the quota loses other sessions first:
\* which ones is the matter of GuestRooms. A member loses none.
Admit(s) ==
  \E gone \in IF owner[s] = "visitor" THEN {{}}
             ELSE SUBSET {z \in Sessions \ {s} : owner[z] = "visitor"} :
    /\ owner' = [z \in Sessions |-> IF z = s THEN "visitor"
                                    ELSE IF z \in gone THEN "nobody" ELSE owner[z]]
    /\ lost' = lost \cup gone

\* POST /api/sessions reaches the backend, awaited or not.
Make(s) ==
  /\ creation[s] \in {"sent", "left"}
  /\ Admit(s)
  /\ creation' = [creation EXCEPT ![s] = IF @ = "sent" THEN "made" ELSE "none"]
  /\ NoFetch
  /\ UNCHANGED <<local, screen, started, stream, rows, ids, history>>

\* A request reaches the backend: 404 where the row is somebody else's, 409 while
\* another run holds the session, 400 or 404 for an edit of a text that is not
\* there. A request that was aborted on its way may still arrive.
Accept(i) ==
  /\ stream[i].client # "none" /\ stream[i].server = "none" /\ stream[i].how = "none"
  /\ LET s == stream[i].session
         foreign == owner[s] = "other"
         unknown == stream[i].edit # 0 /\ Places(Texts(s), stream[i].edit) = {}
     IN  IF foreign \/ Busy(s) \/ unknown
           THEN /\ stream' = [stream EXCEPT ![i].server = "denied",
                     ![i].how = IF ~foreign /\ Busy(s) THEN "refused" ELSE "error"]
                /\ UNCHANGED backend
           ELSE /\ stream' = [stream EXCEPT ![i].server = "running",
                     ![i].how = IF stream[i].client = "over" THEN "late" ELSE @]
                /\ IF stream[i].run = i
                     THEN Admit(s) /\ rows' = [rows EXCEPT ![s] = Stored(i)]
                     ELSE UNCHANGED backend
  /\ NoFetch
  /\ UNCHANGED <<local, screen, creation, started, ids, history>>

\* The answer of run i is saved in a session that has no row any more: the row
\* comes back with the answer alone, or, where the post was /compact, with what it
\* had read.
CameBack(i) ==
  LET s == stream[i].session
  IN  /\ owner' = [owner EXCEPT ![s] = "visitor"]
      /\ lost' = lost \cup {s}
      /\ \/ rows' = [rows EXCEPT ![s] = <<>>]
         \/ stream[i].run = i /\ stream[i].edit = 0 /\ UNCHANGED rows

\* The run ends and its lock is released; of a run whose page has gone the
\* backend learns at the next chunk.
Finish(i) ==
  /\ stream[i].server = "running"
  /\ \E how \in {"done", "interrupt", "error"} :
       /\ stream' = [stream EXCEPT ![i].server = "over",
                                   ![i].how = IF stream[i].client = "open" /\ @ = "none"
                                                THEN how ELSE @]
       /\ IF how = "done" /\ owner[stream[i].session] = "nobody"
            THEN CameBack(i) ELSE UNCHANGED backend
  /\ NoFetch
  /\ UNCHANGED <<local, screen, creation, started, ids, history>>

\* The connection to the page fails, whatever the backend goes on to do.
Drop(i) ==
  /\ stream[i].client = "open" /\ stream[i].how = "none"
  /\ stream' = [stream EXCEPT ![i].how = "error",
                              ![i].server = IF @ = "none" THEN "denied" ELSE @]
  /\ NoFetch
  /\ UNCHANGED <<local, screen, creation, started, backend, ids, history>>

\* A load reads the row: 404 if it is somebody else's, no texts if there is none;
\* or the backend answers with an error, or not at all.
Serve(k) ==
  /\ load[k].at = "sent"
  /\ LET s == load[k].session
         answered(answer, texts) ==
           load' = [load EXCEPT ![k].at = "answered", ![k].answer = answer,
                                ![k].texts = texts]
     IN  \/ /\ answered(IF owner[s] = "other" THEN "missing" ELSE "row", Texts(s))
            /\ UNCHANGED blurred
         \/ \E failure \in {"error", "lost"} :
              answered(failure, <<>>) /\ blurred' = TRUE
  /\ UNCHANGED <<local, screen, creation, started, stream, loads, backend, ids,
                 moved, hasty>>

-----------------------------------------------------------------------------

User ==
  \/ Send \/ StartEdit \/ RunWhatever \/ Answer \/ Stop \/ Create \/ Reload
  \/ \E k \in Streams : Edit(k)
  \/ \E s \in Sessions : Switch(s)

Callback ==
  \/ CreateFailed
  \/ \E s \in Sessions : Created(s)
  \/ \E i \in Streams : Finished(i) \/ Refused(i) \/ Interrupted(i)
  \/ \E k \in Loads : Repaint(k) \/ Show(k)

Backend ==
  \/ \E s \in Sessions : Make(s)
  \/ \E i \in Streams : Accept(i) \/ Finish(i) \/ Drop(i)
  \/ \E k \in Loads : Serve(k)

Next == User \/ Callback \/ Backend

Spec == Init /\ [][Next]_vars

-----------------------------------------------------------------------------
(* Properties *)

Home(run) == stream[run].session

\* A paused run is kept, offered and resumed in the session it belongs to. The
\* code guarantees it for a user who waits: a stream that ends after the session
\* has changed files its run under the new one, a card is answered for the
\* current session even before that session is loaded, of two loads the later
\* answer decides, and a load that fails leaves the old card.
RunsAtHome ==
  ~moved /\ ~hasty /\ ~blurred =>
    /\ \A s \in Sessions : hitl[s] # 0 => Home(hitl[s]) = s
    /\ \A i \in 1..started : stream[i].session = Home(stream[i].run)
    /\ card # 0 /\ Pending = {} => Home(card) = current

\* While the page shows the stop button there is one stream, and the button
\* reaches it; otherwise there is none. A load that is answered while a stream is
\* open breaks this: restoreHitlForSession resets sending.
StopReachesStream ==
  ~moved /\ ~hasty => Open = IF sending THEN {streamAbort} ELSE {}

\* An edit that the backend has not taken leaves the view without the texts it
\* was to replace.
Abandoned(k) == \E i \in Texts(current)[k]..started :
  /\ stream[i].session = current /\ stream[i].edit # 0
  /\ stream[i].server \in {"none", "denied"}
  /\ \A j \in Places(Texts(current), stream[i].edit) : j <= k

Expected ==
  {Texts(current)[k] : k \in {j \in DOMAIN Texts(current) : ~Abandoned(j)}}

\* A post or an edit that the backend took.
Taken(i) == stream[i].run = i /\ stream[i].server \in {"running", "over"}

\* What is stored is on the screen as long as its session is, and what is on the
\* screen is stored if the backend took it, through stops, pauses, reloads, edits,
\* switches and deletions of other sessions; what was just sent is on the screen
\* too. An edit that was not taken is the exception: it hides what it was to
\* replace until the session is loaded again. Not meant are texts refused with 409;
\* histories in which a request that was stopped, or left behind by a reload,
\* reached the backend afterwards: its text is stored out of turn; and a session
\* whose own row was deleted, of which the view does not learn.
NothingVanishes ==
  /\ ~moved /\ ~hasty /\ ~blurred /\ Pending = {} /\ current \notin lost
  /\ \A i \in Streams : stream[i].how # "late"
  => /\ view.session = current
     /\ Expected \subseteq Range(view.texts)
     /\ {i \in Range(view.texts) : Taken(i)} \subseteq Range(Texts(current))
     /\ \A i \in Open :
          stream[i].run = i /\ stream[i].how # "refused" => i \in Range(view.texts)
=============================================================================
