----------------------------- MODULE MCSseRelay -----------------------------
(***************************************************************************)
(* TLC instance of SseRelay: every kind of frame the parser tells apart.   *)
(***************************************************************************)
EXTENDS SseRelay

Frame(event, body) == [name |-> event, body |-> body]

AllFrames ==
  {Frame("message", b) : b \in {"delta", "done", "hollow", "error", "other", "marker"}}
    \cup {Frame("loop", b) : b \in {"delta", "malformed", "garbled"}}
    \cup {Frame("interrupt", b) : b \in {"other", "malformed"}}
    \cup {Frame("cancelled", "other"), Frame("error", "other")}
=============================================================================
