------------------------------ MODULE MCChat ------------------------------
(* Chat on short conversations of one sender. *)
EXTENDS Chat

CONSTANTS h1, h2

Talk(how, whom, n, what) ==
  [script |-> what, mode |-> how, allowed |-> TRUE, altered |-> FALSE, first |-> whom,
   faults |-> n]

(* Conversations that lead through every handler and into the races between   *)
(* them: the webhook delivers in any order and two at a time, the poll loop    *)
(* longer conversations in order.                                              *)
MCSettings ==
  { Talk("webhook", "active", 0, what) : what \in
      { <<"entry", "confirm", "entry">>, <<"image", "entry", "confirm">>,
        <<"entry", "edit", "value">>, <<"image", "image", "discard">>,
        <<"delete_data", "confirm", "entry">> } }
  \cup { Talk("webhook", "active", 1, what) : what \in
      { <<"entry", "confirm">>, <<"image", "image">>, <<"delete_data", "confirm">> } }
  \cup { Talk("webhook", "none", 0, <<"start", "delete_data", "confirm">>),
         Talk("webhook", "none", 1, <<"start", "image">>),
         Talk("webhook", "none", 1, <<"confirm", "delete_data">>) }
  \cup { Talk("poll", "active", 1, what) : what \in
      { <<"entry", "confirm", "entry", "discard">>,
        <<"entry", "confirm", "delete_recent", "confirm">>,
        <<"entry", "edit", "value", "confirm">>,
        <<"image", "confirm", "recategory", "delete_recent">>,
        <<"malformed", "export", "delete_data", "confirm">>,
        <<"image", "image", "discard", "value">>,
        <<"entry", "delete_data", "confirm", "start">> } }
  \cup { Talk("poll", "active", 2, <<"image", "image", "confirm">>),
         Talk("poll", "none", 1, <<"privacy", "unsupported", "confirm", "command">>),
         Talk("poll", "active", 1, <<"summary", "command">>),
         Talk("poll", "active", 0, <<"entry", "confirm", "recategory", "entry">>),
         Talk("poll", "suspended", 0, <<"entry">>),
         [Talk("poll", "none", 0, <<"entry", "confirm">>) EXCEPT !.allowed = FALSE] }
  \cup { Talk("webhook", "active", 0, <<"delete_data", "overflow", "confirm">>),
         Talk("poll", "active", 1, <<"entry", "overflow", "confirm">>),
         Talk("poll", "active", 1, <<"image", "delete_data", "confirm">>),
         Talk("poll", "none", 1, <<"overflow", "start", "overflow", "command">>),
         [Talk("webhook", "active", 1, <<"entry", "confirm">>) EXCEPT !.altered = TRUE],
         [Talk("poll", "active", 1, <<"entry", "command">>) EXCEPT !.altered = TRUE] }
=============================================================================
