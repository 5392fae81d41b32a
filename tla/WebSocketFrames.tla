--------------------------- MODULE WebSocketFrames ---------------------------
(***************************************************************************)
(* One upgraded connection of runtime/festina_runtime_http.c: a pass reads *)
(* what has arrived, and takes the buffered frames one at a time           *)
(* (festina_ws_process_one_frame), which puts fragments together into      *)
(* messages and answers the control frames among them.  A message goes to  *)
(* the on message handler, which may close the connection.                 *)
(*                                                                         *)
(* A frame is in the buffer when its last byte is.  Payloads are sequences *)
(* of units; the i-th frame's are all i, so that none can be mistaken.     *)
(***************************************************************************)
EXTENDS Integers, Sequences, SequencesExt

CONSTANTS
  Sizes,      \* the lengths of payloads, in units
  Limit,      \* FESTINA_HTTP_MAX_BUFFER, in units
  MaxFrames,  \* bound: frames the client sends
  Burst       \* bound: frames that arrive in one pass

ASSUME FramesAssumption ==
  Sizes \subseteq Nat /\ Limit \in Nat /\ MaxFrames \in Nat /\ Burst \in Nat

Data    == {"text", "binary"}
Control == {"close", "ping", "pong"}
\* The length of the others is of no account.
Frame   ==
  [op : Data \cup {"continuation", "ping"}, fin : BOOLEAN, size : Sizes]
  \cup [op : {"close", "pong", "reserved"}, fin : BOOLEAN, size : {0}]

VARIABLES
  buffered,  \* the whole frames in the connection's buffer
  up,        \* it is alive
  fragment,  \* ws_frag_active, ws_frag_opcode, ws_frag_buf
  consumed,  \* history: the frames taken from the buffer
  heard,     \* history: the messages on message was given
  pongs,     \* history: the payloads of the pongs sent back
  code       \* what the closing frame said

wsVars == <<buffered, up, fragment, consumed, heard, pongs, code>>

NoFragment == [active |-> FALSE, op |-> "text", payload |-> << >>]
Units(f, i) == [k \in 1..f.size |-> i]
-----------------------------------------------------------------------------
\* A pass of festina_conn_readable: bytes arrive, in whatever portions.
ReadFrames ==
  /\ up /\ buffered = << >>
  /\ \E n \in 1..Burst : /\ Len(consumed) + n <= MaxFrames
                         /\ buffered' \in [1..n -> Frame]
  /\ UNCHANGED <<up, fragment, consumed, heard, pongs, code>>

\* The pass finds the end of the stream, or its buffer full: what it read is not looked at.
StreamEnds ==
  /\ up /\ buffered = << >> /\ up' = FALSE
  /\ UNCHANGED <<buffered, fragment, consumed, heard, pongs, code>>

\* A frame longer than the limit: the connection is dropped without a word.
Oversized ==
  /\ up /\ buffered # << >> /\ Head(buffered).size > Limit
  /\ up' = FALSE /\ buffered' = << >>
  /\ UNCHANGED <<fragment, consumed, heard, pongs, code>>

\* A closing frame is sent, and festina_conn_teardown follows.
Refuse(why) == code' = why /\ up' = FALSE /\ UNCHANGED <<fragment, heard, pongs>>

\* festina_dispatch_ws_frame of a message: its handler may close the connection.
Hear(op, payload) ==
  /\ heard' = Append(heard, [op |-> op, payload |-> payload])
  /\ up' \in BOOLEAN
  /\ UNCHANGED <<pongs, code>>

ControlFrame(f, payload) ==
  IF ~f.fin THEN Refuse("protocol error")
  ELSE IF f.op = "close" THEN Refuse("close")
  ELSE /\ pongs' = IF f.op = "ping" THEN Append(pongs, payload) ELSE pongs
       /\ UNCHANGED <<up, fragment, heard, code>>

\* (Bug: a message begins whatever is unfinished.)
FirstFrame_Always(f, payload) ==
  IF f.fin THEN Hear(f.op, payload) /\ UNCHANGED fragment
  ELSE /\ fragment' = [active |-> TRUE, op |-> f.op, payload |-> payload]
       /\ UNCHANGED <<up, heard, pongs, code>>
FirstFrame(f, payload) ==
  IF fragment.active THEN Refuse("protocol error")
  ELSE IF f.fin THEN Hear(f.op, payload) /\ UNCHANGED fragment
  ELSE /\ fragment' = [active |-> TRUE, op |-> f.op, payload |-> payload]
       /\ UNCHANGED <<up, heard, pongs, code>>

\* festina_ws_frag_append: the sum has the limit that one frame has. (Bug: each frame has.)
Fits_Alone(payload) == Len(payload) <= Limit
Fits(payload) == Len(fragment.payload) + Len(payload) <= Limit

Continuation(f, payload) ==
  IF ~fragment.active THEN Refuse("protocol error")
  ELSE IF ~Fits(payload) THEN Refuse("too big")
  ELSE IF f.fin THEN Hear(fragment.op, fragment.payload \o payload) /\ fragment' = NoFragment
  ELSE /\ fragment' = [fragment EXCEPT !.payload = @ \o payload]
       /\ UNCHANGED <<up, heard, pongs, code>>

\* festina_ws_process_one_frame, and the lookup by id after it.
ProcessFrame ==
  /\ up /\ buffered # << >> /\ Head(buffered).size <= Limit
  /\ LET f == Head(buffered)
         payload == Units(f, Len(consumed) + 1)
     IN /\ consumed' = Append(consumed, f)
        /\ \/ f.op \in Control /\ ControlFrame(f, payload)
           \/ f.op \in Data /\ FirstFrame(f, payload)
           \/ f.op = "continuation" /\ Continuation(f, payload)
           \/ f.op = "reserved" /\ Refuse("unsupported")
  /\ buffered' = IF up' THEN Tail(buffered) ELSE << >>

FramesInit ==
  /\ buffered = << >> /\ up = TRUE /\ fragment = NoFragment
  /\ consumed = << >> /\ heard = << >> /\ pongs = << >> /\ code = "none"

FramesNext == ReadFrames \/ StreamEnds \/ Oversized \/ ProcessFrame
FramesSpec == FramesInit /\ [][FramesNext]_wsVars
-----------------------------------------------------------------------------
(* What a stream of frames means, after RFC 6455.                           *)

\* A frame that carries a message or a part of one, and one that ends it.
Carries(f) == f.op \notin Control
Ends(f)    == Carries(f) /\ f.fin

\* The frames that carry the message which ends, or stands so far, at frame e; the first.
Fragments(frames, e) ==
  {i \in 1..e : Carries(frames[i]) /\ \A j \in i..e-1 : ~Ends(frames[j])}
Opening(frames, e) ==
  CHOOSE i \in Fragments(frames, e) : \A j \in Fragments(frames, e) : i <= j

\* What some of the frames carry together.
Payload(frames, places) ==
  FlattenSeq([i \in DOMAIN frames |-> IF i \in places THEN Units(frames[i], i) ELSE << >>])

Message(frames, e) ==
  [op |-> frames[Opening(frames, e)].op, payload |-> Payload(frames, Fragments(frames, e))]
Messages(frames) ==
  FlattenSeq([e \in DOMAIN frames |-> IF Ends(frames[e]) THEN <<Message(frames, e)>> ELSE << >>])
Pongs(frames) ==
  FlattenSeq([i \in DOMAIN frames |-> IF frames[i].op = "ping" THEN <<Units(frames[i], i)>> ELSE << >>])

\* Why frame i, when the ones before it are legal, ends the connection.
Verdict(frames, i) ==
  LET f == frames[i]
  IN CASE f.op \in Control     -> IF ~f.fin THEN "protocol error" ELSE IF f.op = "close" THEN "close" ELSE "none"
       [] f.op = "reserved"    -> "unsupported"
       [] f.op \in Data        -> IF Opening(frames, i) = i THEN "none" ELSE "protocol error"
       [] f.op = "continuation" ->
            IF Opening(frames, i) = i THEN "protocol error"
            ELSE IF Len(Payload(frames, Fragments(frames, i))) > Limit THEN "too big" ELSE "none"

\* on message is given what the client's frames say, each message whole, in order and with
\* the kind its first frame names, whatever stands between its fragments; every ping has
\* its pong, and the first frame that breaks the protocol, and no other, ends it all.
FramesExact ==
  LET n == Len(consumed)
      bad == n > 0 /\ Verdict(consumed, n) # "none"
      legal == IF bad THEN Front(consumed) ELSE consumed
  IN /\ \A i \in DOMAIN legal : Verdict(legal, i) = "none"
     /\ heard = Messages(legal)
     /\ pongs = Pongs(legal)
     /\ code = IF bad THEN Verdict(consumed, n) ELSE "none"
     /\ bad => ~up
=============================================================================
