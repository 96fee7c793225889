---------------------------- MODULE CopyDecoding ----------------------------
(***************************************************************************)
(* sequential_copy_model: greedy decoding that, once the response reads    *)
(* "def ", copies bytes from the prompt behind a cursor until a learned    *)
(* exit or the end of what it may copy.  Positions are absolute offsets    *)
(* into the frame '[USER]: ' + prompt + '\n[AI]:\n' and count from 0.      *)
(* audit_events (protected_sequential.py) judges a recorded decoding from  *)
(* its events alone, and knows neither model nor state.                    *)
(*                                                                         *)
(* The network is a choice: the vocabulary's byte, the position its        *)
(* attention peaks at among the eligible ones, and the exit.               *)
(***************************************************************************)
EXTENDS Naturals, Sequences, SequencesExt

CONSTANTS
  Bytes,      \* 0, the end of a response, and some more
  Trigger,    \* the bytes of "def "
  Left,       \* bytes before the prompt
  PromptLen, TailLen,   \* bytes of the prompt and after it
  Width,      \* max_seq_len, 256 in the code
  Limit       \* the budget of bytes, 160 in the code

ASSUME CopyConstants ==
  /\ 0 \in Bytes /\ Bytes \subseteq Nat /\ Trigger \in Seq(Bytes \ {0})
  /\ {Left, PromptLen, TailLen} \subseteq Nat /\ {Width, Limit} \subseteq Nat \ {0}

VARIABLES
  copying,   \* "off", "decoding" or "decoded"
  frame,     \* the bytes of the prompt's frame
  output,    \* the bytes of the response
  cursor,    \* state['cursor'] and state['mode']
  events

copyVars == <<copying, frame, output, cursor, events>>

Right == Left + PromptLen
FrameLen == Right + TailLen
Waiting == [mode |-> "waiting", at |-> 0]
Ended == [mode |-> "ended", at |-> 0]
CopyingAt(i) == [mode |-> "copy", at |-> i]

CopyOff == /\ copying = "off" /\ frame = <<>> /\ output = <<>>
           /\ cursor = Waiting /\ events = <<>>

\* source_bounds refuses a NUL in the prompt, generate a frame that exceeds the context.
CopyInit ==
  /\ FrameLen <= Width
  /\ copying = "decoding"
  /\ frame \in {f \in [0..(FrameLen - 1) -> Bytes \ {0}] :
                  \A i \in 0..(FrameLen - 1) : i \in Left..(Right - 1) \/ f[i] = Trigger[1]}
  /\ output = <<>> /\ cursor = Waiting /\ events = <<>>

Offset(length) == IF length > Width THEN length - Width ELSE 0

\* The positions of the prompt that the window still shows.
Visible == {i \in Left..(Right - 1) : i >= Offset(FrameLen + Len(output))}

\* A byte is chosen; 0 ends the response, and so does the budget.
Emit(byte) ==
  /\ output' = IF byte = 0 THEN output ELSE Append(output, byte)
  /\ copying' = IF byte = 0 \/ Len(output) + 1 = Limit THEN "decoded" ELSE "decoding"

Event(kind, at, source, base, chosen) ==
  [query |-> Len(output), kind |-> kind, cursor |-> at, source |-> source,
   base |-> base, chosen |-> chosen]

\* Outside of a copy the vocabulary speaks.
Plain(base) ==
  /\ cursor.mode = "ended" \/ (cursor.mode = "waiting" /\ output # Trigger)
  /\ Emit(base)
  /\ UNCHANGED <<frame, cursor, events>>

\* (bug variant) the cursor stays where it is
CopyFromStill(at, base, exit) ==
  IF at \notin Visible
  THEN /\ cursor' = Ended /\ Emit(base)
       /\ events' = Append(events, Event("boundary", at, 0, base, base))
  ELSE IF exit
  THEN /\ cursor' = Ended /\ Emit(base)
       /\ events' = Append(events, Event("exit", at, frame[at], base, base))
  ELSE /\ cursor' = CopyingAt(at) /\ Emit(frame[at])
       /\ events' = Append(events, Event("copy", at, frame[at], base, frame[at]))

\* step_decision with the cursor on a position: off the prompt, out of the window, or exit
\* by the learned probability, the vocabulary's byte is taken and the copy is over.
CopyFrom(at, base, exit) ==
  IF at \notin Visible
  THEN /\ cursor' = Ended /\ Emit(base)
       /\ events' = Append(events, Event("boundary", at, 0, base, base))
  ELSE IF exit
  THEN /\ cursor' = Ended /\ Emit(base)
       /\ events' = Append(events, Event("exit", at, frame[at], base, base))
  ELSE /\ cursor' = CopyingAt(at + 1) /\ Emit(frame[at])
       /\ events' = Append(events, Event("copy", at, frame[at], base, frame[at]))

\* The trigger: attention peaks on one of the positions it may copy from, if any.
Open(base, peak, exit) ==
  /\ cursor.mode = "waiting" /\ output = Trigger
  /\ IF Visible = {}
     THEN cursor' = Ended /\ Emit(base) /\ UNCHANGED events
     ELSE peak \in Visible /\ CopyFrom(peak, base, exit)
  /\ UNCHANGED frame

GoOn(base, exit) ==
  /\ cursor.mode = "copy"
  /\ CopyFrom(cursor.at, base, exit)
  /\ UNCHANGED frame

CopyNext ==
  /\ copying = "decoding"
  /\ \E base \in Bytes :
       \/ Plain(base)
       \/ \E exit \in BOOLEAN : GoOn(base, exit) \/ \E peak \in Left..Right : Open(base, peak, exit)

CopySpec == CopyInit /\ [][CopyNext]_copyVars

-----------------------------------------------------------------------------
\* audit_events.  The auditor works its window out from the event's query.

MayCopy(event) ==
  /\ event.cursor \in Left..(Right - 1)
  /\ event.cursor >= Offset(FrameLen + event.query)
  /\ frame[event.cursor] # 0

FollowsOn(event, previous) ==
  /\ previous.kind = "copy"
  /\ event.query = previous.query + 1
  /\ event.cursor = previous.cursor + 1

\* The byte a query emitted, 0 if it ended the response.
Emitted(query) == IF query < Len(output) THEN output[query + 1] ELSE 0

EventAudited(event) ==
  /\ event.query \in Len(Trigger)..(Limit - 1) /\ event.query <= Len(output)
  /\ event.base \in Bytes
  /\ CASE event.kind = "boundary" -> ~MayCopy(event) /\ event.chosen = event.base
       [] event.kind = "exit" -> MayCopy(event) /\ event.source = frame[event.cursor]
                                 /\ event.chosen = event.base
       [] event.kind = "copy" -> MayCopy(event) /\ event.source = frame[event.cursor]
                                 /\ event.chosen = frame[event.cursor]
  /\ event.chosen = Emitted(event.query)

AuditEvents ==
  /\ Len(output) <= Limit /\ \A i \in 1..Len(output) : output[i] # 0
  /\ \A i \in 1..Len(events) :
       /\ EventAudited(events[i])
       /\ IF i = 1 THEN events[i].query = Len(Trigger) ELSE FollowsOn(events[i], events[i - 1])
  /\ events # <<>> => IsPrefix(Trigger, output)

\* Every decoding the program can produce passes the audit of its record: a run is never
\* thrown away for a disagreement between the decoder's rules and the auditor's.
AuditAccepts == copying # "off" => AuditEvents
=============================================================================
