------------------------------ MODULE HostWire ------------------------------
(***************************************************************************)
(* One host process and its two pipes (serve in runtime.rs, serve_blocking *)
(* in router.rs, native_stdio.rs and emit in dispatch.rs).                 *)
(*                                                                         *)
(* Two threads write frames to standard output: the request loop, after    *)
(* the launch drain, and the follow-up worker.  A frame leaves the process *)
(* as its length and then its body, both under the lock of FrameWriter; a  *)
(* frame that is too large is withheld and a small error with its id goes  *)
(* out in its place.                                                       *)
(*                                                                         *)
(* The loop takes the input as it comes; to be late with a frame is to be  *)
(* slow in reading it, so the input is chosen at the start.  Frames are    *)
(* counted as they are read.  An outbound frame is known by what it is,    *)
(* the id it carries and whether its encoding is too large.                *)
(***************************************************************************)
EXTENDS Integers, Sequences, SequencesExt

CONSTANTS
  MaxFrames,  \* bound: frames of the input
  MaxTicks    \* bound: drains of the worker

VARIABLES
  input,   \* what the extension writes to standard input, to its end
  taken,   \* how much of it was read
  out,     \* standard output: lengths and bodies, in order
  lock,    \* the thread inside FrameWriter::write
  broken,  \* the extension has closed its end of standard output
  main,    \* the request loop: where it is, and the frames it has to send
  worker,  \* the follow-up worker, the same
  stop,    \* the stop flag
  ticks    \* drains of the worker so far

vars == <<input, taken, out, lock, broken, main, worker, stop, ticks>>

Nobody  == "nobody"
Threads == {"main", "worker"}

\* What the extension may write: a frame that is answered (a request, one of
\* another version, a frame that is no request at all), new mail, and a body
\* that is not JSON of a frame.
Inbound == {"request", "new_mail", "not_json"}

\* The input ends between two frames or inside a length, which reads as the
\* same; or it breaks off inside a body, or at a length beyond
\* MAX_READ_FRAME_BYTES, after which the stream is out of step.
Endings == {"eof", "broken"}

NoId  == 0    \* the empty request id
OwnId == -1   \* any notification id

Answer(id, big) == [is |-> "response", id |-> id, big |-> big]
Notice(is, big) == [is |-> is, id |-> OwnId, big |-> big]

-----------------------------------------------------------------------------
Init ==
  /\ \E frames \in SeqOf(Inbound, MaxFrames), ending \in {<<>>, <<"eof">>, <<"broken">>} :
       input = frames \o ending
  /\ taken = 0
  /\ out = <<>> /\ lock = Nobody /\ broken = FALSE
  /\ main = [at |-> "starting", frames |-> <<>>]
  /\ worker = [at |-> "absent", frames |-> <<>>]
  /\ stop = FALSE /\ ticks = 0

Frames(t) == IF t = "main" THEN main.frames ELSE worker.frames

\* The thread goes on with the frames it still has to send.
Left(t, frames) ==
  IF t = "main" THEN main' = [main EXCEPT !.frames = frames] /\ UNCHANGED worker
  ELSE worker' = [worker EXCEPT !.frames = frames] /\ UNCHANGED main

\* What a drain has to announce: a draft, an instance nobody looked after, both.
Announced ==
  {<<>>, <<Notice("draft", TRUE)>>, <<Notice("draft", FALSE), Notice("attention", FALSE)>>}

\* What a handler sends for new mail: nothing when the payload does not parse
\* or the classification fails, else a command per action and the card.
NewMailFrames ==
  {<<>>, <<Notice("card", FALSE)>>, <<Notice("command", FALSE), Notice("card", TRUE)>>}

-----------------------------------------------------------------------------
(* Writing.                                                                *)

\* Mutant: a thread does not wait for the lock.
WriteUnlocked(t) ==
  /\ Frames(t) # <<>> /\ ~Head(Frames(t)).big /\ ~broken /\ lock # t
  /\ lock' = t
  /\ out' = Append(out, [part |-> "length", frame |-> Head(Frames(t))])
  /\ UNCHANGED <<input, taken, broken, main, worker, stop, ticks>>

\* write_frame measures the frame before it writes a byte of it.
WriteLength(t) ==
  /\ lock = Nobody /\ Frames(t) # <<>> /\ ~Head(Frames(t)).big /\ ~broken
  /\ lock' = t
  /\ out' = Append(out, [part |-> "length", frame |-> Head(Frames(t))])
  /\ UNCHANGED <<input, taken, broken, main, worker, stop, ticks>>

WriteBody(t) ==
  /\ lock = t /\ ~broken
  /\ out' = Append(out, [part |-> "body", frame |-> Head(Frames(t))])
  /\ lock' = Nobody
  /\ Left(t, Tail(Frames(t)))
  /\ UNCHANGED <<input, taken, broken, stop, ticks>>

\* emit: the lock is given back before the small error is written.
Withhold(t) ==
  /\ lock = Nobody /\ Frames(t) # <<>> /\ Head(Frames(t)).big
  /\ Left(t, <<Answer(Head(Frames(t)).id, FALSE)>> \o Tail(Frames(t)))
  /\ UNCHANGED <<input, taken, out, lock, broken, stop, ticks>>

\* A write on a closed pipe fails, in either part.  A command that could not
\* be sent is audited and the handler goes on; any other frame ends the drain
\* or the loop it belongs to.
WriteFails(t) ==
  /\ broken /\ Frames(t) # <<>> /\ ~Head(Frames(t)).big /\ lock \in {Nobody, t}
  /\ lock' = Nobody
  /\ IF t = "worker" THEN Left(t, <<>>)
     ELSE /\ main' = IF Head(main.frames).is = "command"
                     THEN [main EXCEPT !.frames = Tail(@)]
                     ELSE [at |-> IF main.at = "draining" THEN "down" ELSE "stopping",
                           frames |-> <<>>]
          /\ UNCHANGED worker
  /\ UNCHANGED <<input, taken, out, broken, stop, ticks>>

-----------------------------------------------------------------------------
(* The request loop.                                                       *)

\* catch_up_on_launch may be off; a drain that fails announces nothing.
LaunchDrain ==
  /\ main.at = "starting"
  /\ \E frames \in Announced : main' = [at |-> "draining", frames |-> frames]
  /\ UNCHANGED <<input, taken, out, lock, broken, worker, stop, ticks>>

\* The worker is there when tick_seconds is not zero.
StartServing ==
  /\ main.at = "draining" /\ main.frames = <<>>
  /\ main' = [main EXCEPT !.at = "serving"]
  /\ \E at \in {"absent", "asleep"} : worker' = [worker EXCEPT !.at = at]
  /\ UNCHANGED <<input, taken, out, lock, broken, stop, ticks>>

NextIs(kinds) == taken < Len(input) /\ input[taken + 1] \in kinds

\* One turn of serve_blocking: read_frame, and what the handler will send.
Reads(frames) ==
  /\ main.at = "serving" /\ main.frames = <<>>
  /\ taken' = taken + 1
  /\ main' = [main EXCEPT !.frames = frames]
  /\ UNCHANGED <<input, out, lock, broken, worker, stop, ticks>>

\* handle and route: a handler answers once, whatever becomes of the request,
\* and so does a frame of another version or kind, under its own id.
HandleRequest ==
  NextIs({"request"}) /\ \E b \in BOOLEAN : Reads(<<Answer(taken + 1, b)>>)

HandleNewMail == NextIs({"new_mail"}) /\ \E frames \in NewMailFrames : Reads(frames)

\* The body was consumed: the stream is still aligned.
HandleNotJson == NextIs({"not_json"}) /\ Reads(<<Answer(NoId, FALSE)>>)

StopReading ==
  /\ main.at = "serving" /\ main.frames = <<>> /\ NextIs(Endings)
  /\ taken' = taken + 1
  /\ main' = [main EXCEPT !.at = "stopping"]
  /\ UNCHANGED <<input, out, lock, broken, worker, stop, ticks>>

\* Mutant: the worker is joined without being told to stop.
JoinOnly ==
  /\ main.at = "stopping"
  /\ main' = [main EXCEPT !.at = "joining"]
  /\ UNCHANGED <<input, taken, out, lock, broken, worker, stop, ticks>>

TearDown ==
  /\ main.at = "stopping"
  /\ stop' = TRUE
  /\ main' = [main EXCEPT !.at = "joining"]
  /\ UNCHANGED <<input, taken, out, lock, broken, worker, ticks>>

Join ==
  /\ main.at = "joining" /\ worker.at \in {"absent", "ended"}
  /\ main' = [main EXCEPT !.at = "down"]
  /\ UNCHANGED <<input, taken, out, lock, broken, worker, stop, ticks>>

-----------------------------------------------------------------------------
(* The worker (run_ticker).                                                *)

Tick ==
  /\ worker.at = "asleep" /\ ~stop /\ ticks < MaxTicks
  /\ ticks' = ticks + 1
  /\ \E frames \in Announced : worker' = [at |-> "draining", frames |-> frames]
  /\ UNCHANGED <<input, taken, out, lock, broken, main, stop>>

Sleep ==
  /\ worker.at = "draining" /\ worker.frames = <<>>
  /\ worker' = [worker EXCEPT !.at = "asleep"]
  /\ UNCHANGED <<input, taken, out, lock, broken, main, stop, ticks>>

WorkerEnds ==
  /\ worker.at = "asleep" /\ stop
  /\ worker' = [worker EXCEPT !.at = "ended"]
  /\ UNCHANGED <<input, taken, out, lock, broken, main, stop, ticks>>

-----------------------------------------------------------------------------
(* The extension closes its end of the host's output.                      *)

Break ==
  /\ ~broken
  /\ broken' = TRUE
  /\ UNCHANGED <<input, taken, out, lock, main, worker, stop, ticks>>

-----------------------------------------------------------------------------
Write(t) == WriteLength(t) \/ WriteBody(t) \/ Withhold(t) \/ WriteFails(t)

Main ==
  \/ main.at # "down" /\ Write("main")
  \/ LaunchDrain \/ StartServing
  \/ HandleRequest \/ HandleNewMail \/ HandleNotJson
  \/ StopReading \/ TearDown \/ Join

Worker == Write("worker") \/ Sleep \/ WorkerEnds

Next == Main \/ Worker \/ Tick \/ Break

Spec == Init /\ [][Next]_vars /\ WF_vars(Main) /\ WF_vars(Worker)

-----------------------------------------------------------------------------
(* Properties.                                                             *)

TypeOK ==
  /\ input \in Seq(Inbound \cup Endings) /\ taken \in 0 .. Len(input)
  /\ lock \in Threads \cup {Nobody} /\ broken \in BOOLEAN /\ stop \in BOOLEAN
  /\ main.at \in {"starting", "draining", "serving", "stopping", "joining", "down"}
  /\ worker.at \in {"absent", "asleep", "draining", "ended"}

\* native_stdio.rs: "frames are always emitted atomically and in some total
\* order": a reader that takes a length and then a body never gets the body
\* of another frame, nor one that was to be withheld.
FramesAreWhole ==
  \A n \in DOMAIN out :
    /\ out[n].part = IF n % 2 = 1 THEN "length" ELSE "body"
    /\ n % 2 = 0 => out[n].frame = out[n - 1].frame
    /\ ~out[n].frame.big

\* runtime.rs: the worker is torn down "so the process exits cleanly on EOF".
HostEnds == (\E n \in DOMAIN input : input[n] \in Endings) ~> main.at = "down"
=============================================================================
