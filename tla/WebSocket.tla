------------------------------- MODULE WebSocket -------------------------------
(***************************************************************************)
(* Both ends of one connection of lazywebsocket (conn.go), joined by a     *)
(* byte stream with room for a few frames.  At each end one goroutine      *)
(* writes messages in fragments (NextWriter, Write, Close), one reads them *)
(* (NextReader, Read) and answers control frames as it meets them, and a   *)
(* third sends pings and close frames (WriteControl).  The three share the *)
(* channel mu and the sticky writeErr.  A control frame is given up when   *)
(* its deadline passes before mu is free, and a write that passes its      *)
(* deadline or finds the connection closed may leave a frame cut short; a  *)
(* connection that is lost looks like one the peer has closed. Payloads,   *)
(* masking and compression are left out: a frame counts as one unit of     *)
(* length and carries its message and its place in it.                     *)
(***************************************************************************)
EXTENDS Integers, Sequences

CONSTANTS Server, Client,   \* the two ends
          Script,           \* bounds: per end, the messages, the fragments of a
                            \* message, the pings and the closes it sends
          Capacity,         \* frames that fit between two ends
          Limits            \* what the application sets with SetReadLimit before it
                            \* reads on, in frames, 0 for none

ASSUME WebSocketAssumption ==
    /\ Server # Client
    /\ Script \in [{Server, Client} ->
                     [messages: Nat, fragments: Nat \ {0}, pings: Nat, closes: Nat]]
    /\ Capacity \in Nat \ {0} /\ Limits \subseteq Nat

VARIABLES
    wire,      \* per end, the frames on their way to it
    mu,        \* per end, the goroutine that holds Conn.mu
    writeErr,  \* per end, Conn.writeErr
    job,       \* per end and goroutine, the frame it is writing
    writer,    \* per end, the message being written
    reader,    \* per end, the reading state of Conn
    readErr,   \* per end, Conn.readErr
    closed,    \* per end, whether the net.Conn was closed
    sent,      \* per end, pings and closes sent by WriteControl
    mixed      \* history: an end assembled a message from the wrong frames

socketVars == <<wire, mu, writeErr, job, writer, reader, readErr, closed, sent, mixed>>

End == {Server, Client}
Peer(e) == IF e = Server THEN Client ELSE Server
Goroutine == {"writer", "reader", "control"}

Data == {"text", "continuation"}
Control == {"ping", "pong", "close"}
Frame == [op: Data \cup Control \cup {"cut"}, final: BOOLEAN,
          msg: Nat, place: Nat]
ControlFrame(op) == [op |-> op, final |-> TRUE, msg |-> 0, place |-> 0]

NoJob == [pc |-> "none", frame |-> ControlFrame("cut")]
Waiting(frame) == [pc |-> "wait", frame |-> frame]

\* newConn, after the handshake of Upgrader.Upgrade and Dialer.Dial.
SocketInit ==
    /\ wire = [e \in End |-> <<>>]
    /\ mu = [e \in End |-> "none"]
    /\ writeErr = [e \in End |-> "none"]
    /\ job = [e \in End |-> [g \in Goroutine |-> NoJob]]
    /\ writer = [e \in End |-> [open |-> FALSE, msg |-> 0, place |-> 0]]
    /\ reader = [e \in End |-> [at |-> "next", final |-> TRUE, length |-> 0,
                                msg |-> 0, count |-> 0]]
    /\ readErr = [e \in End |-> "none"]
    /\ closed = [e \in End |-> FALSE]
    /\ sent = [e \in End |-> [pings |-> 0, closes |-> 0]]
    /\ mixed = FALSE

-----------------------------------------------------------------------------
(* Writing one frame: Conn.write for data, Conn.WriteControl for the rest.   *)

Begin(e, g, frame) == job' = [job EXCEPT ![e][g] = Waiting(frame)]

\* What the goroutine does once its frame is written or refused.  A pong that
\* fails ends reading unless a close was sent or the deadline passed in time.
FrameDone(e, g, result) ==
    LET f == job[e][g].frame
        lost == f.op = "pong" /\ result = "failed" IN
    /\ job' = [job EXCEPT ![e][g] = NoJob]
    /\ writer' = IF g # "writer" THEN writer
                 ELSE [writer EXCEPT ![e] = [open |-> result = "ok" /\ ~f.final,
                                             msg |-> f.msg, place |-> f.place]]
    /\ readErr' = IF g = "reader" /\ (lost \/ f.op = "close")
                  THEN [readErr EXCEPT ![e] = IF lost THEN "failed" ELSE reader[e].at]
                  ELSE readErr

\* Mutant: writeErr is not looked at again once mu is held.
AcquireUnchecked(e, g) ==
    /\ job[e][g].pc = "wait" /\ mu[e] = "none"
    /\ mu' = [mu EXCEPT ![e] = g]
    /\ job' = [job EXCEPT ![e][g].pc = "locked"]
    /\ UNCHANGED <<wire, writeErr, writer, reader, readErr, closed, sent, mixed>>

\* A goroutine that gets mu looks at writeErr before it writes.
Acquire(e, g) ==
    /\ job[e][g].pc = "wait" /\ mu[e] = "none"
    /\ writeErr[e] = "none"
    /\ mu' = [mu EXCEPT ![e] = g]
    /\ job' = [job EXCEPT ![e][g].pc = "locked"]
    /\ UNCHANGED <<wire, writeErr, writer, reader, readErr, closed, sent, mixed>>

Refused(e, g) ==
    /\ job[e][g].pc = "wait" /\ mu[e] = "none"
    /\ writeErr[e] # "none"
    /\ FrameDone(e, g, writeErr[e])
    /\ UNCHANGED <<wire, mu, writeErr, reader, closed, sent, mixed>>

\* WriteControl's timer fires before mu is free; Conn.write has no such timer.
TimesOut(e, g) ==
    /\ g # "writer"
    /\ job[e][g].pc = "wait" /\ mu[e] # "none"
    /\ FrameDone(e, g, "timeout")
    /\ UNCHANGED <<wire, mu, writeErr, reader, closed, sent, mixed>>

Written(e, g) ==
    /\ job[e][g].pc = "locked"
    /\ Len(wire[Peer(e)]) < Capacity
    /\ ~closed[e] /\ ~closed[Peer(e)]
    /\ wire' = [wire EXCEPT ![Peer(e)] = Append(@, job[e][g].frame)]
    /\ writeErr' = IF job[e][g].frame.op = "close"
                   THEN [writeErr EXCEPT ![e] = "closeSent"] ELSE writeErr
    /\ mu' = [mu EXCEPT ![e] = "none"]
    /\ FrameDone(e, g, "ok")
    /\ UNCHANGED <<reader, closed, sent, mixed>>

\* The net.Conn is closed, the deadline of a control frame passes while the
\* stream is full, or the connection is lost: a part of the frame may be sent.
WriteFails(e, g) ==
    /\ job[e][g].pc = "locked"
    /\ \/ closed[e] \/ closed[Peer(e)]
       \/ g # "writer" /\ Len(wire[Peer(e)]) >= Capacity
    /\ wire' \in {wire, [wire EXCEPT ![Peer(e)] = Append(@, ControlFrame("cut"))]}
    /\ writeErr' = [writeErr EXCEPT ![e] = "failed"]
    /\ mu' = [mu EXCEPT ![e] = "none"]
    /\ FrameDone(e, g, "failed")
    /\ UNCHANGED <<reader, closed, sent, mixed>>

-----------------------------------------------------------------------------
(* The writing goroutine and the one that sends control frames.              *)

\* A message begins with NextWriter, which fails as writing would once writeErr
\* is set; a frame is written when the buffer is full or the writer is closed.
FlushFrame(e, final) ==
    LET w == writer[e]
        msg == IF w.open THEN w.msg ELSE w.msg + 1
        place == IF w.open THEN w.place + 1 ELSE 1 IN
    /\ job[e]["writer"] = NoJob
    /\ msg <= Script[e].messages
    /\ place + (IF final THEN 0 ELSE 1) <= Script[e].fragments
    /\ Begin(e, "writer", [op |-> IF w.open THEN "continuation" ELSE "text",
                            final |-> final, msg |-> msg, place |-> place])
    /\ UNCHANGED <<wire, mu, writeErr, writer, reader, readErr, closed, sent, mixed>>

SendPing(e) ==
    /\ job[e]["control"] = NoJob /\ ~closed[e]
    /\ sent[e].pings < Script[e].pings
    /\ sent' = [sent EXCEPT ![e].pings = @ + 1]
    /\ Begin(e, "control", ControlFrame("ping"))
    /\ UNCHANGED <<wire, mu, writeErr, writer, reader, readErr, closed, mixed>>

SendClose(e) ==
    /\ job[e]["control"] = NoJob /\ ~closed[e]
    /\ sent[e].closes < Script[e].closes
    /\ sent' = [sent EXCEPT ![e].closes = @ + 1]
    /\ Begin(e, "control", ControlFrame("close"))
    /\ UNCHANGED <<wire, mu, writeErr, writer, reader, readErr, closed, mixed>>

-----------------------------------------------------------------------------
(* The reading goroutine.                                                    *)

\* NextReader, or Read before the final frame, is about to advance.
Reading(e) ==
    /\ reader[e].at = "next" \/ (reader[e].at = "message" /\ ~reader[e].final)
    /\ readErr[e] = "none"
    /\ job[e]["reader"] = NoJob /\ ~closed[e]

Take(e) == wire' = [wire EXCEPT ![e] = Tail(@)]

\* Read has returned io.EOF after the final frame, or the application leaves the
\* rest of the message for NextReader to drop.
NextReader(e) ==
    /\ reader[e].at = "message"
    /\ readErr[e] = "none" /\ job[e]["reader"] = NoJob /\ ~closed[e]
    /\ reader' = [reader EXCEPT ![e] = [@ EXCEPT !.at = "next", !.length = 0,
                                                 !.count = 0]]
    /\ UNCHANGED <<wire, mu, writeErr, job, writer, readErr, closed, sent, mixed>>

\* A data frame may open a message only when the last one is complete; any other
\* is a protocol error, which no end of this package causes (NoProtocolError), so
\* that handleProtocolError has no action.
InOrder(e, f) == (f.op = "text") = reader[e].final

\* Mutant: NextReader opens a message on any data frame.
ReadDataAny(e) ==
    /\ Reading(e) /\ wire[e] # <<>>
    /\ LET f == Head(wire[e]) IN
       /\ f.op \in Data /\ InOrder(e, f)
       /\ reader' = [reader EXCEPT ![e] =
             [@ EXCEPT !.at = "message", !.final = f.final, !.length = @ + 1,
                       !.msg = IF reader[e].at = "next" THEN f.msg ELSE @,
                       !.count = @ + 1]]
       /\ mixed' = (mixed \/ <<f.msg, f.place>> # <<reader'[e].msg, reader'[e].count>>)
    /\ Take(e)
    /\ UNCHANGED <<mu, writeErr, job, writer, readErr, closed, sent>>

\* advanceFrame on a data frame, within the limit.
ReadData(e) ==
    /\ Reading(e) /\ wire[e] # <<>>
    /\ LET f == Head(wire[e])
           opens == reader[e].at = "next" /\ f.op = "text"
           mine == opens \/ reader[e].at = "message" IN
       /\ f.op \in Data /\ InOrder(e, f)
       /\ \E limit \in Limits : limit = 0 \/ reader[e].length + 1 <= limit
       /\ reader' = [reader EXCEPT ![e] =
             [at |-> IF opens THEN "message" ELSE @.at, final |-> f.final,
              length |-> @.length + 1, msg |-> IF opens THEN f.msg ELSE @.msg,
              count |-> IF mine THEN @.count + 1 ELSE @.count]]
       /\ mixed' = (mixed \/ (mine /\ <<f.msg, f.place>> # <<reader'[e].msg, reader'[e].count>>))
    /\ Take(e)
    /\ UNCHANGED <<mu, writeErr, job, writer, readErr, closed, sent>>

\* The end answers with a close frame of its own and then fails with this error.
FailWith(e, error) ==
    /\ reader' = [reader EXCEPT ![e].at = error]
    /\ Begin(e, "reader", ControlFrame("close"))
    /\ Take(e)
    /\ UNCHANGED <<mu, writeErr, writer, readErr, closed, sent, mixed>>

ExceedLimit(e) ==
    /\ Reading(e) /\ wire[e] # <<>>
    /\ Head(wire[e]).op \in Data /\ InOrder(e, Head(wire[e]))
    /\ \E limit \in Limits \ {0} : reader[e].length + 1 > limit
    /\ FailWith(e, "limit")

HandleClose(e) ==
    /\ Reading(e) /\ wire[e] # <<>>
    /\ Head(wire[e]).op = "close"
    /\ FailWith(e, "closed")

HandlePing(e) ==
    /\ Reading(e) /\ wire[e] # <<>>
    /\ Head(wire[e]).op = "ping"
    /\ Begin(e, "reader", ControlFrame("pong"))
    /\ Take(e)
    /\ UNCHANGED <<mu, writeErr, writer, reader, readErr, closed, sent, mixed>>

HandlePong(e) ==
    /\ Reading(e) /\ wire[e] # <<>>
    /\ Head(wire[e]).op = "pong"
    /\ Take(e)
    /\ UNCHANGED <<mu, writeErr, job, writer, reader, readErr, closed, sent, mixed>>

\* A frame cut short, or no frame left on a closed connection.
UnexpectedEOF(e) ==
    /\ Reading(e)
    /\ IF wire[e] = <<>> THEN closed[Peer(e)] ELSE Head(wire[e]).op = "cut"
    /\ readErr' = [readErr EXCEPT ![e] = "eof"]
    /\ UNCHANGED <<wire, mu, writeErr, job, writer, reader, closed, sent, mixed>>

\* The application closes the connection once reading has failed.
CloseConn(e) ==
    /\ readErr[e] # "none" /\ ~closed[e]
    /\ closed' = [closed EXCEPT ![e] = TRUE]
    /\ UNCHANGED <<wire, mu, writeErr, job, writer, reader, readErr, sent, mixed>>

-----------------------------------------------------------------------------

\* Mutant: control frames wait for mu and for the stream without a deadline.
FrameStepNoDeadline(e, g) ==
    \/ Acquire(e, g) \/ Refused(e, g) \/ Written(e, g)
    \/ (closed[e] \/ closed[Peer(e)]) /\ WriteFails(e, g)

FrameStep(e, g) ==
    Acquire(e, g) \/ Refused(e, g) \/ TimesOut(e, g) \/ Written(e, g) \/ WriteFails(e, g)

ReaderStep(e) ==
    \/ NextReader(e) /\ reader[e].final
    \/ ReadData(e) \/ ExceedLimit(e)
    \/ HandleClose(e) \/ HandlePing(e) \/ HandlePong(e) \/ UnexpectedEOF(e)
    \/ FrameStep(e, "reader")
    \/ CloseConn(e)

SocketNext ==
    \E e \in End :
        \/ \E final \in BOOLEAN : FlushFrame(e, final)
        \/ SendPing(e) \/ SendClose(e)
        \/ NextReader(e)
        \/ ReaderStep(e)
        \/ FrameStep(e, "writer") \/ FrameStep(e, "control")

SocketSpec == SocketInit /\ [][SocketNext]_socketVars

\* Applications read on until an error and then close; deadlines pass; a stream
\* with room takes a frame.
FairSocketSpec ==
    /\ SocketSpec
    /\ \A e \in End : /\ WF_socketVars(ReaderStep(e))
                      /\ WF_socketVars(FrameStep(e, "writer"))
                      /\ WF_socketVars(FrameStep(e, "control"))

-----------------------------------------------------------------------------
(* Properties.                                                               *)

\* Every variable has its type; mu is held by a goroutine that is writing.
SocketTypeOK ==
    /\ \A e \in End :
          /\ Len(wire[e]) <= Capacity + 1
          /\ \A i \in 1..Len(wire[e]) : wire[e][i] \in Frame
    /\ mu \in [End -> Goroutine \cup {"none"}]
    /\ writeErr \in [End -> {"none", "closeSent", "failed"}]
    /\ job \in [End -> [Goroutine -> [pc: {"none", "wait", "locked"}, frame: Frame]]]
    /\ \A e \in End, g \in Goroutine : job[e][g].pc = "locked" <=> mu[e] = g
    /\ writer \in [End -> [open: BOOLEAN, msg: Nat, place: Nat]]
    /\ reader \in [End -> [at: {"next", "message", "closed", "limit"},
                           final: BOOLEAN, length: Nat, msg: Nat,
                           count: Nat]]
    /\ readErr \in [End -> {"none", "closed", "limit", "eof", "failed"}]
    /\ closed \in [End -> BOOLEAN] /\ sent \in [End -> [pings: Nat, closes: Nat]]
    /\ mixed \in BOOLEAN

\* Nothing follows a close frame or a frame cut short on the stream: writeErr is
\* looked at and set with mu held (Conn.write, Conn.WriteControl).
LastFrameIsLast ==
    \A e \in End : \A i \in 1..Len(wire[e]) :
        wire[e][i].op \in {"close", "cut"} => i = Len(wire[e]) /\ writeErr[Peer(e)] # "none"

\* Two ends of this package never find each other breaking the protocol, however
\* the three goroutines of an end interleave their frames (advanceFrame's checks).
NoProtocolError ==
    \A e \in End :
        Reading(e) /\ wire[e] # <<>> /\ Head(wire[e]).op \in Data => InOrder(e, Head(wire[e]))

\* A message is assembled from its own frames, all of them and in order, whatever
\* the application abandoned before it (NextReader, messageReader.Read).
MessagesArriveWhole == ~mixed

\* A data frame that waits for mu or for room in the stream is written or given
\* up, although it has no deadline: two ends that are full and ping each other do
\* not wait for each other for ever (writeWait, the deadline of a pong).
WritersUnblock ==
    \A e \in End : job[e]["writer"].pc # "none" ~> job[e]["writer"].pc = "none"

\* The end that sent a close frame stops reading with an error.
CloseEndsReading ==
    \A e \in End : writeErr[e] = "closeSent" ~> readErr[e] # "none"

\* Nobody waits for ever: neither a writer for the other end, nor a reader for an
\* answer to its close.
NobodyWaitsForEver == WritersUnblock /\ CloseEndsReading

\* The frames of the goroutines of one end make a legal stream: nothing after the
\* last one, and nothing the other end of this package refuses.
FramesAreLegal == SocketTypeOK /\ LastFrameIsLast /\ NoProtocolError

(* The inductive invariant.                                                  *)

IsData(frame) == frame.op \in Data

\* A data frame that may follow the data frame g of the same end.
Follows(f, g) ==
    IF g.final THEN f.op = "text" /\ f.place = 1
    ELSE f.op = "continuation" /\ f.msg = g.msg /\ f.place = g.place + 1

\* A data frame that a writer with state w begins, and one that a reader with
\* state r, which may have abandoned the message, can take.
FollowsWriter(f, w) ==
    IF w.open THEN f.op = "continuation" /\ f.msg = w.msg /\ f.place = w.place + 1
    ELSE f.op = "text" /\ f.place = 1
FollowsReader(f, r) ==
    IF r.final THEN f.op = "text" /\ f.place = 1
    ELSE /\ f.op = "continuation"
         /\ r.at = "message" => f.msg = r.msg /\ f.place = r.count + 1

\* Writer and reader when no data frame is between them, unless the reader has
\* given up and dropped one.
GoesOn(r) == r.at \in {"next", "message"}
SamePlace(w, r) ==
    GoesOn(r) =>
    /\ w.open = ~r.final
    /\ w.open /\ r.at = "message" => w.msg = r.msg /\ w.place = r.count

\* Each data frame of s follows the one before it, whatever control frames are in
\* between; the first follows what the reader has, the writer is at the last.
InSequence(s) ==
    \A i, j \in 1..Len(s) :
        /\ i < j /\ IsData(s[i]) /\ IsData(s[j])
        /\ \A k \in (i + 1)..(j - 1) : ~IsData(s[k])
        => Follows(s[j], s[i])
FirstFollows(s, r) ==
    GoesOn(r) => \A j \in 1..Len(s) :
        IsData(s[j]) /\ (\A k \in 1..(j - 1) : ~IsData(s[k])) => FollowsReader(s[j], r)
WriterIsLast(s, w, r) ==
    /\ \A i \in 1..Len(s) :
          IsData(s[i]) /\ (\A k \in (i + 1)..Len(s) : ~IsData(s[k]))
              => w.open = ~s[i].final /\ w.msg = s[i].msg /\ w.place = s[i].place
    /\ (\A i \in 1..Len(s) : ~IsData(s[i])) => SamePlace(w, r)

\* The stream from e to its peer.
StreamInOrder(e) ==
    /\ InSequence(wire[Peer(e)])
    /\ FirstFollows(wire[Peer(e)], reader[Peer(e)])
    /\ writeErr[e] = "none" => WriterIsLast(wire[Peer(e)], writer[e], reader[Peer(e)])

\* What a goroutine writes is of its kind; who holds mu found no error, which
\* also leaves room for a frame cut short.
JobsFit(e) ==
    /\ \A g \in Goroutine :
          /\ job[e][g].pc = "none" <=> job[e][g] = NoJob
          /\ job[e][g].pc # "none" =>
                IF g = "writer" THEN FollowsWriter(job[e][g].frame, writer[e])
                ELSE job[e][g].frame.op \in Control
          /\ job[e][g].pc = "locked" => writeErr[e] = "none"
    /\ writeErr[e] # "failed" => Len(wire[Peer(e)]) <= Capacity
    /\ reader[e].at = "next" => reader[e].count = 0
    /\ job[e]["reader"].frame.op = "close" => reader[e].at \in {"closed", "limit"}

SocketInv ==
    /\ SocketTypeOK /\ wire \in [End -> Seq(Frame)] /\ LastFrameIsLast /\ MessagesArriveWhole
    /\ \A e \in End : StreamInOrder(e) /\ JobsFit(e)

=============================================================================
