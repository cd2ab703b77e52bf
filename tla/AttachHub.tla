----------------------------- MODULE AttachHub -----------------------------
(***************************************************************************)
(* The hub of a detached supervisor: one goroutine drains the agent's PTY  *)
(* into the log and to the attached client, one accepts clients, one per   *)
(* client reads its input, and the main one waits for the agent to exit    *)
(* and tears down.  They share the attach slot under a mutex; writes and   *)
(* closes happen outside it.  The clients are `session attach` processes   *)
(* at the other end of a socket.                                           *)
(*                                                                         *)
(* Output is a sequence of chunks, each a size; frames are chunk numbers,  *)
(* or Exit.  A frame is written and read whole.                            *)
(***************************************************************************)
EXTENDS Integers, Sequences

CONSTANTS
    Clients,   \* attach processes, one connection each
    None,      \* no connection
    Sizes,     \* sizes of a logged chunk
    Cap,       \* cap of the log, 0 for none
    MaxOut,    \* bound of the agent's output
    Buf        \* frames a socket buffers before its writer blocks

ASSUME HubAssumption ==
    /\ None \notin Clients /\ Sizes \subseteq Nat \ {0}
    /\ Cap \in Nat /\ MaxOut \in Nat /\ Buf \in Nat \ {0}

VARIABLES
    agent, made,       \* up or over; the chunks it printed
    reader, rconn, nread,   \* the PTY reader, the connection it writes to, chunks read
    log, written, full,     \* the JSONL log: chunk numbers, 0 for the marker
    acceptor, aconn, backlog, listening,
    input,             \* the input loop of each client
    main, mconn,       \* the supervisor
    slot,              \* h.conn
    hub, peer,         \* the two ends of each connection
    down, up,          \* frames to the client, number of frames to the hub
    sent, due, cut     \* history: last frame sent to each client; who was attached
                       \* at the exit; who was dropped for its input

pty   == <<agent, made>>
logs  == <<log, written, full>>
rd    == <<reader, rconn, nread>>
ac    == <<acceptor, aconn, backlog, listening>>
mn    == <<main, mconn>>
conns == <<hub, peer, down, up>>
hist  == <<sent, due, cut>>
vars  == <<pty, rd, logs, ac, input, mn, slot, conns, hist>>

Exit == MaxOut + 1
Conns == Clients \cup {None}
Alive == main # "ended"

\* Every variable stays in its domain, and the slot never holds a connection
\* that was refused or never made.
TypeOK ==
    /\ agent \in {"up", "over"} /\ made \in Seq(Sizes) /\ Len(made) <= MaxOut
    /\ reader \in {"read", "pick", "write", "clear", "close", "done"}
    /\ nread \in 0..Len(made)
    /\ log \in Seq(0..MaxOut) /\ written \in Nat /\ full \in BOOLEAN
    /\ acceptor \in {"accept", "register", "refuse", "ended"}
    /\ backlog \in Seq(Clients) /\ listening \in BOOLEAN
    /\ input \in [Clients -> {"none", "read", "clear", "close", "gone"}]
    /\ main \in {"wait", "listener", "drain", "pick", "exit", "clear", "close",
                 "finish", "ended"}
    /\ {rconn, aconn, mconn, slot} \subseteq Conns
    /\ slot # None => input[slot] # "none"
    /\ hub \in [Clients -> {"none", "open", "closed"}]
    /\ peer \in [Clients -> {"idle", "up", "left", "done"}]
    /\ down \in [Clients -> Seq(1..Exit)] /\ sent \in [Clients -> 0..Exit]
    /\ up \in [Clients -> 0..Buf]
    /\ due \subseteq Clients /\ cut \subseteq Clients

Init ==
    /\ agent = "up" /\ made = <<>>
    /\ reader = "read" /\ rconn = None /\ nread = 0
    /\ log = <<>> /\ written = 0 /\ full = FALSE
    /\ acceptor = "accept" /\ aconn = None /\ backlog = <<>> /\ listening = TRUE
    /\ input = [c \in Clients |-> "none"]
    /\ main = "wait" /\ mconn = None /\ slot = None
    /\ hub = [c \in Clients |-> "none"] /\ peer = [c \in Clients |-> "idle"]
    /\ down = [c \in Clients |-> <<>>] /\ up = [c \in Clients |-> 0]
    /\ sent = [c \in Clients |-> 0] /\ due = {} /\ cut = {}

-----------------------------------------------------------------------------
(* Connections *)

\* wire.Write succeeds when there is room, fails when either end is closed, and
\* blocks otherwise.
Broken(c) == hub[c] = "closed" \/ peer[c] # "up"
Writable(c) == ~Broken(c) /\ Len(down[c]) < Buf
Sent(c, f) ==
    /\ down' = [down EXCEPT ![c] = Append(@, f)]
    /\ sent' = [sent EXCEPT ![c] = f]

\* Mutant: whoever is attached is dropped.
ClearedAlways(c) == None
\* The locked half of dropConn: free the slot if it is still this connection's.
Cleared(c) == IF slot = c THEN None ELSE slot
\* conn.Close; input that was not read is lost.
Close(C) ==
    /\ hub' = [c \in Clients |-> IF c \in C THEN "closed" ELSE hub[c]]
    /\ up' = [c \in Clients |-> IF c \in C THEN 0 ELSE up[c]]

-----------------------------------------------------------------------------
(* The agent and the PTY reader *)

AgentPrints ==
    /\ agent = "up" /\ Len(made) < MaxOut
    /\ \E s \in Sizes : made' = Append(made, s)
    /\ UNCHANGED <<agent, rd, logs, ac, input, mn, slot, conns, hist>>

\* The agent exits, its run is torn down and the slave side is closed.
AgentExits ==
    /\ agent = "up" /\ agent' = "over"
    /\ UNCHANGED <<made, rd, logs, ac, input, mn, slot, conns, hist>>

\* Mutant: the supervisor keeps the slave side open.
AtEOFNever == FALSE
AtEOF == agent = "over" /\ nread = Len(made)

Fits(n) == Cap = 0 \/ written + made[n] <= Cap

\* teeJSONL of chunk n: nothing after the marker; a failed write is skipped.
Tee(n) ==
    \/ full /\ UNCHANGED logs
    \/ ~full /\ ~Fits(n) /\ log' = Append(log, 0) /\ full' = TRUE /\ UNCHANGED written
    \/ /\ ~full /\ Fits(n) /\ UNCHANGED full
       /\ \/ log' = Append(log, n) /\ written' = written + made[n]
          \/ UNCHANGED <<log, written>>

ReadChunk ==
    /\ reader = "read" /\ Alive
    /\ nread < Len(made)
    /\ nread' = nread + 1 /\ reader' = "pick" /\ Tee(nread + 1)
    /\ UNCHANGED <<pty, rconn, ac, input, mn, slot, conns, hist>>
ReadEOF ==
    /\ reader = "read" /\ Alive /\ AtEOF /\ reader' = "done"
    /\ UNCHANGED <<pty, rconn, nread, logs, ac, input, mn, slot, conns, hist>>

\* broadcast: look at the slot, write outside the lock, drop on an error.
BroadcastPick ==
    /\ reader = "pick" /\ Alive /\ rconn' = slot
    /\ reader' = IF slot = None THEN "read" ELSE "write"
    /\ UNCHANGED <<pty, nread, logs, ac, input, mn, slot, conns, hist>>
BroadcastWrite ==
    /\ reader = "write" /\ Alive
    /\ \/ Writable(rconn) /\ Sent(rconn, nread) /\ reader' = "read" /\ rconn' = None
       \/ Broken(rconn) /\ reader' = "clear" /\ UNCHANGED <<down, sent, rconn>>
    /\ UNCHANGED <<pty, nread, logs, ac, input, mn, slot, hub, peer, up, due, cut>>
BroadcastClear ==
    /\ reader = "clear" /\ Alive /\ reader' = "close" /\ slot' = Cleared(rconn)
    /\ UNCHANGED <<pty, rconn, nread, logs, ac, input, mn, conns, hist>>
BroadcastClose ==
    /\ reader = "close" /\ Alive /\ reader' = "read" /\ Close({rconn}) /\ rconn' = None
    /\ UNCHANGED <<pty, nread, logs, ac, input, mn, slot, peer, down, hist>>

Reader ==
    ReadChunk \/ ReadEOF \/ BroadcastPick \/ BroadcastWrite \/ BroadcastClear \/ BroadcastClose

-----------------------------------------------------------------------------
(* Accepting clients and reading their input *)

Accept ==
    /\ acceptor = "accept" /\ Alive /\ listening /\ backlog # <<>>
    /\ aconn' = Head(backlog) /\ backlog' = Tail(backlog) /\ acceptor' = "register"
    /\ UNCHANGED <<pty, rd, logs, listening, input, mn, slot, conns, hist>>
AcceptEnds ==
    /\ acceptor = "accept" /\ Alive /\ ~listening /\ acceptor' = "ended"
    /\ UNCHANGED <<pty, rd, logs, aconn, backlog, listening, input, mn, slot, conns, hist>>

\* A free slot is taken, under the lock; otherwise the connection is refused.
Register ==
    /\ acceptor = "register" /\ Alive
    /\ \/ /\ slot = None /\ slot' = aconn
          /\ input' = [input EXCEPT ![aconn] = "read"]
          /\ acceptor' = "accept" /\ aconn' = None
       \/ slot # None /\ acceptor' = "refuse" /\ UNCHANGED <<slot, input, aconn>>
    /\ UNCHANGED <<pty, rd, logs, backlog, listening, mn, conns, hist>>
Refuse ==
    /\ acceptor = "refuse" /\ Alive /\ acceptor' = "accept" /\ Close({aconn})
    /\ aconn' = None
    /\ UNCHANGED <<pty, rd, logs, backlog, listening, input, mn, slot, peer, down, hist>>

\* serveInput: a frame goes to the PTY, which may refuse it once the agent is
\* gone; a closed connection ends the loop.
InputFrame(c) ==
    /\ input[c] = "read" /\ Alive /\ hub[c] = "open" /\ up[c] > 0
    /\ up' = [up EXCEPT ![c] = @ - 1]
    /\ \/ UNCHANGED <<input, cut>>
       \/ agent = "over" /\ input' = [input EXCEPT ![c] = "clear"] /\ cut' = cut \cup {c}
    /\ UNCHANGED <<pty, rd, logs, ac, mn, slot, hub, peer, down, sent, due>>
InputEnds(c) ==
    /\ input[c] = "read" /\ Alive
    /\ hub[c] = "closed" \/ (peer[c] # "up" /\ up[c] = 0)
    /\ input' = [input EXCEPT ![c] = "clear"]
    /\ UNCHANGED <<pty, rd, logs, ac, mn, slot, conns, hist>>
InputClear(c) ==
    /\ input[c] = "clear" /\ Alive
    /\ input' = [input EXCEPT ![c] = "close"] /\ slot' = Cleared(c)
    /\ UNCHANGED <<pty, rd, logs, ac, mn, conns, hist>>
InputClose(c) ==
    /\ input[c] = "close" /\ Alive
    /\ input' = [input EXCEPT ![c] = "gone"] /\ Close({c})
    /\ UNCHANGED <<pty, rd, logs, ac, mn, slot, peer, down, hist>>

-----------------------------------------------------------------------------
(* The supervisor *)

AgentReaped ==
    /\ main = "wait" /\ agent = "over" /\ main' = "listener"
    /\ UNCHANGED <<pty, rd, logs, ac, input, mconn, slot, conns, hist>>

\* ln.Close unlinks the socket and resets the connections in its backlog.
CloseListener ==
    /\ main = "listener" /\ main' = "drain" /\ listening' = FALSE /\ backlog' = <<>>
    /\ Close({backlog[i] : i \in DOMAIN backlog})
    /\ due' = {slot} \ {None}
    /\ UNCHANGED <<pty, rd, logs, acceptor, aconn, input, mconn, slot, peer, down, sent, cut>>

\* Mutant: the exit frame does not wait for the rest of the output.
DrainedAlready == TRUE
Drained == reader = "done"

Drain ==
    /\ main = "drain" /\ Drained /\ main' = "pick"
    /\ UNCHANGED <<pty, rd, logs, ac, input, mconn, slot, conns, hist>>

\* Mutant: the connection is closed without an exit frame.
ExitPickSkipped ==
    /\ main = "pick" /\ mconn' = slot /\ main' = "clear"
    /\ UNCHANGED <<pty, rd, logs, ac, input, slot, conns, hist>>
\* writeExit
ExitPick ==
    /\ main = "pick" /\ mconn' = slot
    /\ main' = IF slot = None THEN "clear" ELSE "exit"
    /\ UNCHANGED <<pty, rd, logs, ac, input, slot, conns, hist>>
ExitWrite ==
    /\ main = "exit" /\ main' = "clear"
    /\ \/ Writable(mconn) /\ Sent(mconn, Exit)
       \/ Broken(mconn) /\ UNCHANGED <<down, sent>>
    /\ UNCHANGED <<pty, rd, logs, ac, input, mconn, slot, hub, peer, up, due, cut>>

\* closeConn
CloseClear ==
    /\ main = "clear" /\ main' = "close" /\ mconn' = slot /\ slot' = None
    /\ UNCHANGED <<pty, rd, logs, ac, input, conns, hist>>
CloseClose ==
    /\ main = "close" /\ main' = "finish"
    /\ Close({mconn}) /\ mconn' = None
    /\ UNCHANGED <<pty, rd, logs, ac, input, slot, peer, down, hist>>

\* The end of the process closes what is still open.
Finish ==
    /\ main = "finish" /\ main' = "ended" /\ Close({c \in Clients : hub[c] = "open"})
    /\ UNCHANGED <<pty, rd, logs, ac, input, mconn, slot, peer, down, hist>>

Main == AgentReaped \/ CloseListener \/ Drain \/ ExitPick \/ ExitWrite \/ CloseClear \/ CloseClose \/ Finish

-----------------------------------------------------------------------------
(* session attach *)

\* attachSession: a socket that is gone is an error.
Dial(c) ==
    /\ peer[c] = "idle"
    /\ \/ /\ listening /\ backlog' = Append(backlog, c)
          /\ peer' = [peer EXCEPT ![c] = "up"] /\ hub' = [hub EXCEPT ![c] = "open"]
       \/ ~listening /\ peer' = [peer EXCEPT ![c] = "done"] /\ UNCHANGED <<backlog, hub>>
    /\ UNCHANGED <<pty, rd, logs, acceptor, aconn, listening, input, mn, slot, down, up, hist>>

\* The terminal's input or a resize.
Type(c) ==
    /\ peer[c] = "up" /\ hub[c] = "open" /\ up[c] < Buf
    /\ up' = [up EXCEPT ![c] = @ + 1]
    /\ UNCHANGED <<pty, rd, logs, ac, input, mn, slot, hub, peer, down, hist>>

\* The user closes the terminal, or writing to it fails.
Leave(c) ==
    /\ peer[c] = "up" /\ peer' = [peer EXCEPT ![c] = "left"]
    /\ down' = [down EXCEPT ![c] = <<>>]
    /\ UNCHANGED <<pty, rd, logs, ac, input, mn, slot, hub, up, hist>>

\* Attach: the exit frame ends it, and so does the end of the stream.
ClientRead(c) ==
    /\ peer[c] = "up" /\ down[c] # <<>>
    /\ down' = [down EXCEPT ![c] = Tail(@)]
    /\ peer' = IF Head(down[c]) = Exit THEN [peer EXCEPT ![c] = "done"] ELSE peer
    /\ UNCHANGED <<pty, rd, logs, ac, input, mn, slot, hub, up, hist>>
ClientEOF(c) ==
    /\ peer[c] = "up" /\ down[c] = <<>> /\ hub[c] = "closed"
    /\ peer' = [peer EXCEPT ![c] = "done"]
    /\ UNCHANGED <<pty, rd, logs, ac, input, mn, slot, hub, down, up, hist>>

Next ==
    \/ AgentPrints \/ AgentExits \/ Reader
    \/ Accept \/ AcceptEnds \/ Register \/ Refuse
    \/ \E c \in Clients :
          \/ InputFrame(c) \/ InputEnds(c) \/ InputClear(c) \/ InputClose(c)
          \/ Dial(c) \/ Type(c) \/ Leave(c) \/ ClientRead(c) \/ ClientEOF(c)
    \/ Main

Spec == Init /\ [][Next]_vars

\* The supervisor's goroutines are scheduled.  Nothing is assumed of a client: it
\* may stop reading and stay, as a suspended terminal does.
Fairness == WF_vars(Reader) /\ WF_vars(Main)
FairSpec == Spec /\ Fairness

-----------------------------------------------------------------------------
(* Properties *)

\* A frame follows its predecessor, and the exit frame the last chunk there is.
Follows(f, g) ==
    IF g = Exit THEN f \in {0, Len(made)} /\ nread = Len(made)
                ELSE f \in {0, g - 1}

\* Everything a client is sent is one unbroken run of the agent's output, and an
\* exit frame comes last, when no output is left, however clients come and go
\* (broadcast, writeExit).
StreamUnbroken ==
    [][\A c \in Clients : sent'[c] # sent[c] => Follows(sent[c], sent'[c])]_vars

\* Somebody is about to close the connection.
Closing(c) ==
    \/ reader \in {"clear", "close"} /\ rconn = c
    \/ input[c] \in {"clear", "close"}
    \/ main = "close" /\ mconn = c

\* A connection that was accepted and is open is the one in the slot, unless it
\* is being closed: no client is left connected to nobody, and two clients never
\* share the agent (acceptLoop, dropConn).
AttachedIsServed ==
    Alive => \A c \in Clients :
        hub[c] = "open" /\ input[c] # "none" => slot = c \/ Closing(c)

\* A client that was attached when the agent exited, that stayed and whose input
\* the PTY did not refuse, is told the exit code (the order of the teardown in
\* superviseWithDeps).
ExitIsTold ==
    main = "ended" => \A c \in due \ cut : peer[c] # "left" => sent[c] = Exit

\* The log is the output in order, within its cap, and a marker ends it
\* (teeJSONL).
LogIsHonest ==
    /\ Cap > 0 => written <= Cap
    /\ \A i \in 1..(Len(log) - 1) : log[i] # 0 /\ (log[i + 1] # 0 => log[i] < log[i + 1])

\* A write waits for room: its client is attached and does not read.
HeldUp ==
    \E c \in Clients :
        /\ \/ reader = "write" /\ rconn = c
           \/ main = "exit" /\ mconn = c
        /\ ~Broken(c) /\ ~Writable(c)

\* Once the agent is gone the supervisor ends, whoever comes, goes, types or is
\* refused meanwhile, unless a client that stays attached makes no room for the
\* frame it is being written; and whenever it makes room or leaves, the same
\* holds again.  The reader and the main goroutine, which waits for it, never
\* hold up one another, and no dropped, closed or replaced connection holds up
\* either (superviseWithDeps, broadcast, writeExit).
SupervisorEnds == agent = "over" /\ ~HeldUp ~> ~Alive \/ HeldUp
=============================================================================
