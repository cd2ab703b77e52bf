-------------------------- MODULE AttachHubProofs --------------------------
(***************************************************************************)
(* Safety of the attach hub for every set of clients, every output and     *)
(* every buffer size.                                                      *)
(***************************************************************************)
EXTENDS AttachHub, TLAPS

Before == {"wait", "listener", "drain", "pick", "exit"}   \* the exit frame
After  == {"clear", "close", "finish", "ended"}

\* Connections that were made and not yet registered: one per client, each open
\* and served by nobody.
Pending(c) == aconn = c \/ \E i \in DOMAIN backlog : backlog[i] = c

PendingInv ==
    /\ acceptor \in {"register", "refuse"} <=> aconn # None
    /\ \A i, j \in DOMAIN backlog : i # j => backlog[i] # backlog[j]
    /\ \A i \in DOMAIN backlog : backlog[i] # aconn
    /\ \A c \in Clients :
          /\ peer[c] = "idle" => ~Pending(c) /\ input[c] = "none"
          /\ Pending(c) => input[c] = "none"
          /\ Pending(c) /\ Alive => hub[c] = "open" /\ peer[c] # "done"

\* How far each goroutine is, and what it knows then.
ReaderInv ==
    /\ reader \in {"write", "clear", "close"} <=> rconn # None
    /\ rconn # None => input[rconn] # "none"
    /\ reader \in {"pick", "write", "clear", "close"} => nread > 0
    /\ reader = "done" => agent = "over" /\ nread = Len(made)
    /\ reader = "close" => slot # rconn
MainInv ==
    /\ main \in {"pick", "exit"} \cup After => reader = "done"
    /\ main = "exit" => mconn # None
    /\ mconn # None => input[mconn] # "none"

\* What a client was sent: nothing before it is registered, and while it is in
\* the slot everything that was read since; a client that took the slot over
\* from the one being written to has been sent nothing.
SentInv ==
    /\ \A c \in Clients : input[c] = "none" => sent[c] = 0 /\ down[c] = <<>>
    /\ \A c \in Clients : \A i \in DOMAIN down[c] : down[c][i] = Exit => main \in After
    /\ main \in Before /\ slot # None =>
          /\ reader \in {"read", "done"} => sent[slot] \in {0, nread}
          /\ reader = "pick" => sent[slot] \in {0, nread - 1}
          /\ reader \in {"write", "clear", "close"} /\ slot # rconn => sent[slot] = 0
    /\ rconn # None => sent[rconn] \in {0, nread - 1}
    /\ main = "exit" => sent[mconn] \in {0, nread}

\* A client in the slot that stayed and whose input was not refused is being
\* dropped by nobody.
Stays(c) == c \notin cut /\ peer[c] # "left"
Served(c) ==
    /\ hub[c] = "open" /\ peer[c] = "up" /\ input[c] = "read"
    /\ ~ (reader \in {"clear", "close"} /\ rconn = c)
ServedInv == main \in Before /\ slot # None /\ Stays(slot) => Served(slot)

\* Who was attached at the exit is still there until it is told.
DueInv ==
    /\ main \in {"drain", "pick", "exit"} => \A c \in due : Stays(c) => slot = c
    /\ main = "exit" => \A c \in due : Stays(c) => mconn = c
    /\ main \in After => \A c \in due : Stays(c) => sent[c] = Exit

\* The log against its cap and against the output read so far.
LogInv ==
    /\ Cap > 0 => written <= Cap
    /\ \A i \in DOMAIN log : log[i] <= nread /\ (log[i] = 0 => full /\ i = Len(log))
    /\ LogIsHonest

\* TypeOK by component.
OutTypes ==
    /\ agent \in {"up", "over"} /\ made \in Seq(Sizes) /\ Len(made) <= MaxOut
    /\ nread \in 0..Len(made)
LogTypes == log \in Seq(0..MaxOut) /\ written \in Nat /\ full \in BOOLEAN
StepTypes ==
    /\ reader \in {"read", "pick", "write", "clear", "close", "done"}
    /\ acceptor \in {"accept", "register", "refuse", "ended"}
    /\ main \in {"wait", "listener", "drain", "pick", "exit", "clear", "close",
                 "finish", "ended"}
SlotTypes ==
    /\ input \in [Clients -> {"none", "read", "clear", "close", "gone"}]
    /\ {rconn, aconn, mconn, slot} \subseteq Conns
    /\ slot # None => input[slot] # "none"
NetTypes ==
    /\ backlog \in Seq(Clients) /\ listening \in BOOLEAN
    /\ hub \in [Clients -> {"none", "open", "closed"}]
    /\ peer \in [Clients -> {"idle", "up", "left", "done"}]
    /\ up \in [Clients -> 0..Buf]
FrameTypes ==
    /\ down \in [Clients -> Seq(1..Exit)] /\ sent \in [Clients -> 0..Exit]
    /\ due \subseteq Clients /\ cut \subseteq Clients

IInv ==
    /\ OutTypes /\ LogTypes /\ StepTypes /\ SlotTypes /\ NetTypes /\ FrameTypes
    /\ PendingInv /\ ReaderInv /\ MainInv /\ SentInv /\ ServedInv /\ DueInv
    /\ AttachedIsServed /\ LogInv


-----------------------------------------------------------------------------

\* Writing a frame appends it for its client and leaves the others alone.
LEMMA SentFacts ==
    ASSUME FrameTypes, NEW c \in Clients, NEW f \in 1..Exit, Sent(c, f)
    PROVE  /\ down' \in [Clients -> Seq(1..Exit)] /\ sent' \in [Clients -> 0..Exit]
           /\ sent'[c] = f
           /\ \A d \in Clients \ {c} : down'[d] = down[d] /\ sent'[d] = sent[d]
           /\ \A i \in DOMAIN down'[c] :
                 down'[c][i] = f \/ (i \in DOMAIN down[c] /\ down'[c][i] = down[c][i])
<1>1. down \in [Clients -> Seq(1..Exit)] /\ sent \in [Clients -> 0..Exit] /\ Exit \in Nat
  BY HubAssumption DEF FrameTypes, Exit
<1>2. Append(down[c], f) \in Seq(1..Exit)
  BY <1>1
<1>3. \A i \in DOMAIN Append(down[c], f) :
          Append(down[c], f)[i] = f \/ (i \in DOMAIN down[c] /\ Append(down[c], f)[i] = down[c][i])
  BY <1>1
<1> QED BY <1>1, <1>2, <1>3 DEF Sent

\* A client reads the head of what it was sent.
LEMMA TailFacts ==
    ASSUME NEW S, NEW q \in Seq(S), q # <<>>
    PROVE  /\ Head(q) \in S /\ Head(q) = q[1] /\ 1 \in DOMAIN q /\ Tail(q) \in Seq(S)
           /\ \A i \in DOMAIN Tail(q) : i + 1 \in DOMAIN q /\ Tail(q)[i] = q[i + 1] /\ i + 1 # 1
  OBVIOUS

\* A client joins the end of the backlog.
LEMMA AppendFacts ==
    ASSUME NEW S, NEW q \in Seq(S), NEW e \in S
    PROVE  /\ Append(q, e) \in Seq(S) /\ Len(Append(q, e)) = Len(q) + 1
           /\ DOMAIN Append(q, e) = DOMAIN q \cup {Len(q) + 1}
           /\ Append(q, e)[Len(q) + 1] = e /\ Len(q) + 1 \notin DOMAIN q
           /\ \A i \in DOMAIN q : Append(q, e)[i] = q[i]
  OBVIOUS

\* What a sequence holds.
LEMMA ElementFacts ==
    ASSUME NEW S, NEW q \in Seq(S), NEW i \in 1..Len(q) PROVE q[i] \in S
  OBVIOUS

\* Reading the next chunk: the facts about it the log needs.
LEMMA ChunkFacts ==
    ASSUME OutTypes, ReadChunk
    PROVE  /\ nread \in Nat /\ nread + 1 \in 0..Len(made) /\ nread + 1 \in 0..MaxOut
           /\ made[nread + 1] \in Nat /\ 0 \in 0..MaxOut
<1>1. made \in Seq(Sizes) /\ Len(made) <= MaxOut /\ nread \in 0..Len(made)
  BY DEF OutTypes
<1>2. Len(made) \in Nat /\ nread \in Nat
  BY <1>1
<1>3. nread + 1 \in 1..Len(made)
  BY <1>2 DEF ReadChunk
<1>4. made[nread + 1] \in Sizes
  BY <1>1, <1>3
<1>5. MaxOut \in Nat /\ made[nread + 1] \in Nat
  BY <1>4, HubAssumption
<1> QED BY <1>1, <1>2, <1>3, <1>5

\* teeJSONL keeps the log a log of what was read.
LEMMA TeeFacts ==
    ASSUME OutTypes, LogTypes, LogInv, ReadChunk
    PROVE  LogTypes' /\ LogInv'
<1>1. /\ nread \in Nat /\ nread + 1 \in 0..MaxOut /\ made[nread + 1] \in Nat
      /\ nread' = nread + 1 /\ 0 \in 0..MaxOut
  BY ChunkFacts DEF ReadChunk
<1>2. log \in Seq(0..MaxOut) /\ written \in Nat /\ full \in BOOLEAN
  BY DEF LogTypes
<1>3. DOMAIN log = 1..Len(log) /\ Len(log) \in Nat /\ \A i \in 1..Len(log) : log[i] \in Nat
  <2>1. DOMAIN log = 1..Len(log) /\ Len(log) \in Nat
    BY <1>2
  <2>2. \A i \in 1..Len(log) : log[i] \in 0..MaxOut
    BY <1>2, ElementFacts
  <2> QED BY <2>1, <2>2, HubAssumption
<1>4. CASE log' = log /\ full' = full /\ written' = written
  BY <1>1, <1>2, <1>3, <1>4 DEF LogTypes, LogInv, LogIsHonest
<1>5. ASSUME NEW e \in 0..MaxOut, log' = Append(log, e)
      PROVE  /\ log' \in Seq(0..MaxOut) /\ Len(log') = Len(log) + 1
             /\ DOMAIN log' = 1..(Len(log) + 1) /\ log'[Len(log) + 1] = e
             /\ \A i \in 1..Len(log) : log'[i] = log[i]
  BY <1>2, <1>5
<1>6. CASE ~full /\ full' = TRUE /\ log' = Append(log, 0) /\ written' = written
  <2>1. /\ log' \in Seq(0..MaxOut) /\ Len(log') = Len(log) + 1
        /\ DOMAIN log' = 1..(Len(log) + 1) /\ log'[Len(log) + 1] = 0
        /\ \A i \in 1..Len(log) : log'[i] = log[i]
    BY <1>1, <1>5, <1>6
  <2> QED BY <1>1, <1>2, <1>3, <1>6, <2>1 DEF LogTypes, LogInv, LogIsHonest
<1>7. CASE /\ ~full /\ full' = full /\ Fits(nread + 1)
           /\ log' = Append(log, nread + 1) /\ written' = written + made[nread + 1]
  <2>1. /\ log' \in Seq(0..MaxOut) /\ Len(log') = Len(log) + 1
        /\ DOMAIN log' = 1..(Len(log) + 1) /\ log'[Len(log) + 1] = nread + 1
        /\ \A i \in 1..Len(log) : log'[i] = log[i]
    BY <1>1, <1>5, <1>7
  <2>2. \A i \in 1..Len(log) : log[i] # 0 /\ log[i] < nread + 1
    BY <1>1, <1>3, <1>7 DEF LogInv
  <2>3. /\ Cap > 0 => written' <= Cap
        /\ written' \in Nat
    BY <1>1, <1>2, <1>7, HubAssumption DEF Fits
  <2>4. \A i \in DOMAIN log' : log'[i] <= nread' /\ (log'[i] = 0 => full' /\ i = Len(log'))
    BY <1>1, <1>3, <2>1, <2>2
  <2>5. \A i \in 1..(Len(log') - 1) : log'[i] # 0 /\ (log'[i + 1] # 0 => log'[i] < log'[i + 1])
    <3> SUFFICES ASSUME NEW i \in 1..Len(log)
                 PROVE  log'[i] # 0 /\ (log'[i + 1] # 0 => log'[i] < log'[i + 1])
      BY <1>3, <2>1
    <3>1. CASE i = Len(log)
      BY <1>3, <2>1, <2>2, <3>1
    <3>2. CASE i < Len(log)
      BY <1>3, <2>1, <2>2, <3>2 DEF LogInv, LogIsHonest
    <3>3. i = Len(log) \/ i < Len(log)
      <4>1. Len(log) \in Nat
        BY <1>3
      <4> QED BY <4>1
    <3> QED BY <3>1, <3>2, <3>3
  <2> QED BY <1>2, <1>7, <2>1, <2>3, <2>4, <2>5 DEF LogTypes, LogInv, LogIsHonest
<1> QED BY <1>4, <1>6, <1>7 DEF ReadChunk, Tee, logs

\* Every step of every goroutine keeps the invariant.
LEMMA NextIInv == IInv /\ [Next]_vars => IInv'
<1> SUFFICES ASSUME IInv, [Next]_vars PROVE IInv'
  OBVIOUS
<1> USE HubAssumption DEF IInv, pty, logs, rd, ac, mn, conns, hist
<1>1. CASE AgentPrints
  <2>1. OutTypes'
    <3>1. made \in Seq(Sizes) /\ Len(made) < MaxOut /\ nread \in 0..Len(made)
      BY <1>1 DEF AgentPrints, OutTypes
    <3>2. PICK s \in Sizes : made' = Append(made, s)
      BY <1>1 DEF AgentPrints
    <3>3. made' \in Seq(Sizes) /\ Len(made') = Len(made) + 1
      BY <3>1, <3>2
    <3>4. Len(made') <= MaxOut /\ nread \in 0..Len(made')
      BY <3>1, <3>3
    <3> QED BY <1>1, <3>3, <3>4 DEF AgentPrints, OutTypes
  <2>2. ReaderInv'
    BY <1>1 DEF AgentPrints, ReaderInv, SlotTypes
  <2>3. LogTypes' /\ StepTypes' /\ SlotTypes' /\ NetTypes' /\ FrameTypes'
    BY <1>1 DEF AgentPrints, LogTypes, StepTypes, SlotTypes, NetTypes, FrameTypes
  <2>4. PendingInv' /\ MainInv' /\ SentInv' /\ ServedInv' /\ DueInv'
       /\ AttachedIsServed' /\ LogInv'
    BY <1>1 DEF AgentPrints, PendingInv, Pending, Alive, MainInv, SentInv, ServedInv,
       Stays, Served, DueInv, AttachedIsServed, Closing, LogInv, LogIsHonest
  <2> QED BY <2>1, <2>2, <2>3, <2>4
<1>2. CASE AgentExits
  <2>1. OutTypes'
    BY <1>2 DEF AgentExits, OutTypes
  <2>2. ReaderInv'
    BY <1>2 DEF AgentExits, ReaderInv, SlotTypes
  <2>3. LogTypes' /\ StepTypes' /\ SlotTypes' /\ NetTypes' /\ FrameTypes'
    BY <1>2 DEF AgentExits, LogTypes, StepTypes, SlotTypes, NetTypes, FrameTypes
  <2>4. PendingInv' /\ MainInv' /\ SentInv' /\ ServedInv' /\ DueInv'
       /\ AttachedIsServed' /\ LogInv'
    BY <1>2 DEF AgentExits, PendingInv, Pending, Alive, MainInv, SentInv, ServedInv,
       Stays, Served, DueInv, AttachedIsServed, Closing, LogInv, LogIsHonest
  <2> QED BY <2>1, <2>2, <2>3, <2>4
<1>3. CASE ReadChunk
  <2>1. OutTypes'
    BY <1>3, ChunkFacts DEF ReadChunk, OutTypes
  <2>2. LogTypes'
    BY <1>3, TeeFacts
  <2>3. StepTypes'
    BY <1>3 DEF ReadChunk, Tee, Fits, StepTypes
  <2>4. ReaderInv'
    BY <1>3 DEF ReadChunk, Tee, Fits, ReaderInv, SlotTypes, Conns, OutTypes
  <2>5. MainInv'
    BY <1>3 DEF ReadChunk, Tee, Fits, MainInv, After
  <2>6. SentInv'
    BY <1>3 DEF ReadChunk, Tee, Fits, SentInv, Before, After, SlotTypes, Conns,
       ReaderInv, MainInv, OutTypes
  <2>7. ServedInv'
    BY <1>3 DEF ReadChunk, Tee, Fits, ServedInv, Before, Stays, Served
  <2>8. AttachedIsServed'
    BY <1>3 DEF ReadChunk, Tee, Fits, AttachedIsServed, Alive, Closing
  <2>9. LogInv'
    BY <1>3, TeeFacts
  <2>10. SlotTypes' /\ NetTypes' /\ FrameTypes'
    BY <1>3 DEF ReadChunk, SlotTypes, NetTypes, FrameTypes
  <2>11. PendingInv' /\ DueInv'
    BY <1>3 DEF ReadChunk, PendingInv, Pending, Alive, DueInv, Stays
  <2> QED BY <2>1, <2>2, <2>3, <2>4, <2>5, <2>6, <2>7, <2>8, <2>9, <2>10, <2>11
<1>4. CASE ReadEOF
  <2>1. StepTypes'
    BY <1>4 DEF ReadEOF, AtEOF, StepTypes
  <2>2. ReaderInv'
    BY <1>4 DEF ReadEOF, AtEOF, ReaderInv, SlotTypes
  <2>3. MainInv'
    BY <1>4 DEF ReadEOF, AtEOF, MainInv, After
  <2>4. SentInv'
    BY <1>4 DEF ReadEOF, AtEOF, SentInv, Before, After
  <2>5. ServedInv'
    BY <1>4 DEF ReadEOF, AtEOF, ServedInv, Before, Stays, Served
  <2>6. AttachedIsServed'
    BY <1>4 DEF ReadEOF, AtEOF, AttachedIsServed, Alive, Closing
  <2>7. OutTypes' /\ LogTypes' /\ SlotTypes' /\ NetTypes' /\ FrameTypes'
    BY <1>4 DEF ReadEOF, OutTypes, LogTypes, SlotTypes, NetTypes, FrameTypes
  <2>8. PendingInv' /\ DueInv' /\ LogInv'
    BY <1>4 DEF ReadEOF, PendingInv, Pending, Alive, DueInv, Stays, LogInv,
       LogIsHonest
  <2> QED BY <2>1, <2>2, <2>3, <2>4, <2>5, <2>6, <2>7, <2>8
<1>5. CASE BroadcastPick
  <2>1. StepTypes'
    BY <1>5 DEF BroadcastPick, StepTypes
  <2>2. SlotTypes'
    BY <1>5 DEF BroadcastPick, SlotTypes, Conns
  <2>3. ReaderInv'
    BY <1>5 DEF BroadcastPick, ReaderInv, SlotTypes
  <2>4. MainInv'
    BY <1>5 DEF BroadcastPick, MainInv, After
  <2>5. SentInv'
    <3>1. /\ reader = "pick" /\ main \in Before /\ rconn' = slot
          /\ reader' = IF slot = None THEN "read" ELSE "write"
          /\ UNCHANGED <<input, sent, down, main, slot, nread, mconn>>
      BY <1>5 DEF BroadcastPick, MainInv, StepTypes, Before, After
    <3> QED BY <3>1 DEF SentInv
  <2>6. ServedInv'
    BY <1>5 DEF BroadcastPick, ServedInv, Before, Stays, Served
  <2>7. AttachedIsServed'
    BY <1>5 DEF BroadcastPick, AttachedIsServed, Alive, Closing
  <2>8. OutTypes' /\ LogTypes' /\ NetTypes' /\ FrameTypes'
    BY <1>5 DEF BroadcastPick, OutTypes, LogTypes, NetTypes, FrameTypes
  <2>9. PendingInv' /\ DueInv' /\ LogInv'
    BY <1>5 DEF BroadcastPick, PendingInv, Pending, Alive, DueInv, Stays, LogInv,
       LogIsHonest
  <2> QED BY <2>1, <2>2, <2>3, <2>4, <2>5, <2>6, <2>7, <2>8, <2>9
<1>6. CASE BroadcastWrite
  <2>a. rconn \in Clients /\ nread \in 1..Exit /\ nread # Exit
    BY <1>6 DEF BroadcastWrite, OutTypes, SlotTypes, Conns, ReaderInv, Exit
  <2>b. \/ Sent(rconn, nread) /\ reader' = "read" /\ rconn' = None
        \/ UNCHANGED <<down, sent, rconn>> /\ reader' = "clear"
    BY <1>6 DEF BroadcastWrite
  <2>c. Sent(rconn, nread) =>
           /\ down' \in [Clients -> Seq(1..Exit)] /\ sent' \in [Clients -> 0..Exit]
           /\ sent'[rconn] = nread
           /\ \A d \in Clients \ {rconn} : down'[d] = down[d] /\ sent'[d] = sent[d]
           /\ \A i \in DOMAIN down'[rconn] :
                 \/ down'[rconn][i] = nread
                 \/ i \in DOMAIN down[rconn] /\ down'[rconn][i] = down[rconn][i]
    BY <2>a, SentFacts, Zenon
  <2>1. StepTypes'
    BY <1>6 DEF BroadcastWrite, Writable, Broken, Sent, StepTypes
  <2>2. SlotTypes'
    BY <1>6 DEF BroadcastWrite, Writable, Broken, Sent, SlotTypes, Conns
  <2>3. FrameTypes'
    BY <1>6, <2>b, <2>c DEF BroadcastWrite, FrameTypes
  <2>4. ReaderInv'
    BY <1>6 DEF BroadcastWrite, Writable, Broken, Sent, ReaderInv, SlotTypes
  <2>5. MainInv'
    BY <1>6 DEF BroadcastWrite, Writable, Broken, Sent, MainInv, After
  <2>6. SentInv'
    <3>a. /\ main \notin {"pick", "exit"} \cup After /\ reader = "write"
          /\ UNCHANGED <<main, input, slot, nread>>
      BY <1>6 DEF BroadcastWrite, MainInv
    <3>1. CASE UNCHANGED <<down, sent, rconn>> /\ reader' = "clear"
      BY <3>a, <3>1 DEF SentInv
    <3>2. CASE Sent(rconn, nread) /\ reader' = "read" /\ rconn' = None
      <4>1. \A d \in Clients : input'[d] = "none" => sent'[d] = 0 /\ down'[d] = <<>>
        BY <2>a, <2>c, <3>a, <3>2 DEF SentInv, ReaderInv
      <4>2. \A d \in Clients : \A i \in DOMAIN down'[d] : down'[d][i] = Exit => main' \in After
        <5> SUFFICES ASSUME NEW d \in Clients, NEW i \in DOMAIN down'[d], down'[d][i] = Exit
                     PROVE  main' \in After
          OBVIOUS
        <5>1. i \in DOMAIN down[d] /\ down[d][i] = Exit
          BY <2>a, <2>c, <3>2
        <5> QED BY <3>a, <5>1 DEF SentInv
      <4>3. slot' # None => sent'[slot'] \in {0, nread'}
        <5>1. slot \in Conns /\ main \in Before
          BY <3>a DEF SlotTypes, StepTypes, Before, After
        <5>2. slot # None /\ slot # rconn => sent[slot] = 0 /\ sent'[slot] = sent[slot]
          BY <2>c, <3>a, <3>2, <5>1 DEF SentInv, Conns
        <5> QED BY <2>c, <3>a, <3>2, <5>2
      <4> QED BY <3>a, <3>2, <4>1, <4>2, <4>3 DEF SentInv
    <3> QED BY <2>b, <3>1, <3>2
  <2>7. ServedInv'
    BY <1>6 DEF BroadcastWrite, Writable, Broken, Sent, ServedInv, Before, Stays,
       Served
  <2>8. DueInv'
    BY <1>6 DEF BroadcastWrite, Writable, Broken, Sent, DueInv, After, Stays,
       SlotTypes, Conns, NetTypes, FrameTypes, ServedInv, Served, Before, SentInv,
       MainInv
  <2>9. AttachedIsServed'
    BY <1>6 DEF BroadcastWrite, Writable, Broken, Sent, AttachedIsServed, Alive,
       Closing
  <2>10. OutTypes' /\ LogTypes' /\ NetTypes'
    BY <1>6 DEF BroadcastWrite, OutTypes, LogTypes, NetTypes
  <2>11. PendingInv' /\ LogInv'
    BY <1>6 DEF BroadcastWrite, PendingInv, Pending, Alive, LogInv, LogIsHonest
  <2> QED BY <2>1, <2>2, <2>3, <2>4, <2>5, <2>6, <2>7, <2>8, <2>9, <2>10, <2>11
<1>7. CASE BroadcastClear
  <2>1. StepTypes'
    BY <1>7 DEF BroadcastClear, Cleared, StepTypes
  <2>2. SlotTypes'
    BY <1>7 DEF BroadcastClear, Cleared, SlotTypes, Conns
  <2>3. ReaderInv'
    BY <1>7 DEF BroadcastClear, Cleared, ReaderInv, SlotTypes
  <2>4. MainInv'
    BY <1>7 DEF BroadcastClear, Cleared, MainInv, After
  <2>5. SentInv'
    BY <1>7 DEF BroadcastClear, Cleared, SentInv, Before, After
  <2>6. ServedInv'
    BY <1>7 DEF BroadcastClear, Cleared, ServedInv, Before, Stays, Served
  <2>7. DueInv'
    BY <1>7 DEF BroadcastClear, Cleared, DueInv, After, Stays, SlotTypes, Conns,
       ServedInv, Served, Before
  <2>8. AttachedIsServed'
    BY <1>7 DEF BroadcastClear, Cleared, AttachedIsServed, Alive, Closing
  <2>9. OutTypes' /\ LogTypes' /\ NetTypes' /\ FrameTypes'
    BY <1>7 DEF BroadcastClear, OutTypes, LogTypes, NetTypes, FrameTypes
  <2>10. PendingInv' /\ LogInv'
    BY <1>7 DEF BroadcastClear, PendingInv, Pending, Alive, LogInv, LogIsHonest
  <2> QED BY <2>1, <2>2, <2>3, <2>4, <2>5, <2>6, <2>7, <2>8, <2>9, <2>10
<1>8. CASE BroadcastClose
  <2>1. StepTypes'
    BY <1>8 DEF BroadcastClose, Close, StepTypes
  <2>2. SlotTypes'
    BY <1>8 DEF BroadcastClose, Close, SlotTypes, Conns
  <2>3. NetTypes'
    BY <1>8 DEF BroadcastClose, Close, NetTypes
  <2>4. PendingInv'
    BY <1>8 DEF BroadcastClose, Close, PendingInv, Pending, Alive, SlotTypes,
       NetTypes, Conns, ReaderInv
  <2>5. ReaderInv'
    BY <1>8 DEF BroadcastClose, Close, ReaderInv, SlotTypes
  <2>6. MainInv'
    BY <1>8 DEF BroadcastClose, Close, MainInv, After
  <2>7. SentInv'
    BY <1>8 DEF BroadcastClose, Close, SentInv, Before, After, SlotTypes, Conns,
       ReaderInv
  <2>8. ServedInv'
    BY <1>8 DEF BroadcastClose, Close, ServedInv, Before, Stays, Served, SlotTypes,
       Conns
  <2>9. AttachedIsServed'
    BY <1>8 DEF BroadcastClose, Close, AttachedIsServed, Alive, Closing
  <2>10. OutTypes' /\ LogTypes' /\ FrameTypes'
    BY <1>8 DEF BroadcastClose, OutTypes, LogTypes, FrameTypes
  <2>11. DueInv' /\ LogInv'
    BY <1>8 DEF BroadcastClose, DueInv, Stays, LogInv, LogIsHonest
  <2> QED BY <2>1, <2>2, <2>3, <2>4, <2>5, <2>6, <2>7, <2>8, <2>9, <2>10, <2>11
<1>9. CASE Accept
  <2>a. /\ aconn' \in Clients /\ aconn' = backlog[1] /\ 1 \in DOMAIN backlog
        /\ backlog' \in Seq(Clients)
        /\ \A i \in DOMAIN backlog' :
              i + 1 \in DOMAIN backlog /\ backlog'[i] = backlog[i + 1] /\ i + 1 # 1
    BY <1>9, TailFacts DEF Accept, NetTypes
  <2>1. StepTypes'
    BY <1>9 DEF Accept, StepTypes
  <2>2. SlotTypes'
    BY <1>9, <2>a DEF Accept, SlotTypes, Conns
  <2>3. NetTypes'
    BY <1>9, <2>a DEF Accept, NetTypes
  <2>4. PendingInv'
    <3>1. aconn' # None /\ \A d \in Clients : Pending(d)' => Pending(d)
      BY <2>a DEF Pending
    <3>2. \A i, j \in DOMAIN backlog' : i # j => backlog'[i] # backlog'[j]
      <4> SUFFICES ASSUME NEW i \in DOMAIN backlog', NEW j \in DOMAIN backlog', i # j
                   PROVE  backlog'[i] # backlog'[j]
        OBVIOUS
      <4>1. i \in Nat /\ j \in Nat
        BY <2>a
      <4> QED BY <2>a, <4>1 DEF PendingInv
    <3>3. \A i \in DOMAIN backlog' : backlog'[i] # aconn'
      BY <2>a DEF PendingInv
    <3> QED BY <1>9, <3>1, <3>2, <3>3 DEF Accept, PendingInv, Alive
  <2>5. OutTypes' /\ LogTypes' /\ FrameTypes'
    BY <1>9 DEF Accept, OutTypes, LogTypes, FrameTypes
  <2>6. ReaderInv' /\ MainInv' /\ SentInv' /\ ServedInv' /\ DueInv'
       /\ AttachedIsServed' /\ LogInv'
    BY <1>9 DEF Accept, ReaderInv, MainInv, SentInv, ServedInv, Stays, Served, DueInv,
       AttachedIsServed, Alive, Closing, LogInv, LogIsHonest
  <2> QED BY <2>1, <2>2, <2>3, <2>4, <2>5, <2>6
<1>10. CASE AcceptEnds
  <2>1. StepTypes'
    BY <1>10 DEF AcceptEnds, StepTypes
  <2>2. PendingInv'
    BY <1>10 DEF AcceptEnds, PendingInv, Pending, Alive, SlotTypes
  <2>3. OutTypes' /\ LogTypes' /\ SlotTypes' /\ NetTypes' /\ FrameTypes'
    BY <1>10 DEF AcceptEnds, OutTypes, LogTypes, SlotTypes, NetTypes, FrameTypes
  <2>4. ReaderInv' /\ MainInv' /\ SentInv' /\ ServedInv' /\ DueInv'
       /\ AttachedIsServed' /\ LogInv'
    BY <1>10 DEF AcceptEnds, ReaderInv, MainInv, SentInv, ServedInv, Stays, Served,
       DueInv, AttachedIsServed, Alive, Closing, LogInv, LogIsHonest
  <2> QED BY <2>1, <2>2, <2>3, <2>4
<1>11. CASE Register
  <2>1. StepTypes'
    BY <1>11 DEF Register, StepTypes
  <2>2. SlotTypes'
    <3>1. aconn \in Clients
      BY <1>11 DEF Register, SlotTypes, Conns, PendingInv
    <3> QED BY <1>11, <3>1 DEF Register, SlotTypes, Conns
  <2>3. PendingInv'
    <3>1. CASE slot = None
      <4>1. \A d \in Clients : Pending(d)' => Pending(d) /\ d # aconn
        BY <1>11, <3>1 DEF Register, Pending, PendingInv
      <4>2. \A d \in Clients : d # aconn => input'[d] = input[d]
        BY <1>11, <3>1 DEF Register, SlotTypes
      <4>3. Pending(aconn)
        BY DEF Pending
      <4>4. aconn' = None /\ acceptor' = "accept" /\ \A i \in DOMAIN backlog : backlog[i] # None
        BY <1>11, <3>1 DEF Register, NetTypes
      <4> QED BY <1>11, <3>1, <4>1, <4>2, <4>3, <4>4 DEF Register, PendingInv, Alive, SlotTypes
    <3>2. CASE slot # None
      BY <1>11, <3>2 DEF Register, Pending, PendingInv, Alive
    <3> QED BY <3>1, <3>2
  <2>4. ReaderInv'
    BY <1>11 DEF Register, ReaderInv, SlotTypes, Conns, OutTypes, PendingInv, Pending
  <2>5. MainInv'
    BY <1>11 DEF Register, MainInv, After, SlotTypes, Conns
  <2>6. SentInv'
    <3>a. UNCHANGED <<sent, down, main, reader, nread, rconn, mconn>>
      BY <1>11 DEF Register
    <3>1. CASE slot = None
      <4>1. aconn \in Clients /\ input[aconn] = "none" /\ sent[aconn] = 0 /\ slot' = aconn
        BY <1>11, <3>1 DEF Register, PendingInv, Pending, SlotTypes, Conns, SentInv
      <4>2. \A d \in Clients : input'[d] = "none" => input[d] = "none"
        BY <1>11, <3>1 DEF Register, SlotTypes
      <4> QED BY <3>a, <4>1, <4>2 DEF SentInv
    <3>2. CASE slot # None
      BY <1>11, <3>a, <3>2 DEF Register, SentInv
    <3> QED BY <3>1, <3>2
  <2>7. ServedInv'
    BY <1>11 DEF Register, ServedInv, Before, Stays, Served, SlotTypes, Conns,
       PendingInv, Pending, NetTypes, ReaderInv
  <2>8. DueInv'
    BY <1>11 DEF Register, DueInv, After, Stays, NetTypes, FrameTypes
  <2>9. AttachedIsServed'
    BY <1>11 DEF Register, AttachedIsServed, Alive, Closing, SlotTypes, Conns
  <2>10. OutTypes' /\ LogTypes' /\ NetTypes' /\ FrameTypes'
    BY <1>11 DEF Register, OutTypes, LogTypes, NetTypes, FrameTypes
  <2>11. LogInv'
    BY <1>11 DEF Register, LogInv, LogIsHonest
  <2> QED BY <2>1, <2>2, <2>3, <2>4, <2>5, <2>6, <2>7, <2>8, <2>9, <2>10, <2>11
<1>12. CASE Refuse
  <2>1. StepTypes'
    BY <1>12 DEF Refuse, Close, StepTypes
  <2>2. SlotTypes'
    BY <1>12 DEF Refuse, Close, SlotTypes, Conns
  <2>3. NetTypes'
    BY <1>12 DEF Refuse, Close, NetTypes
  <2>4. PendingInv'
    <3>1. /\ aconn \in Clients /\ aconn' = None /\ acceptor' = "accept"
          /\ UNCHANGED <<backlog, input, peer>> /\ backlog \in Seq(Clients)
      BY <1>12 DEF Refuse, SlotTypes, NetTypes, Conns, PendingInv
    <3>2. \A i \in DOMAIN backlog : backlog[i] # None
      BY <3>1
    <3>3. \A d \in Clients : Pending(d)' => Pending(d) /\ d # aconn
      BY <3>1 DEF Pending, PendingInv
    <3>4. \A d \in Clients : d # aconn => hub'[d] = hub[d]
      BY <1>12 DEF Refuse, Close
    <3> QED BY <1>12, <3>1, <3>2, <3>3, <3>4 DEF Refuse, PendingInv, Alive
  <2>5. ServedInv'
    BY <1>12 DEF Refuse, Close, ServedInv, Before, Stays, Served, SlotTypes, Conns,
       PendingInv, Pending
  <2>6. AttachedIsServed'
    BY <1>12 DEF Refuse, Close, AttachedIsServed, Alive, Closing
  <2>7. OutTypes' /\ LogTypes' /\ FrameTypes'
    BY <1>12 DEF Refuse, OutTypes, LogTypes, FrameTypes
  <2>8. ReaderInv' /\ MainInv' /\ SentInv' /\ DueInv' /\ LogInv'
    BY <1>12 DEF Refuse, ReaderInv, MainInv, SentInv, DueInv, Stays, LogInv,
       LogIsHonest
  <2> QED BY <2>1, <2>2, <2>3, <2>4, <2>5, <2>6, <2>7, <2>8
<1>13. ASSUME NEW c \in Clients, InputFrame(c) PROVE IInv'
  <2>1. SlotTypes'
    BY <1>13 DEF InputFrame, SlotTypes, Conns
  <2>2. NetTypes'
    <3>1. up \in [Clients -> 0..Buf] /\ up' = [up EXCEPT ![c] = @ - 1] /\ up[c] > 0
      BY <1>13 DEF InputFrame, NetTypes
    <3>2. up[c] - 1 \in 0..Buf
      BY <1>13, <3>1
    <3> QED BY <1>13, <3>1, <3>2 DEF InputFrame, NetTypes
  <2>3. FrameTypes'
    BY <1>13 DEF InputFrame, FrameTypes
  <2>4. PendingInv'
    BY <1>13 DEF InputFrame, PendingInv, Pending, Alive, SlotTypes
  <2>5. ReaderInv'
    BY <1>13 DEF InputFrame, ReaderInv, SlotTypes, Conns, OutTypes
  <2>6. MainInv'
    BY <1>13 DEF InputFrame, MainInv, After, SlotTypes, Conns
  <2>7. SentInv'
    BY <1>13 DEF InputFrame, SentInv, Before, After, SlotTypes, Conns
  <2>8. ServedInv'
    BY <1>13 DEF InputFrame, ServedInv, Before, Stays, Served, SlotTypes, Conns
  <2>9. DueInv'
    BY <1>13 DEF InputFrame, DueInv, After, Stays
  <2>10. AttachedIsServed'
    BY <1>13 DEF InputFrame, AttachedIsServed, Alive, Closing, SlotTypes, Conns
  <2>11. OutTypes' /\ LogTypes' /\ StepTypes'
    BY <1>13 DEF InputFrame, OutTypes, LogTypes, StepTypes
  <2>12. LogInv'
    BY <1>13 DEF InputFrame, LogInv, LogIsHonest
  <2> QED BY <2>1, <2>2, <2>3, <2>4, <2>5, <2>6, <2>7, <2>8, <2>9, <2>10, <2>11, <2>12
<1>14. ASSUME NEW c \in Clients, InputEnds(c) PROVE IInv'
  <2>1. SlotTypes'
    BY <1>14 DEF InputEnds, SlotTypes, Conns
  <2>2. PendingInv'
    BY <1>14 DEF InputEnds, PendingInv, Pending, Alive, SlotTypes
  <2>3. ReaderInv'
    BY <1>14 DEF InputEnds, ReaderInv, SlotTypes
  <2>4. MainInv'
    BY <1>14 DEF InputEnds, MainInv, After
  <2>5. SentInv'
    BY <1>14 DEF InputEnds, SentInv, Before, After
  <2>6. ServedInv'
    BY <1>14 DEF InputEnds, ServedInv, Before, Stays, Served
  <2>7. AttachedIsServed'
    BY <1>14 DEF InputEnds, AttachedIsServed, Alive, Closing
  <2>8. OutTypes' /\ LogTypes' /\ StepTypes' /\ NetTypes' /\ FrameTypes'
    BY <1>14 DEF InputEnds, OutTypes, LogTypes, StepTypes, NetTypes, FrameTypes
  <2>9. DueInv' /\ LogInv'
    BY <1>14 DEF InputEnds, DueInv, Stays, LogInv, LogIsHonest
  <2> QED BY <2>1, <2>2, <2>3, <2>4, <2>5, <2>6, <2>7, <2>8, <2>9
<1>15. ASSUME NEW c \in Clients, InputClear(c) PROVE IInv'
  <2>1. SlotTypes'
    BY <1>15 DEF InputClear, Cleared, SlotTypes, Conns
  <2>2. PendingInv'
    BY <1>15 DEF InputClear, Cleared, PendingInv, Pending, Alive, SlotTypes
  <2>3. ReaderInv'
    BY <1>15 DEF InputClear, Cleared, ReaderInv, SlotTypes
  <2>4. MainInv'
    BY <1>15 DEF InputClear, Cleared, MainInv, After
  <2>5. SentInv'
    BY <1>15 DEF InputClear, Cleared, SentInv, Before, After
  <2>6. ServedInv'
    BY <1>15 DEF InputClear, Cleared, ServedInv, Before, Stays, Served
  <2>7. DueInv'
    BY <1>15 DEF InputClear, Cleared, DueInv, After, Stays, SlotTypes, Conns,
       ServedInv, Served, Before
  <2>8. AttachedIsServed'
    BY <1>15 DEF InputClear, Cleared, AttachedIsServed, Alive, Closing
  <2>9. OutTypes' /\ LogTypes' /\ StepTypes' /\ NetTypes' /\ FrameTypes'
    BY <1>15 DEF InputClear, OutTypes, LogTypes, StepTypes, NetTypes, FrameTypes
  <2>10. LogInv'
    BY <1>15 DEF InputClear, LogInv, LogIsHonest
  <2> QED BY <2>1, <2>2, <2>3, <2>4, <2>5, <2>6, <2>7, <2>8, <2>9, <2>10
<1>16. ASSUME NEW c \in Clients, InputClose(c) PROVE IInv'
  <2>1. SlotTypes'
    BY <1>16 DEF InputClose, Close, SlotTypes, Conns
  <2>2. NetTypes'
    BY <1>16 DEF InputClose, Close, NetTypes
  <2>3. PendingInv'
    BY <1>16 DEF InputClose, Close, PendingInv, Pending, Alive, SlotTypes
  <2>4. ReaderInv'
    BY <1>16 DEF InputClose, Close, ReaderInv, SlotTypes
  <2>5. MainInv'
    BY <1>16 DEF InputClose, Close, MainInv, After
  <2>6. SentInv'
    BY <1>16 DEF InputClose, Close, SentInv, Before, After
  <2>7. ServedInv'
    BY <1>16 DEF InputClose, Close, ServedInv, Before, Stays, Served, SlotTypes, Conns
  <2>8. AttachedIsServed'
    BY <1>16 DEF InputClose, Close, AttachedIsServed, Alive, Closing
  <2>9. OutTypes' /\ LogTypes' /\ StepTypes' /\ FrameTypes'
    BY <1>16 DEF InputClose, OutTypes, LogTypes, StepTypes, FrameTypes
  <2>10. DueInv' /\ LogInv'
    BY <1>16 DEF InputClose, DueInv, Stays, LogInv, LogIsHonest
  <2> QED BY <2>1, <2>2, <2>3, <2>4, <2>5, <2>6, <2>7, <2>8, <2>9, <2>10
<1>17. ASSUME NEW c \in Clients, Dial(c) PROVE IInv'
  <2>a. \/ backlog' = backlog
        \/ /\ backlog' \in Seq(Clients) /\ DOMAIN backlog' = DOMAIN backlog \cup {Len(backlog) + 1}
           /\ backlog'[Len(backlog) + 1] = c /\ Len(backlog) + 1 \notin DOMAIN backlog
           /\ \A i \in DOMAIN backlog : backlog'[i] = backlog[i]
    <3>1. backlog \in Seq(Clients) /\ c \in Clients
      BY <1>17 DEF NetTypes
    <3>2. backlog' = backlog \/ backlog' = Append(backlog, c)
      BY <1>17 DEF Dial
    <3>3. CASE backlog' = Append(backlog, c)
      BY <3>1, <3>3, AppendFacts
    <3> QED BY <3>2, <3>3
  <2>1. NetTypes'
    <3>1. backlog' \in Seq(Clients)
      BY <2>a DEF NetTypes
    <3> QED BY <1>17, <3>1 DEF Dial, NetTypes
  <2>2. PendingInv'
    <3>1. CASE backlog' = backlog
      BY <1>17, <3>1 DEF Dial, NetTypes, PendingInv, Pending, Alive
    <3>2. CASE backlog' # backlog
      <4>1. \A d \in Clients : Pending(d)' => Pending(d) \/ d = c
        BY <1>17, <2>a, <3>2 DEF Dial, Pending
      <4>2. ~Pending(c) /\ input[c] = "none"
        BY <1>17 DEF Dial, PendingInv
      <4>3. \A i, j \in DOMAIN backlog' : i # j => backlog'[i] # backlog'[j]
        BY <2>a, <3>2, <4>2 DEF PendingInv, Pending
      <4>4. \A i \in DOMAIN backlog' : backlog'[i] # aconn
        BY <2>a, <3>2, <4>2 DEF PendingInv, Pending
      <4> QED BY <1>17, <3>2, <4>1, <4>2, <4>3, <4>4 DEF Dial, NetTypes, PendingInv, Alive
    <3> QED BY <3>1, <3>2
  <2>3. ServedInv'
    BY <1>17 DEF Dial, ServedInv, Before, Stays, Served, SlotTypes, Conns, NetTypes
  <2>4. DueInv'
    BY <1>17 DEF Dial, DueInv, After, Stays, NetTypes, FrameTypes
  <2>5. AttachedIsServed'
    BY <1>17 DEF Dial, AttachedIsServed, Alive, Closing, SlotTypes, Conns, PendingInv,
       Pending, NetTypes
  <2>6. OutTypes' /\ LogTypes' /\ StepTypes' /\ SlotTypes' /\ FrameTypes'
    BY <1>17 DEF Dial, OutTypes, LogTypes, StepTypes, SlotTypes, FrameTypes
  <2>7. ReaderInv' /\ MainInv' /\ SentInv' /\ LogInv'
    BY <1>17 DEF Dial, ReaderInv, MainInv, SentInv, LogInv, LogIsHonest
  <2> QED BY <2>1, <2>2, <2>3, <2>4, <2>5, <2>6, <2>7
<1>18. ASSUME NEW c \in Clients, Type(c) PROVE IInv'
  <2>1. NetTypes'
    BY <1>18 DEF Type, NetTypes
  <2>2. OutTypes' /\ LogTypes' /\ StepTypes' /\ SlotTypes' /\ FrameTypes'
    BY <1>18 DEF Type, OutTypes, LogTypes, StepTypes, SlotTypes, FrameTypes
  <2>3. PendingInv' /\ ReaderInv' /\ MainInv' /\ SentInv' /\ ServedInv' /\ DueInv'
       /\ AttachedIsServed' /\ LogInv'
    BY <1>18 DEF Type, PendingInv, Pending, Alive, ReaderInv, MainInv, SentInv,
       ServedInv, Stays, Served, DueInv, AttachedIsServed, Closing, LogInv,
       LogIsHonest
  <2> QED BY <2>1, <2>2, <2>3
<1>19. ASSUME NEW c \in Clients, Leave(c) PROVE IInv'
  <2>1. NetTypes'
    BY <1>19 DEF Leave, NetTypes
  <2>2. FrameTypes'
    BY <1>19 DEF Leave, FrameTypes
  <2>3. PendingInv'
    BY <1>19 DEF Leave, PendingInv, Pending, Alive, SlotTypes
  <2>4. SentInv'
    BY <1>19 DEF Leave, SentInv, Before, After
  <2>5. ServedInv'
    BY <1>19 DEF Leave, ServedInv, Before, Stays, Served
  <2>6. DueInv'
    BY <1>19 DEF Leave, DueInv, After, Stays
  <2>7. OutTypes' /\ LogTypes' /\ StepTypes' /\ SlotTypes'
    BY <1>19 DEF Leave, OutTypes, LogTypes, StepTypes, SlotTypes
  <2>8. ReaderInv' /\ MainInv' /\ AttachedIsServed' /\ LogInv'
    BY <1>19 DEF Leave, ReaderInv, MainInv, AttachedIsServed, Alive, Closing, LogInv,
       LogIsHonest
  <2> QED BY <2>1, <2>2, <2>3, <2>4, <2>5, <2>6, <2>7, <2>8
<1>20. ASSUME NEW c \in Clients, ClientRead(c) PROVE IInv'
  <2>a. /\ down' \in [Clients -> Seq(1..Exit)]
        /\ Head(down[c]) = down[c][1] /\ 1 \in DOMAIN down[c]
        /\ \A i \in DOMAIN down'[c] : i + 1 \in DOMAIN down[c] /\ down'[c][i] = down[c][i + 1]
        /\ \A d \in Clients \ {c} : down'[d] = down[d]
    <3>1. /\ down \in [Clients -> Seq(1..Exit)] /\ c \in Clients /\ down[c] # <<>>
          /\ down' = [down EXCEPT ![c] = Tail(@)]
      BY <1>20 DEF ClientRead, FrameTypes
    <3>2. down[c] \in Seq(1..Exit)
      BY <3>1
    <3>3. /\ Head(down[c]) = down[c][1] /\ 1 \in DOMAIN down[c] /\ Tail(down[c]) \in Seq(1..Exit)
          /\ \A i \in DOMAIN Tail(down[c]) :
                i + 1 \in DOMAIN down[c] /\ Tail(down[c])[i] = down[c][i + 1]
      BY <3>1, <3>2, TailFacts
    <3> QED BY <3>1, <3>3
  <2>1. NetTypes'
    BY <1>20 DEF ClientRead, NetTypes
  <2>2. FrameTypes'
    BY <1>20, <2>a DEF ClientRead, FrameTypes
  <2>3. PendingInv'
    <3>1. input[c] # "none"
      BY <1>20 DEF ClientRead, SentInv
    <3>2. peer'[c] # "idle" /\ \A d \in Clients \ {c} : peer'[d] = peer[d]
      BY <1>20 DEF ClientRead, NetTypes
    <3>3. UNCHANGED <<aconn, acceptor, backlog, hub, main, input>>
      BY <1>20 DEF ClientRead
    <3> QED BY <3>1, <3>2, <3>3 DEF PendingInv, Pending, Alive
  <2>4. SentInv'
    <3>1. UNCHANGED <<input, sent, main, slot, reader, rconn, nread, mconn>>
      BY <1>20 DEF ClientRead
    <3>2. input[c] # "none"
      BY <1>20 DEF ClientRead, SentInv
    <3>3. \A d \in Clients : \A i \in DOMAIN down'[d] : down'[d][i] = Exit => main' \in After
      BY <2>a, <3>1 DEF SentInv
    <3> QED BY <2>a, <3>1, <3>2, <3>3 DEF SentInv
  <2>5. ServedInv'
    <3>1. peer' # peer => main \in After
      BY <1>20, <2>a DEF ClientRead, SentInv
    <3>2. UNCHANGED <<main, slot, cut, hub, input, reader, rconn>>
      BY <1>20 DEF ClientRead
    <3> QED BY <3>1, <3>2 DEF ServedInv, Served, Stays, Before, After
  <2>6. DueInv'
    BY <1>20 DEF ClientRead, DueInv, After, Stays
  <2>7. OutTypes' /\ LogTypes' /\ StepTypes' /\ SlotTypes'
    BY <1>20 DEF ClientRead, OutTypes, LogTypes, StepTypes, SlotTypes
  <2>8. ReaderInv' /\ MainInv' /\ AttachedIsServed' /\ LogInv'
    BY <1>20 DEF ClientRead, ReaderInv, MainInv, AttachedIsServed, Alive, Closing,
       LogInv, LogIsHonest
  <2> QED BY <2>1, <2>2, <2>3, <2>4, <2>5, <2>6, <2>7, <2>8
<1>21. ASSUME NEW c \in Clients, ClientEOF(c) PROVE IInv'
  <2>1. NetTypes'
    BY <1>21 DEF ClientEOF, NetTypes
  <2>2. PendingInv'
    BY <1>21 DEF ClientEOF, PendingInv, Pending, Alive, SlotTypes
  <2>3. ServedInv'
    BY <1>21 DEF ClientEOF, ServedInv, Before, Stays, Served
  <2>4. DueInv'
    BY <1>21 DEF ClientEOF, DueInv, After, Stays
  <2>5. OutTypes' /\ LogTypes' /\ StepTypes' /\ SlotTypes' /\ FrameTypes'
    BY <1>21 DEF ClientEOF, OutTypes, LogTypes, StepTypes, SlotTypes, FrameTypes
  <2>6. ReaderInv' /\ MainInv' /\ SentInv' /\ AttachedIsServed' /\ LogInv'
    BY <1>21 DEF ClientEOF, ReaderInv, MainInv, SentInv, AttachedIsServed, Alive,
       Closing, LogInv, LogIsHonest
  <2> QED BY <2>1, <2>2, <2>3, <2>4, <2>5, <2>6
<1>22. CASE AgentReaped
  <2>1. StepTypes'
    BY <1>22 DEF AgentReaped, StepTypes
  <2>2. PendingInv'
    BY <1>22 DEF AgentReaped, PendingInv, Pending, Alive, SlotTypes
  <2>3. MainInv'
    BY <1>22 DEF AgentReaped, MainInv, After
  <2>4. SentInv'
    BY <1>22 DEF AgentReaped, SentInv, Before, After
  <2>5. ServedInv'
    BY <1>22 DEF AgentReaped, ServedInv, Before, Stays, Served
  <2>6. DueInv'
    BY <1>22 DEF AgentReaped, DueInv, After, Stays
  <2>7. AttachedIsServed'
    BY <1>22 DEF AgentReaped, AttachedIsServed, Alive, Closing
  <2>8. OutTypes' /\ LogTypes' /\ SlotTypes' /\ NetTypes' /\ FrameTypes'
    BY <1>22 DEF AgentReaped, OutTypes, LogTypes, SlotTypes, NetTypes, FrameTypes
  <2>9. ReaderInv' /\ LogInv'
    BY <1>22 DEF AgentReaped, ReaderInv, LogInv, LogIsHonest
  <2> QED BY <2>1, <2>2, <2>3, <2>4, <2>5, <2>6, <2>7, <2>8, <2>9
<1>23. CASE CloseListener
  <2>1. StepTypes'
    BY <1>23 DEF CloseListener, Close, StepTypes
  <2>2. NetTypes'
    <3>1. /\ hub' \in [Clients -> {"none", "open", "closed"}]
          /\ up' \in [Clients -> 0..Buf]
      BY <1>23 DEF CloseListener, Close, NetTypes
    <3>2. backlog' \in Seq(Clients) /\ listening' = FALSE /\ peer' = peer
      BY <1>23 DEF CloseListener
    <3> QED BY <3>1, <3>2 DEF NetTypes
  <2>3. FrameTypes'
    BY <1>23 DEF CloseListener, SlotTypes, Conns, FrameTypes
  <2>4. PendingInv'
    BY <1>23 DEF CloseListener, Close, PendingInv, Pending, Alive, SlotTypes
  <2>5. MainInv'
    BY <1>23 DEF CloseListener, Close, MainInv, After
  <2>6. SentInv'
    BY <1>23 DEF CloseListener, Close, SentInv, Before, After
  <2>7. ServedInv'
    BY <1>23 DEF CloseListener, Close, ServedInv, Before, Stays, Served, SlotTypes,
       Conns, PendingInv, Pending
  <2>8. DueInv'
    BY <1>23 DEF CloseListener, Close, DueInv, After, Stays
  <2>9. AttachedIsServed'
    BY <1>23 DEF CloseListener, Close, AttachedIsServed, Alive, Closing
  <2>10. OutTypes' /\ LogTypes' /\ SlotTypes'
    BY <1>23 DEF CloseListener, OutTypes, LogTypes, SlotTypes
  <2>11. ReaderInv' /\ LogInv'
    BY <1>23 DEF CloseListener, ReaderInv, LogInv, LogIsHonest
  <2> QED BY <2>1, <2>2, <2>3, <2>4, <2>5, <2>6, <2>7, <2>8, <2>9, <2>10, <2>11
<1>24. CASE Drain
  <2>1. StepTypes'
    BY <1>24 DEF Drain, Drained, StepTypes
  <2>2. PendingInv'
    BY <1>24 DEF Drain, Drained, PendingInv, Pending, Alive, SlotTypes
  <2>3. MainInv'
    BY <1>24 DEF Drain, Drained, MainInv, After
  <2>4. SentInv'
    BY <1>24 DEF Drain, Drained, SentInv, Before, After
  <2>5. ServedInv'
    BY <1>24 DEF Drain, Drained, ServedInv, Before, Stays, Served
  <2>6. DueInv'
    BY <1>24 DEF Drain, Drained, DueInv, After, Stays
  <2>7. AttachedIsServed'
    BY <1>24 DEF Drain, Drained, AttachedIsServed, Alive, Closing
  <2>8. OutTypes' /\ LogTypes' /\ SlotTypes' /\ NetTypes' /\ FrameTypes'
    BY <1>24 DEF Drain, OutTypes, LogTypes, SlotTypes, NetTypes, FrameTypes
  <2>9. ReaderInv' /\ LogInv'
    BY <1>24 DEF Drain, ReaderInv, LogInv, LogIsHonest
  <2> QED BY <2>1, <2>2, <2>3, <2>4, <2>5, <2>6, <2>7, <2>8, <2>9
<1>25. CASE ExitPick
  <2>1. StepTypes'
    BY <1>25 DEF ExitPick, StepTypes
  <2>2. SlotTypes'
    BY <1>25 DEF ExitPick, SlotTypes, Conns
  <2>3. PendingInv'
    BY <1>25 DEF ExitPick, PendingInv, Pending, Alive, SlotTypes
  <2>4. MainInv'
    BY <1>25 DEF ExitPick, MainInv, After, SlotTypes, Conns
  <2>5. SentInv'
    BY <1>25 DEF ExitPick, SentInv, Before, After, SlotTypes, Conns, MainInv
  <2>6. ServedInv'
    BY <1>25 DEF ExitPick, ServedInv, Before, Stays, Served
  <2>7. DueInv'
    BY <1>25 DEF ExitPick, DueInv, After, Stays, NetTypes, FrameTypes
  <2>8. AttachedIsServed'
    BY <1>25 DEF ExitPick, AttachedIsServed, Alive, Closing
  <2>9. OutTypes' /\ LogTypes' /\ NetTypes' /\ FrameTypes'
    BY <1>25 DEF ExitPick, OutTypes, LogTypes, NetTypes, FrameTypes
  <2>10. ReaderInv' /\ LogInv'
    BY <1>25 DEF ExitPick, ReaderInv, LogInv, LogIsHonest
  <2> QED BY <2>1, <2>2, <2>3, <2>4, <2>5, <2>6, <2>7, <2>8, <2>9, <2>10
<1>26. CASE ExitWrite
  <2>a. mconn \in Clients /\ Exit \in 1..Exit /\ rconn = None
    BY <1>26 DEF ExitWrite, SlotTypes, Conns, MainInv, ReaderInv, Exit
  <2>b. Sent(mconn, Exit) =>
           /\ down' \in [Clients -> Seq(1..Exit)] /\ sent' \in [Clients -> 0..Exit]
           /\ sent'[mconn] = Exit
           /\ \A d \in Clients \ {mconn} : down'[d] = down[d] /\ sent'[d] = sent[d]
    BY <2>a, SentFacts, Zenon
  <2>1. StepTypes'
    BY <1>26 DEF ExitWrite, Writable, Broken, Sent, StepTypes
  <2>2. FrameTypes'
    BY <1>26, <2>b DEF ExitWrite, FrameTypes
  <2>3. PendingInv'
    BY <1>26 DEF ExitWrite, Writable, Broken, Sent, PendingInv, Pending, Alive,
       SlotTypes
  <2>4. MainInv'
    BY <1>26 DEF ExitWrite, Writable, Broken, Sent, MainInv, After
  <2>5. SentInv'
    <3>1. input[mconn] # "none" /\ input' = input
      BY <1>26, <2>a DEF ExitWrite, MainInv
    <3>2. \A d \in Clients \ {mconn} : down'[d] = down[d] /\ sent'[d] = sent[d]
      BY <1>26, <2>b DEF ExitWrite
    <3>3. main' = "clear" /\ rconn' = None
      BY <1>26, <2>a DEF ExitWrite
    <3> QED BY <2>a, <3>1, <3>2, <3>3 DEF SentInv, Before, After
  <2>6. ServedInv'
    BY <1>26 DEF ExitWrite, Writable, Broken, Sent, ServedInv, Before, Stays, Served
  <2>7. DueInv'
    BY <1>26 DEF ExitWrite, Writable, Broken, Sent, DueInv, After, Stays, SlotTypes,
       Conns, NetTypes, FrameTypes, ServedInv, Served, Before
  <2>8. AttachedIsServed'
    BY <1>26 DEF ExitWrite, Writable, Broken, Sent, AttachedIsServed, Alive, Closing
  <2>9. OutTypes' /\ LogTypes' /\ SlotTypes' /\ NetTypes'
    BY <1>26 DEF ExitWrite, OutTypes, LogTypes, SlotTypes, NetTypes
  <2>10. ReaderInv' /\ LogInv'
    BY <1>26 DEF ExitWrite, ReaderInv, LogInv, LogIsHonest
  <2> QED BY <2>1, <2>2, <2>3, <2>4, <2>5, <2>6, <2>7, <2>8, <2>9, <2>10
<1>27. CASE CloseClear
  <2>1. StepTypes'
    BY <1>27 DEF CloseClear, StepTypes
  <2>2. SlotTypes'
    BY <1>27 DEF CloseClear, SlotTypes, Conns
  <2>3. PendingInv'
    BY <1>27 DEF CloseClear, PendingInv, Pending, Alive, SlotTypes
  <2>4. ReaderInv'
    BY <1>27 DEF CloseClear, ReaderInv, SlotTypes
  <2>5. MainInv'
    BY <1>27 DEF CloseClear, MainInv, After, SlotTypes, Conns
  <2>6. SentInv'
    BY <1>27 DEF CloseClear, SentInv, Before, After
  <2>7. ServedInv'
    BY <1>27 DEF CloseClear, ServedInv, Before, Stays, Served
  <2>8. DueInv'
    BY <1>27 DEF CloseClear, DueInv, After, Stays
  <2>9. AttachedIsServed'
    BY <1>27 DEF CloseClear, AttachedIsServed, Alive, Closing
  <2>10. OutTypes' /\ LogTypes' /\ NetTypes' /\ FrameTypes'
    BY <1>27 DEF CloseClear, OutTypes, LogTypes, NetTypes, FrameTypes
  <2>11. LogInv'
    BY <1>27 DEF CloseClear, LogInv, LogIsHonest
  <2> QED BY <2>1, <2>2, <2>3, <2>4, <2>5, <2>6, <2>7, <2>8, <2>9, <2>10, <2>11
<1>28. CASE CloseClose
  <2>1. StepTypes'
    BY <1>28 DEF CloseClose, Close, StepTypes
  <2>2. SlotTypes'
    BY <1>28 DEF CloseClose, Close, SlotTypes, Conns
  <2>3. NetTypes'
    BY <1>28 DEF CloseClose, Close, NetTypes
  <2>4. PendingInv'
    <3>1. \A d \in Clients : Pending(d) => hub'[d] = hub[d]
      BY <1>28 DEF CloseClose, Close, MainInv, PendingInv
    <3> QED BY <1>28, <3>1 DEF CloseClose, PendingInv, Pending, Alive
  <2>5. MainInv'
    BY <1>28 DEF CloseClose, Close, MainInv, After
  <2>6. SentInv'
    BY <1>28 DEF CloseClose, Close, SentInv, Before, After
  <2>7. ServedInv'
    BY <1>28 DEF CloseClose, Close, ServedInv, Before, Stays, Served
  <2>8. DueInv'
    BY <1>28 DEF CloseClose, Close, DueInv, After, Stays
  <2>9. AttachedIsServed'
    BY <1>28 DEF CloseClose, Close, AttachedIsServed, Alive, Closing
  <2>10. OutTypes' /\ LogTypes' /\ FrameTypes'
    BY <1>28 DEF CloseClose, OutTypes, LogTypes, FrameTypes
  <2>11. ReaderInv' /\ LogInv'
    BY <1>28 DEF CloseClose, ReaderInv, LogInv, LogIsHonest
  <2> QED BY <2>1, <2>2, <2>3, <2>4, <2>5, <2>6, <2>7, <2>8, <2>9, <2>10, <2>11
<1>29. CASE Finish
  <2>1. StepTypes'
    BY <1>29 DEF Finish, Close, StepTypes
  <2>2. NetTypes'
    BY <1>29 DEF Finish, Close, NetTypes
  <2>3. PendingInv'
    BY <1>29 DEF Finish, Close, PendingInv, Pending, Alive, SlotTypes
  <2>4. MainInv'
    BY <1>29 DEF Finish, Close, MainInv, After
  <2>5. SentInv'
    BY <1>29 DEF Finish, Close, SentInv, Before, After
  <2>6. ServedInv'
    BY <1>29 DEF Finish, Close, ServedInv, Before, Stays, Served
  <2>7. DueInv'
    BY <1>29 DEF Finish, Close, DueInv, After, Stays
  <2>8. AttachedIsServed'
    BY <1>29 DEF Finish, Close, AttachedIsServed, Alive, Closing
  <2>9. OutTypes' /\ LogTypes' /\ SlotTypes' /\ FrameTypes'
    BY <1>29 DEF Finish, OutTypes, LogTypes, SlotTypes, FrameTypes
  <2>10. ReaderInv' /\ LogInv'
    BY <1>29 DEF Finish, ReaderInv, LogInv, LogIsHonest
  <2> QED BY <2>1, <2>2, <2>3, <2>4, <2>5, <2>6, <2>7, <2>8, <2>9, <2>10
<1>30. CASE UNCHANGED vars
  BY <1>30 DEF vars, OutTypes, LogTypes, StepTypes, SlotTypes, NetTypes, FrameTypes,
     PendingInv, ReaderInv, MainInv, SentInv, ServedInv, DueInv, AttachedIsServed,
     LogInv, Pending, Stays, Served, Alive, Closing, LogIsHonest
<1> QED BY <1>1, <1>2, <1>3, <1>4, <1>5, <1>6, <1>7, <1>8, <1>9, <1>10, <1>11, <1>12,
   <1>13, <1>14, <1>15, <1>16, <1>17, <1>18, <1>19, <1>20, <1>21, <1>22, <1>23, <1>24,
   <1>25, <1>26, <1>27, <1>28, <1>29, <1>30, Zenon DEF Next, Reader, Main

\* It holds when the supervisor starts its goroutines.
LEMMA InitIInv == Init => IInv
<1> SUFFICES ASSUME Init PROVE IInv
  OBVIOUS
<1>1. OutTypes /\ LogTypes /\ StepTypes /\ SlotTypes /\ NetTypes /\ FrameTypes
  <2>1. /\ <<>> \in Seq(Sizes) /\ <<>> \in Seq(0..MaxOut) /\ <<>> \in Seq(Clients)
        /\ <<>> \in Seq(1..Exit)
    OBVIOUS
  <2>2. 0 \in 0..Exit /\ 0 \in 0..Buf /\ 0 \in 0..Len(<<>>) /\ Len(<<>>) <= MaxOut
    BY HubAssumption DEF Exit
  <2>3. OutTypes /\ LogTypes /\ StepTypes
    BY <2>1, <2>2 DEF Init, OutTypes, LogTypes, StepTypes
  <2>4. SlotTypes
    BY DEF Init, SlotTypes, Conns
  <2>5. NetTypes /\ FrameTypes
    BY <2>1, <2>2 DEF Init, NetTypes, FrameTypes
  <2> QED BY <2>3, <2>4, <2>5
<1>2. PendingInv
  <2>1. DOMAIN backlog = {}
    BY DEF Init
  <2> QED BY <2>1, HubAssumption DEF Init, PendingInv, Pending
<1>6. ReaderInv /\ MainInv
  BY DEF Init, ReaderInv, MainInv, After
<1>3. SentInv
  BY DEF Init, SentInv, Before, After
<1>4. ServedInv /\ DueInv /\ AttachedIsServed
  BY DEF Init, ServedInv, DueInv, AttachedIsServed, After
<1>5. LogInv
  BY HubAssumption DEF Init, LogInv, LogIsHonest
<1> QED BY <1>1, <1>2, <1>3, <1>4, <1>5, <1>6 DEF IInv

\* The induction.
LEMMA Invariance == Spec => []IInv
  BY InitIInv, NextIInv, PTL DEF Spec

-----------------------------------------------------------------------------

\* Every variable stays in its domain, and the slot never holds a connection that
\* was not registered (acceptLoop).
THEOREM TypeCorrect == Spec => []TypeOK
<1>1. IInv => TypeOK
  BY DEF IInv, OutTypes, LogTypes, StepTypes, SlotTypes, NetTypes, FrameTypes, TypeOK
<1> QED BY <1>1, Invariance, PTL

\* No client is left connected to nobody and no two share the agent: an accepted
\* connection that is open is the one in the slot or is being closed, whichever
\* of the reader, the input loops and the supervisor drops it (acceptLoop,
\* dropConn).
THEOREM ServedOrClosing == Spec => []AttachedIsServed
<1>1. IInv => AttachedIsServed
  BY DEF IInv
<1> QED BY <1>1, Invariance, PTL

\* The client attached when the agent exited, unless it left or its input was
\* refused, has been sent the exit code when the supervisor ends (writeExit,
\* closeConn).
THEOREM ExitTold == Spec => []ExitIsTold
<1>1. IInv => ExitIsTold
  BY DEF IInv, DueInv, ExitIsTold, After, Stays
<1> QED BY <1>1, Invariance, PTL

\* The log holds the output in order, within its cap, and nothing after the
\* marker, whichever writes failed (teeJSONL).
THEOREM HonestLog == Spec => []LogIsHonest
<1>1. IInv => LogIsHonest
  BY DEF IInv, LogInv
<1> QED BY <1>1, Invariance, PTL

\* What a client is sent is one unbroken run of the output with the exit frame
\* last: the only writers are broadcast and writeExit, and each one's connection,
\* picked under the lock and used after it, still has the place in the stream it
\* had then.
THEOREM Unbroken == Spec => StreamUnbroken
<1> DEFINE Kept == \A c \in Clients : sent'[c] # sent[c] => Follows(sent[c], sent'[c])
<1>1. IInv /\ [Next]_vars => [Kept]_vars
  <2> SUFFICES ASSUME IInv, Next, NEW c \in Clients, sent'[c] # sent[c]
               PROVE  Follows(sent[c], sent'[c])
    BY DEF vars
  <2>1. CASE BroadcastWrite
    <3>1. rconn \in Clients /\ nread \in 1..Exit /\ nread # Exit /\ sent[rconn] \in {0, nread - 1}
      BY <2>1, HubAssumption DEF BroadcastWrite, IInv, OutTypes, SlotTypes, Conns, ReaderInv,
         SentInv, Exit
    <3>2. Sent(rconn, nread)
      BY <2>1 DEF BroadcastWrite
    <3>3. c = rconn /\ sent'[c] = nread
      BY <3>1, <3>2, SentFacts DEF IInv
    <3> QED BY <3>1, <3>3 DEF Follows
  <2>2. CASE ExitWrite
    <3>1. /\ mconn \in Clients /\ Exit \in 1..Exit /\ nread = Len(made)
          /\ sent[mconn] \in {0, nread}
      BY <2>2, HubAssumption DEF ExitWrite, IInv, SlotTypes, Conns, MainInv, ReaderInv, SentInv,
         Exit
    <3>2. Sent(mconn, Exit)
      BY <2>2 DEF ExitWrite
    <3>3. c = mconn /\ sent'[c] = Exit
      BY <3>1, <3>2, SentFacts DEF IInv
    <3> QED BY <3>1, <3>3 DEF Follows
  <2>3. CASE UNCHANGED sent
    BY <2>3
  <2>4. BroadcastWrite \/ ExitWrite \/ UNCHANGED sent
    BY DEF Next, Reader, Main, hist, AgentPrints, AgentExits, ReadChunk, ReadEOF,
       BroadcastPick, BroadcastClear, BroadcastClose, Accept, AcceptEnds, Register,
       Refuse, InputFrame, InputEnds, InputClear, InputClose, Dial, Type, Leave,
       ClientRead, ClientEOF, AgentReaped, CloseListener, Drain, ExitPick,
       CloseClear, CloseClose, Finish
  <2> QED BY <2>1, <2>2, <2>3, <2>4
<1> QED BY <1>1, Invariance, PTL DEF Spec, StreamUnbroken

=============================================================================
