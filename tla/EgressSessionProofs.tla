------------------------- MODULE EgressSessionProofs -------------------------
(***************************************************************************)
(* Proofs about EgressSession and its refinement of EgressAuthority, for   *)
(* every set of grants and every revision bound.                           *)
(***************************************************************************)
EXTENDS EgressSessionRefinement, TLAPS

-----------------------------------------------------------------------------
(* The inductive invariant *)

Early   == owner \in {"none", "claimed", "clean", "read"}
Working == pc \in {"recover", "decide", "install", "up", "inspect", "commit"}
Tearing == pc \in {"kill", "reap", "wipe", "verdict"}

\* A created session has no owner, no stage and no proxy; a launch that has
\* not staged anything has no compose file.
BeforeLaunch ==
    /\ rec.status = "Created" => owner = "none" /\ ~compose /\ overlay = {} /\ ~Up
    /\ Early => ~compose
    /\ owner = "read" /\ rec.status = "Running" => snap \subseteq rec.grants

\* A command that works towards a generation holds the record on disk.
WorkingCopy ==
    /\ Working => rec = tx /\ rec.status # "Stopped" /\ kind \in Commands
    /\ pc \in {"recover", "install", "up", "inspect", "commit"} => rec.status = "Running"
    /\ Working /\ rec.status = "Running" /\ pc \notin {"recover", "install"} => ~Early
    /\ pc = "decide" => tx.direction = "none"
    /\ pc = "decide" /\ tx.status = "Running" => tx.applied = Durable(tx)
    /\ kind \in {"grant", "revoke"} => \E g \in Grants : dest = {g}
    /\ pc \in {"decide", "install", "up", "inspect", "commit"} /\ rec.status = "Running" =>
          ~Blocked(tx)
    /\ pc = "idle" => phase = "none" /\ ~restore

\* The goal of an apply, and the record an edit would fall back to.
Target ==
    /\ pc \in {"install", "up", "inspect"} =>
          goal = IF phase = "narrow" THEN tx.candidate ELSE Durable(tx)
    /\ pc \in {"install", "up", "inspect", "commit"} =>
          /\ phase # "none"
          /\ phase = "stable" => tx.direction = "none"
          /\ phase = "repair" => tx.direction # "none"
          /\ phase = "finishNarrow" => pc = "commit"
          /\ phase = "widen" => tx.direction = "widen" /\ kind = "grant"
          /\ phase \in {"finishNarrow", "narrow", "restore", "undo"} => tx.direction = "narrow"
    /\ phase = "widen" /\ pc # "idle" =>
          tx.grants = base.grants \cup dest /\ tx.direction = "widen"
    /\ phase \in {"narrow", "restore", "undo"} => base.grants = tx.grants /\ base.revision = tx.revision

\* While tearing down, the record on disk is the command's copy, its narrowing,
\* or already the stopped record of an earlier attempt.
TearingCopy ==
    Tearing =>
        /\ ~Closing => rec = tx
        /\ Closing => tx.status = "Running"
        /\ tx.status # "Stopped"
        /\ \/ rec.status = tx.status /\ rec.grants = tx.grants
           \/ /\ rec.status = "Running" /\ tx.direction = "narrow"
              /\ rec.grants = tx.candidate.authority /\ ~Blocked(rec)
           \/ /\ rec.status = "Stopped" /\ torn /\ Closing /\ pc = "verdict"
              /\ rec.grants = IF restore THEN base.grants ELSE tx.grants
        /\ restore => \/ phase = "widen" /\ kind = "grant"
                      \/ phase \in {"narrow", "restore", "undo"}

\* Nothing staged or running admits more than a running record grants; the
\* bytes about to be loaded are the goal's; a labelled proxy loaded its label.
RuntimeBound ==
    /\ rec.status = "Running" => overlay \subseteq rec.grants
    /\ rec.status = "Running" /\ Up => proxy.loaded \subseteq rec.grants
    /\ pc \in {"up", "inspect"} /\ compose => overlay = goal.authority
    /\ Up /\ proxy.label.revision > 0 => proxy.loaded = proxy.label.authority
    /\ pc = "commit" /\ phase \in {"narrow", "finishNarrow"} =>
          /\ overlay \subseteq tx.candidate.authority
          /\ Up => proxy.loaded \subseteq tx.candidate.authority

\* A record the store can read back, with no transition outside Running and no
\* applied generation before it.
Sound(r) ==
    /\ validEgressRuntimeState(r) /\ r.revision >= 0
    /\ r.status # "Running" => r.direction = "none"
    /\ r.status = "Created" => r.applied = NoGen

Readable == Sound(rec) /\ Sound(tx) /\ Sound(base)

IInv ==
    /\ TypeOK /\ BeforeLaunch /\ WorkingCopy /\ Target
    /\ TearingCopy /\ RuntimeBound /\ Readable

-----------------------------------------------------------------------------
(* The invariant is inductive *)

\* Every record the engine can write from well-typed parts is well typed.
LEMMA RecordTyping ==
    ASSUME NEW r \in Record, NEW s \in Record, NEW d \in SUBSET Grants
    PROVE  /\ NewRecord \in Record /\ NoGen \in Generation /\ Durable(r) \in Generation
           /\ AppendGrant(r, d) \in Record /\ RevokeGrant(r, d) \in Record
           /\ Claimed(r) \in Record /\ Settled(r) \in Record
           /\ WidenIntent(r, d) \in Record /\ NarrowIntent(r, d) \in Record
           /\ Narrowed(r) \in Record /\ Terminal(r) \in Record
           /\ WithAuthorityOf(r, s) \in Record
           /\ Marked(r) \in Record /\ Cleared(r) \in Record
           /\ r.candidate \in Generation /\ r.grants \in SUBSET Grants
<1>1. NewRecord \in Record /\ NoGen \in Generation
  BY DEF Record, Generation, Statuses, Directions, Failures, NoGen, NewRecord
<1>2. Durable(r) \in Generation
  BY DEF Record, Generation, Gen, Durable
<1>3. AppendGrant(r, d) \in Record
  <2>1. r.grants \cup d \in SUBSET Grants /\ r.revision + 1 \in Int
    BY DEF Record
  <2> QED
    BY <2>1 DEF Record, AppendGrant
<1>4. RevokeGrant(r, d) \in Record
  <2>1. r.grants \ d \in SUBSET Grants /\ r.revision + 1 \in Int
    BY DEF Record
  <2> QED
    BY <2>1 DEF Record, RevokeGrant
<1>5. Claimed(r) \in Record
  BY DEF Record, Statuses, Claimed
<1>6. Settled(r) \in Record
  BY <1>1, <1>2 DEF Record, Directions, Settled
<1>7. WidenIntent(r, d) \in Record
  <2>1. Durable(AppendGrant(r, d)) \in Generation
    BY <1>3 DEF Record, Generation, Gen, Durable
  <2> QED
    BY <1>3, <2>1 DEF Record, Directions, WidenIntent
<1>8. NarrowIntent(r, d) \in Record
  <2>1. Durable(RevokeGrant(r, d)) \in Generation
    BY <1>4 DEF Record, Generation, Gen, Durable
  <2> QED
    BY <2>1 DEF Record, Directions, NarrowIntent
<1>9. Narrowed(r) \in Record
  <2>1. r.candidate.authority \in SUBSET Grants /\ r.candidate.revision \in Int
    BY DEF Record, Generation
  <2> QED
    BY <1>1, <2>1 DEF Record, Directions, Narrowed
<1>10. Terminal(r) \in Record
  BY <1>1 DEF Record, Statuses, Directions, Terminal
<1>11. WithAuthorityOf(r, s) \in Record
  BY DEF Record, WithAuthorityOf
<1>12. Marked(r) \in Record /\ Cleared(r) \in Record
  BY DEF Record, Failures, Marked, Cleared
<1>13. r.candidate \in Generation /\ r.grants \in SUBSET Grants
  BY DEF Record
<1> QED
  BY <1>1, <1>2, <1>3, <1>4, <1>5, <1>6, <1>7, <1>8, <1>9, <1>10, <1>11, <1>12, <1>13

\* So are the proxies and the generations they are labelled with.
LEMMA ProxyTyping ==
    ASSUME NEW a \in SUBSET Grants, NEW h \in Generation
    PROVE  /\ NoProxy \in Proxies /\ ProxyOf(a, h) \in Proxies
           /\ Gen(a, 0) \in Generation /\ h.authority \in SUBSET Grants
<1>1. NoGen \in Generation
  BY DEF NoGen, Generation
<1>2. NoProxy \in Proxies
  BY <1>1 DEF NoProxy, Proxies
<1>3. ProxyOf(a, h) \in Proxies
  BY DEF ProxyOf, Proxies
<1>4. Gen(a, 0) \in Generation /\ h.authority \in SUBSET Grants
  BY DEF Gen, Generation
<1> QED
  BY <1>2, <1>3, <1>4

\* Claiming, settling, narrowing, stopping, marking and restoring keep a record
\* readable.
LEMMA RecordSound ==
    ASSUME NEW r \in Record, NEW s \in Record, Sound(r), Sound(s)
    PROVE  /\ Sound(NewRecord) /\ Sound(Marked(r)) /\ Sound(Cleared(r))
           /\ r.status = "Created" => Sound(Claimed(r))
           /\ r.status = "Running" => Sound(Settled(r))
           /\ Sound(Terminal(r)) /\ Sound(WithAuthorityOf(Terminal(r), s))
           /\ r.direction = "narrow" => Sound(Narrowed(r))
<1> USE DEF Record, Generation, Statuses, Directions, Failures, Gen, NoGen, Durable,
        validEgressRuntimeState, Sound
<1>1. Sound(NewRecord) /\ Sound(Marked(r)) /\ Sound(Cleared(r))
  BY DEF NewRecord, Marked, Cleared
<1>2. r.status = "Created" => Sound(Claimed(r))
  BY DEF Claimed
<1>3. r.status = "Running" => Sound(Settled(r))
  BY DEF Settled
<1>4. Sound(Terminal(r))
  BY DEF Terminal
<1>5. Sound(WithAuthorityOf(Terminal(r), s))
  BY DEF Terminal, WithAuthorityOf
<1>6. r.direction = "narrow" => Sound(Narrowed(r))
  BY DEF Narrowed
<1> QED
  BY <1>1, <1>2, <1>3, <1>4, <1>5, <1>6

\* So do the two edits, made from a settled record.
LEMMA EditSound ==
    ASSUME NEW r \in Record, NEW g \in Grants, Sound(r)
    PROVE  /\ r.status = "Created" => /\ Sound(AppendGrant(r, {g}))
                                      /\ Sound(RevokeGrant(r, {g}))
           /\ r.status = "Running" /\ r.direction = "none" /\ r.applied = Durable(r) =>
                 /\ g \notin r.grants => Sound(WidenIntent(r, {g}))
                 /\ g \in r.grants => Sound(NarrowIntent(r, {g}))
<1> USE DEF Record, Generation, Statuses, Directions, Failures, Gen, NoGen, Durable,
        validEgressRuntimeState, Sound
<1>1. r.status = "Created" => Sound(AppendGrant(r, {g})) /\ Sound(RevokeGrant(r, {g}))
  BY DEF AppendGrant, RevokeGrant
<1>2. ASSUME r.status = "Running", r.direction = "none", r.applied = Durable(r),
             g \notin r.grants
      PROVE  Sound(WidenIntent(r, {g}))
  <2>1. r.grants = (r.grants \cup {g}) \ {g}
    BY <1>2
  <2> QED
    BY <1>2, <2>1 DEF WidenIntent, AppendGrant
<1>3. ASSUME r.status = "Running", r.direction = "none", r.applied = Durable(r),
             g \in r.grants
      PROVE  Sound(NarrowIntent(r, {g}))
  BY <1>3 DEF NarrowIntent, RevokeGrant
<1> QED
  BY <1>1, <1>2, <1>3

\* What the two intent commits write.
LEMMA IntentFields ==
    ASSUME NEW r \in Record, NEW d \in SUBSET Grants
    PROVE  /\ WidenIntent(r, d).grants = r.grants \cup d
           /\ WidenIntent(r, d).direction = "widen"
           /\ WidenIntent(r, d).candidate = Durable(WidenIntent(r, d))
           /\ WidenIntent(r, d).status = r.status /\ WidenIntent(r, d).failure = r.failure
           /\ NarrowIntent(r, d).grants = r.grants
           /\ NarrowIntent(r, d).revision = r.revision
           /\ NarrowIntent(r, d).direction = "narrow"
           /\ NarrowIntent(r, d).status = r.status /\ NarrowIntent(r, d).failure = r.failure
BY DEF Record, WidenIntent, NarrowIntent, AppendGrant, RevokeGrant, Durable, Gen

\* The invariant holds of a new session.
LEMMA InitIInv == Init => IInv
<1> SUFFICES ASSUME Init PROVE IInv
    OBVIOUS
<1>1. TypeOK
  <2>1. Flags
    BY Zenon DEF Init, Flags
  <2>2. NewRecord \in Record /\ NoGen \in Generation /\ NoProxy \in Proxies
    BY DEF NewRecord, Record, Statuses, Directions, Failures, NoGen, Generation,
           NoProxy, Proxies
  <2> QED
    BY <2>1, <2>2 DEF Init, TypeOK, OwnerPCs, PCs, Phases, Kinds, MaxTries, Results
<1>2. BeforeLaunch /\ RuntimeBound
  BY DEF Init, BeforeLaunch, RuntimeBound, Early, Up, NewRecord
<1>3. WorkingCopy /\ Target /\ TearingCopy
  BY DEF Init, WorkingCopy, Target, TearingCopy, Working, Tearing
<1>4. Readable
  BY DEF Init, Readable, Sound, NewRecord, validEgressRuntimeState
<1> QED
  BY <1>1, <1>2, <1>3, <1>4 DEF IInv

\* Every step keeps every variable in its domain.
LEMMA TypeStep == TypeOK /\ [Next]_vars => TypeOK'
<1> SUFFICES ASSUME TypeOK, [Next]_vars PROVE TypeOK'
    OBVIOUS
<1> USE DEF stage, launch, closing, target, driver, vars, Outcomes
<1>1. ASSUME NEW k \in Commands, NEW g \in Grants, Begin(k, g) PROVE TypeOK'
  <2>1. Flags'
    BY <1>1, Zenon DEF TypeOK, Flags, Begin
  <2> QED
    BY <1>1, <2>1, RecordTyping, ProxyTyping
       DEF TypeOK, Kinds, Commands, Phases, PCs, OwnerPCs, Results, MaxTries,
        Inspected, Begin
<1>2. CASE RecoverBlocked
  <2>1. Flags'
    BY <1>2, Zenon DEF TypeOK, Flags, RecoverBlocked, FailClosed
  <2> QED
    BY <1>2, <2>1, RecordTyping, ProxyTyping
       DEF TypeOK, Kinds, Commands, Phases, PCs, OwnerPCs, Results, MaxTries,
        Inspected, RecoverBlocked, FailClosed
<1>3. CASE DecideNoEdit
  <2>1. Flags'
    BY <1>3, Zenon DEF TypeOK, Flags, DecideNoEdit, End
  <2>2. NewRecord \in Record
    BY RecordTyping, ProxyTyping DEF TypeOK
  <2>3. rec' \in Record /\ tx' \in Record /\ base' \in Record
    BY <1>3, <2>2 DEF TypeOK, DecideNoEdit, End
  <2>4. goal' \in Generation /\ proxy' \in Proxies /\ overlay' \in SUBSET Grants
    BY <1>3, <2>2, RecordTyping DEF TypeOK, DecideNoEdit, End
  <2>5. dest' \in SUBSET Grants /\ snap' \in SUBSET Grants /\ owner' \in OwnerPCs
    BY <1>3 DEF TypeOK, OwnerPCs, DecideNoEdit, End
  <2>6. /\ pc' \in PCs /\ phase' \in Phases /\ kind' \in Kinds
        /\ tries' \in 0..MaxTries /\ result' \in Results
    BY <1>3
       DEF TypeOK, Kinds, Commands, Phases, PCs, OwnerPCs, Results, MaxTries,
        DecideNoEdit, End
  <2> QED
    BY <2>1, <2>3, <2>4, <2>5, <2>6 DEF TypeOK
<1>4. ASSUME NEW seen \in {Inspected, NoGen}, Recover(seen) PROVE TypeOK'
  <2>1. Flags'
    BY <1>4, Zenon DEF TypeOK, Flags, Recover, RecoverAs, Goto, StartApply
  <2> QED
    BY <1>4, <2>1, RecordTyping, ProxyTyping
       DEF TypeOK, Kinds, Commands, Phases, PCs, OwnerPCs, Results, MaxTries,
        Inspected, Recover, RecoverAs, Goto, StartApply
<1>5. ASSUME NEW o \in Outcomes, RecoverCommit(o) PROVE TypeOK'
  <2>1. Flags'
    BY <1>5, Zenon
       DEF TypeOK, Flags, RecoverCommit, Commits, Follow, FailClosed
  <2>2. Narrowed(tx) \in Record /\ Settled(tx) \in Record
    BY RecordTyping, ProxyTyping DEF TypeOK
  <2>3. rec' \in Record /\ tx' \in Record /\ base' \in Record
    BY <1>5, <2>2 DEF TypeOK, RecoverCommit, Commits, Follow, FailClosed
  <2>4. goal' \in Generation /\ proxy' \in Proxies /\ overlay' \in SUBSET Grants
    BY <1>5, <2>2, RecordTyping
       DEF TypeOK, RecoverCommit, Commits, Follow, FailClosed
  <2>5. dest' \in SUBSET Grants /\ snap' \in SUBSET Grants /\ owner' \in OwnerPCs
    BY <1>5 DEF TypeOK, OwnerPCs, RecoverCommit, Commits, Follow, FailClosed
  <2>6. /\ pc' \in PCs /\ phase' \in Phases /\ kind' \in Kinds
        /\ tries' \in 0..MaxTries /\ result' \in Results
    BY <1>5
       DEF TypeOK, Kinds, Commands, Phases, PCs, OwnerPCs, Results, MaxTries,
        RecoverCommit, Commits, Follow, FailClosed
  <2> QED
    BY <2>1, <2>3, <2>4, <2>5, <2>6 DEF TypeOK
<1>6. ASSUME NEW o \in Outcomes, EditCreated(o) PROVE TypeOK'
  <2>1. Flags'
    BY <1>6, Zenon DEF TypeOK, Flags, EditCreated, Commits, End
  <2>2. /\ AppendGrant(tx, dest) \in Record /\ RevokeGrant(tx, dest) \in Record
        /\ NewRecord \in Record
    BY RecordTyping, ProxyTyping DEF TypeOK
  <2>3. rec' \in Record /\ tx' \in Record /\ base' \in Record
    BY <1>6, <2>2 DEF TypeOK, EditCreated, Commits, End
  <2>4. goal' \in Generation /\ proxy' \in Proxies /\ overlay' \in SUBSET Grants
    BY <1>6, <2>2, RecordTyping DEF TypeOK, EditCreated, Commits, End
  <2>5. dest' \in SUBSET Grants /\ snap' \in SUBSET Grants /\ owner' \in OwnerPCs
    BY <1>6 DEF TypeOK, OwnerPCs, EditCreated, Commits, End
  <2>6. /\ pc' \in PCs /\ phase' \in Phases /\ kind' \in Kinds
        /\ tries' \in 0..MaxTries /\ result' \in Results
    BY <1>6
       DEF TypeOK, Kinds, Commands, Phases, PCs, OwnerPCs, Results, MaxTries,
        EditCreated, Commits, End
  <2> QED
    BY <2>1, <2>3, <2>4, <2>5, <2>6 DEF TypeOK
<1>7. ASSUME NEW o \in Outcomes, EditIntent(o) PROVE TypeOK'
  <2>1. Flags'
    BY <1>7, Zenon DEF TypeOK, Flags, EditIntent, Commits, End
  <2>2. /\ WidenIntent(tx, dest) \in Record /\ NarrowIntent(tx, dest) \in Record
        /\ NewRecord \in Record
    BY RecordTyping, ProxyTyping DEF TypeOK
  <2>3. rec' \in Record /\ tx' \in Record /\ base' \in Record
    BY <1>7, <2>2 DEF TypeOK, EditIntent, Commits, End
  <2>4. goal' \in Generation /\ proxy' \in Proxies /\ overlay' \in SUBSET Grants
    BY <1>7, <2>2, RecordTyping DEF TypeOK, EditIntent, Commits, End
  <2>5. dest' \in SUBSET Grants /\ snap' \in SUBSET Grants /\ owner' \in OwnerPCs
    BY <1>7 DEF TypeOK, OwnerPCs, EditIntent, Commits, End
  <2>6. /\ pc' \in PCs /\ phase' \in Phases /\ kind' \in Kinds
        /\ tries' \in 0..MaxTries /\ result' \in Results
    BY <1>7
       DEF TypeOK, Kinds, Commands, Phases, PCs, OwnerPCs, Results, MaxTries,
        EditIntent, Commits, End
  <2> QED
    BY <2>1, <2>3, <2>4, <2>5, <2>6 DEF TypeOK
<1>8. ASSUME NEW o \in Outcomes, WidenFinalCommit(o) PROVE TypeOK'
  <2>1. Flags'
    BY <1>8, Zenon
       DEF TypeOK, Flags, WidenFinalCommit, Commits, End, FailClosed
  <2>2. Settled(tx) \in Record /\ NewRecord \in Record
    BY RecordTyping, ProxyTyping DEF TypeOK
  <2>3. rec' \in Record /\ tx' \in Record /\ base' \in Record
    BY <1>8, <2>2 DEF TypeOK, WidenFinalCommit, Commits, End, FailClosed
  <2>4. goal' \in Generation /\ proxy' \in Proxies /\ overlay' \in SUBSET Grants
    BY <1>8, <2>2, RecordTyping
       DEF TypeOK, WidenFinalCommit, Commits, End, FailClosed
  <2>5. dest' \in SUBSET Grants /\ snap' \in SUBSET Grants /\ owner' \in OwnerPCs
    BY <1>8 DEF TypeOK, OwnerPCs, WidenFinalCommit, Commits, End, FailClosed
  <2>6. /\ pc' \in PCs /\ phase' \in Phases /\ kind' \in Kinds
        /\ tries' \in 0..MaxTries /\ result' \in Results
    BY <1>8
       DEF TypeOK, Kinds, Commands, Phases, PCs, OwnerPCs, Results, MaxTries,
        WidenFinalCommit, Commits, End, FailClosed
  <2> QED
    BY <2>1, <2>3, <2>4, <2>5, <2>6 DEF TypeOK
<1>9. ASSUME NEW o \in Outcomes, NarrowFinalCommit(o) PROVE TypeOK'
  <2>1. Flags'
    BY <1>9, Zenon
       DEF TypeOK, Flags, NarrowFinalCommit, Commits, End, FailClosed,
        StartApply
  <2>2. /\ Narrowed(tx) \in Record /\ NewRecord \in Record
        /\ Durable(base) \in Generation
    BY RecordTyping, ProxyTyping DEF TypeOK
  <2>3. rec' \in Record /\ tx' \in Record /\ base' \in Record
    BY <1>9, <2>2
       DEF TypeOK, NarrowFinalCommit, Commits, End, FailClosed, StartApply
  <2>4. goal' \in Generation /\ proxy' \in Proxies /\ overlay' \in SUBSET Grants
    BY <1>9, <2>2, RecordTyping
       DEF TypeOK, NarrowFinalCommit, Commits, End, FailClosed, StartApply
  <2>5. dest' \in SUBSET Grants /\ snap' \in SUBSET Grants /\ owner' \in OwnerPCs
    BY <1>9
       DEF TypeOK, OwnerPCs, NarrowFinalCommit, Commits, End, FailClosed,
        StartApply
  <2>6. /\ pc' \in PCs /\ phase' \in Phases /\ kind' \in Kinds
        /\ tries' \in 0..MaxTries /\ result' \in Results
    BY <1>9
       DEF TypeOK, Kinds, Commands, Phases, PCs, OwnerPCs, Results, MaxTries,
        NarrowFinalCommit, Commits, End, FailClosed, StartApply
  <2> QED
    BY <2>1, <2>3, <2>4, <2>5, <2>6 DEF TypeOK
<1>10. ASSUME NEW o \in Outcomes, RestoreCommit(o) PROVE TypeOK'
  <2>1. Flags'
    BY <1>10, Zenon DEF TypeOK, Flags, RestoreCommit, Commits, End, FailClosed
  <2>2. Settled(tx) \in Record /\ NewRecord \in Record
    BY RecordTyping, ProxyTyping DEF TypeOK
  <2>3. rec' \in Record /\ tx' \in Record /\ base' \in Record
    BY <1>10, <2>2 DEF TypeOK, RestoreCommit, Commits, End, FailClosed
  <2>4. goal' \in Generation /\ proxy' \in Proxies /\ overlay' \in SUBSET Grants
    BY <1>10, <2>2, RecordTyping
       DEF TypeOK, RestoreCommit, Commits, End, FailClosed
  <2>5. dest' \in SUBSET Grants /\ snap' \in SUBSET Grants /\ owner' \in OwnerPCs
    BY <1>10 DEF TypeOK, OwnerPCs, RestoreCommit, Commits, End, FailClosed
  <2>6. /\ pc' \in PCs /\ phase' \in Phases /\ kind' \in Kinds
        /\ tries' \in 0..MaxTries /\ result' \in Results
    BY <1>10
       DEF TypeOK, Kinds, Commands, Phases, PCs, OwnerPCs, Results, MaxTries,
        RestoreCommit, Commits, End, FailClosed
  <2> QED
    BY <2>1, <2>3, <2>4, <2>5, <2>6 DEF TypeOK
<1>11. ASSUME NEW o \in Outcomes, FailClosedVerdict(o) PROVE TypeOK'
  <2>1. Flags'
    BY <1>11, Zenon DEF TypeOK, Flags, FailClosedVerdict, Commits, End
  <2>2. /\ NewRecord \in Record /\ Marked(tx) \in Record
        /\ Marked(Terminal(tx)) \in Record
        /\ Marked(WithAuthorityOf(Terminal(tx), base)) \in Record
    BY RecordTyping, ProxyTyping DEF TypeOK
  <2>3. rec' \in Record /\ tx' \in Record /\ base' \in Record
    BY <1>11, <2>2 DEF TypeOK, FailClosedVerdict, Commits, End
  <2>4. goal' \in Generation /\ proxy' \in Proxies /\ overlay' \in SUBSET Grants
    BY <1>11, <2>2, RecordTyping DEF TypeOK, FailClosedVerdict, Commits, End
  <2>5. dest' \in SUBSET Grants /\ snap' \in SUBSET Grants /\ owner' \in OwnerPCs
    BY <1>11 DEF TypeOK, OwnerPCs, FailClosedVerdict, Commits, End
  <2>6. /\ pc' \in PCs /\ phase' \in Phases /\ kind' \in Kinds
        /\ tries' \in 0..MaxTries /\ result' \in Results
    BY <1>11
       DEF TypeOK, Kinds, Commands, Phases, PCs, OwnerPCs, Results, MaxTries,
        FailClosedVerdict, Commits, End
  <2> QED
    BY <2>1, <2>3, <2>4, <2>5, <2>6 DEF TypeOK
<1>12. ASSUME NEW o \in Outcomes, StopVerdict(o) PROVE TypeOK'
  <2>1. Flags'
    BY <1>12, Zenon DEF TypeOK, Flags, StopVerdict, Commits, End
  <2>2. Terminal(tx) \in Record /\ NewRecord \in Record
    BY RecordTyping, ProxyTyping DEF TypeOK
  <2>3. rec' \in Record /\ tx' \in Record /\ base' \in Record
    BY <1>12, <2>2 DEF TypeOK, StopVerdict, Commits, End
  <2>4. goal' \in Generation /\ proxy' \in Proxies /\ overlay' \in SUBSET Grants
    BY <1>12, <2>2, RecordTyping DEF TypeOK, StopVerdict, Commits, End
  <2>5. dest' \in SUBSET Grants /\ snap' \in SUBSET Grants /\ owner' \in OwnerPCs
    BY <1>12 DEF TypeOK, OwnerPCs, StopVerdict, Commits, End
  <2>6. /\ pc' \in PCs /\ phase' \in Phases /\ kind' \in Kinds
        /\ tries' \in 0..MaxTries /\ result' \in Results
    BY <1>12
       DEF TypeOK, Kinds, Commands, Phases, PCs, OwnerPCs, Results, MaxTries,
        StopVerdict, Commits, End
  <2> QED
    BY <2>1, <2>3, <2>4, <2>5, <2>6 DEF TypeOK
<1>13. CASE Install
  <2>1. Flags'
    BY <1>13, Zenon
       DEF TypeOK, Flags, Install, Goto, ApplyFailed, FailClosed, StartApply
  <2>2. Durable(base) \in Generation /\ goal.authority \in SUBSET Grants
    <3>1. Durable(base) \in Generation
      BY RecordTyping DEF TypeOK
    <3>2. goal.authority \in SUBSET Grants
      BY DEF TypeOK, Generation
    <3> QED
      BY <3>1, <3>2
  <2>3. rec' \in Record /\ tx' \in Record /\ base' \in Record
    BY <1>13, <2>2
       DEF TypeOK, Install, Goto, ApplyFailed, FailClosed, StartApply
  <2>4. goal' \in Generation /\ proxy' \in Proxies /\ overlay' \in SUBSET Grants
    BY <1>13, <2>2, RecordTyping
       DEF TypeOK, Install, Goto, ApplyFailed, FailClosed, StartApply
  <2>5. dest' \in SUBSET Grants /\ snap' \in SUBSET Grants /\ owner' \in OwnerPCs
    BY <1>13
       DEF TypeOK, OwnerPCs, Install, Goto, ApplyFailed, FailClosed,
        StartApply
  <2>6. /\ pc' \in PCs /\ phase' \in Phases /\ kind' \in Kinds
        /\ tries' \in 0..MaxTries /\ result' \in Results
    BY <1>13
       DEF TypeOK, Kinds, Commands, Phases, PCs, OwnerPCs, Results, MaxTries,
        Install, Goto, ApplyFailed, FailClosed, StartApply
  <2> QED
    BY <2>1, <2>3, <2>4, <2>5, <2>6 DEF TypeOK
<1>14. CASE Replace
  <2>1. Flags'
    BY <1>14, Zenon
       DEF TypeOK, Flags, Replace, Goto, ApplyFailed, FailClosed, StartApply
  <2>2. /\ Durable(base) \in Generation /\ NoProxy \in Proxies
        /\ ProxyOf(overlay, goal) \in Proxies
    <3>1. Durable(base) \in Generation
      BY RecordTyping DEF TypeOK
    <3>2. NoProxy \in Proxies /\ ProxyOf(overlay, goal) \in Proxies
      BY ProxyTyping DEF TypeOK
    <3> QED
      BY <3>1, <3>2
  <2>3. rec' \in Record /\ tx' \in Record /\ base' \in Record
    BY <1>14, <2>2
       DEF TypeOK, Replace, Goto, ApplyFailed, FailClosed, StartApply
  <2>4. goal' \in Generation /\ proxy' \in Proxies /\ overlay' \in SUBSET Grants
    BY <1>14, <2>2, RecordTyping
       DEF TypeOK, Replace, Goto, ApplyFailed, FailClosed, StartApply
  <2>5. dest' \in SUBSET Grants /\ snap' \in SUBSET Grants /\ owner' \in OwnerPCs
    BY <1>14
       DEF TypeOK, OwnerPCs, Replace, Goto, ApplyFailed, FailClosed,
        StartApply
  <2>6. /\ pc' \in PCs /\ phase' \in Phases /\ kind' \in Kinds
        /\ tries' \in 0..MaxTries /\ result' \in Results
    BY <1>14
       DEF TypeOK, Kinds, Commands, Phases, PCs, OwnerPCs, Results, MaxTries,
        Replace, Goto, ApplyFailed, FailClosed, StartApply
  <2> QED
    BY <2>1, <2>3, <2>4, <2>5, <2>6 DEF TypeOK
<1>15. CASE Acknowledge
  <2>1. Flags'
    BY <1>15, Zenon
       DEF TypeOK, Flags, Acknowledge, Goto, ApplyFailed, FailClosed,
        StartApply
  <2>2. Durable(base) \in Generation
    BY RecordTyping, ProxyTyping DEF TypeOK
  <2>3. rec' \in Record /\ tx' \in Record /\ base' \in Record
    BY <1>15, <2>2
       DEF TypeOK, Acknowledge, Goto, ApplyFailed, FailClosed, StartApply
  <2>4. goal' \in Generation /\ proxy' \in Proxies /\ overlay' \in SUBSET Grants
    BY <1>15, <2>2, RecordTyping
       DEF TypeOK, Acknowledge, Goto, ApplyFailed, FailClosed, StartApply
  <2>5. dest' \in SUBSET Grants /\ snap' \in SUBSET Grants /\ owner' \in OwnerPCs
    BY <1>15
       DEF TypeOK, OwnerPCs, Acknowledge, Goto, ApplyFailed, FailClosed,
        StartApply
  <2>6. /\ pc' \in PCs /\ phase' \in Phases /\ kind' \in Kinds
        /\ tries' \in 0..MaxTries /\ result' \in Results
    BY <1>15
       DEF TypeOK, Kinds, Commands, Phases, PCs, OwnerPCs, Results, MaxTries,
        Acknowledge, Goto, ApplyFailed, FailClosed, StartApply
  <2> QED
    BY <2>1, <2>3, <2>4, <2>5, <2>6 DEF TypeOK
<1>16. CASE Kill
  <2>1. Flags'
    BY <1>16, Zenon DEF TypeOK, Flags, Kill, Effected, Failed, End
  <2>2. NewRecord \in Record
    BY RecordTyping, ProxyTyping DEF TypeOK
  <2>3. rec' \in Record /\ tx' \in Record /\ base' \in Record
    BY <1>16, <2>2 DEF TypeOK, Kill, Effected, Failed, End
  <2>4. goal' \in Generation /\ proxy' \in Proxies /\ overlay' \in SUBSET Grants
    BY <1>16, <2>2, RecordTyping DEF TypeOK, Kill, Effected, Failed, End
  <2>5. dest' \in SUBSET Grants /\ snap' \in SUBSET Grants /\ owner' \in OwnerPCs
    BY <1>16 DEF TypeOK, OwnerPCs, Kill, Effected, Failed, End
  <2>6. /\ pc' \in PCs /\ phase' \in Phases /\ kind' \in Kinds
        /\ tries' \in 0..MaxTries /\ result' \in Results
    BY <1>16
       DEF TypeOK, Kinds, Commands, Phases, PCs, OwnerPCs, Results, MaxTries,
        Kill, Effected, Failed, End
  <2> QED
    BY <2>1, <2>3, <2>4, <2>5, <2>6 DEF TypeOK
<1>17. CASE Reap
  <2>1. Flags'
    BY <1>17, Zenon DEF TypeOK, Flags, Reap, Effected, Failed, End
  <2>2. NewRecord \in Record /\ NoProxy \in Proxies
    BY RecordTyping, ProxyTyping DEF TypeOK
  <2>3. rec' \in Record /\ tx' \in Record /\ base' \in Record
    BY <1>17, <2>2 DEF TypeOK, Reap, Effected, Failed, End
  <2>4. goal' \in Generation /\ proxy' \in Proxies /\ overlay' \in SUBSET Grants
    BY <1>17, <2>2, RecordTyping DEF TypeOK, Reap, Effected, Failed, End
  <2>5. dest' \in SUBSET Grants /\ snap' \in SUBSET Grants /\ owner' \in OwnerPCs
    BY <1>17 DEF TypeOK, OwnerPCs, Reap, Effected, Failed, End
  <2>6. /\ pc' \in PCs /\ phase' \in Phases /\ kind' \in Kinds
        /\ tries' \in 0..MaxTries /\ result' \in Results
    BY <1>17
       DEF TypeOK, Kinds, Commands, Phases, PCs, OwnerPCs, Results, MaxTries,
        Reap, Effected, Failed, End
  <2> QED
    BY <2>1, <2>3, <2>4, <2>5, <2>6 DEF TypeOK
<1>18. CASE Wipe
  <2>1. Flags'
    BY <1>18, Zenon DEF TypeOK, Flags, Wipe, Effected, Failed, End
  <2> QED
    BY <1>18, <2>1, RecordTyping, ProxyTyping
       DEF TypeOK, Kinds, Commands, Phases, PCs, OwnerPCs, Results, MaxTries,
        Inspected, Wipe, Effected, Failed, End
<1>19. CASE BeginStop
  <2>1. Flags'
    BY <1>19, Zenon DEF TypeOK, Flags, BeginStop
  <2> QED
    BY <1>19, <2>1, RecordTyping, ProxyTyping
       DEF TypeOK, Kinds, Commands, Phases, PCs, OwnerPCs, Results, MaxTries,
        Inspected, BeginStop
<1>20. CASE BeginReconcile
  <2>1. Flags'
    BY <1>20, Zenon DEF TypeOK, Flags, BeginReconcile
  <2> QED
    BY <1>20, <2>1, RecordTyping, ProxyTyping
       DEF TypeOK, Kinds, Commands, Phases, PCs, OwnerPCs, Results, MaxTries,
        Inspected, BeginReconcile
<1>21. CASE StopStopped
  <2>1. Flags'
    BY <1>21, Zenon DEF TypeOK, Flags, StopStopped
  <2> QED
    BY <1>21, <2>1, RecordTyping, ProxyTyping
       DEF TypeOK, Kinds, Commands, Phases, PCs, OwnerPCs, Results, MaxTries,
        Inspected, StopStopped
<1>22. CASE Crash
  <2>1. Flags'
    BY <1>22, Zenon DEF TypeOK, Flags, Crash, End
  <2> QED
    BY <1>22, <2>1, RecordTyping, ProxyTyping
       DEF TypeOK, Kinds, Commands, Phases, PCs, OwnerPCs, Results, MaxTries,
        Inspected, Crash, End
<1>23. ASSUME NEW o \in Outcomes, Claim(o) PROVE TypeOK'
  <2>1. Flags'
    BY <1>23, Zenon DEF TypeOK, Flags, Claim, Commits
  <2> QED
    BY <1>23, <2>1, RecordTyping, ProxyTyping
       DEF TypeOK, Kinds, Commands, Phases, PCs, OwnerPCs, Results, MaxTries,
        Inspected, Claim, Commits
<1>24. CASE OwnerClean
  <2>1. Flags'
    BY <1>24, Zenon DEF TypeOK, Flags, OwnerClean, OwnerStep
  <2> QED
    BY <1>24, <2>1, RecordTyping, ProxyTyping
       DEF TypeOK, Kinds, Commands, Phases, PCs, OwnerPCs, Results, MaxTries,
        Inspected, OwnerClean, OwnerStep
<1>25. CASE OwnerRead
  <2>1. Flags'
    BY <1>25, Zenon DEF TypeOK, Flags, OwnerRead, OwnerStep
  <2> QED
    BY <1>25, <2>1, RecordTyping, ProxyTyping
       DEF TypeOK, Kinds, Commands, Phases, PCs, OwnerPCs, Results, MaxTries,
        Inspected, OwnerRead, OwnerStep
<1>26. CASE OwnerMaterialize
  <2>1. Flags'
    BY <1>26, Zenon DEF TypeOK, Flags, OwnerMaterialize, OwnerStep
  <2> QED
    BY <1>26, <2>1, RecordTyping, ProxyTyping
       DEF TypeOK, Kinds, Commands, Phases, PCs, OwnerPCs, Results, MaxTries,
        Inspected, OwnerMaterialize, OwnerStep
<1>27. CASE OwnerUp
  <2>1. Flags'
    BY <1>27, Zenon DEF TypeOK, Flags, OwnerUp, OwnerStep
  <2>2. NoProxy \in Proxies /\ ProxyOf(overlay, Gen(snap, 0)) \in Proxies
    <3>1. Gen(snap, 0) \in Generation
      BY DEF TypeOK, Gen, Generation
    <3> QED
      BY <3>1, ProxyTyping DEF TypeOK
  <2>3. rec' \in Record /\ tx' \in Record /\ base' \in Record
    BY <1>27, <2>2 DEF TypeOK, OwnerUp, OwnerStep
  <2>4. goal' \in Generation /\ proxy' \in Proxies /\ overlay' \in SUBSET Grants
    BY <1>27, <2>2, RecordTyping DEF TypeOK, OwnerUp, OwnerStep
  <2>5. dest' \in SUBSET Grants /\ snap' \in SUBSET Grants /\ owner' \in OwnerPCs
    BY <1>27 DEF TypeOK, OwnerPCs, OwnerUp, OwnerStep
  <2>6. /\ pc' \in PCs /\ phase' \in Phases /\ kind' \in Kinds
        /\ tries' \in 0..MaxTries /\ result' \in Results
    BY <1>27
       DEF TypeOK, Kinds, Commands, Phases, PCs, OwnerPCs, Results, MaxTries,
        OwnerUp, OwnerStep
  <2> QED
    BY <2>1, <2>3, <2>4, <2>5, <2>6 DEF TypeOK
<1>28. CASE OwnerExit
  <2>1. Flags'
    BY <1>28, Zenon DEF TypeOK, Flags, OwnerExit
  <2> QED
    BY <1>28, <2>1, RecordTyping, ProxyTyping
       DEF TypeOK, Kinds, Commands, Phases, PCs, OwnerPCs, Results, MaxTries,
        Inspected, OwnerExit
<1>29. CASE OwnerWipe
  <2>1. Flags'
    BY <1>29, Zenon DEF TypeOK, Flags, OwnerWipe, OwnerStep
  <2> QED
    BY <1>29, <2>1, RecordTyping, ProxyTyping
       DEF TypeOK, Kinds, Commands, Phases, PCs, OwnerPCs, Results, MaxTries,
        Inspected, OwnerWipe, OwnerStep
<1>30. ASSUME NEW o \in Outcomes, OwnerFinish(o) PROVE TypeOK'
  <2>1. Flags'
    BY <1>30, Zenon DEF TypeOK, Flags, OwnerFinish, OwnerStep, Commits
  <2>2. Cleared(Terminal(rec)) \in Record
    BY RecordTyping, ProxyTyping DEF TypeOK
  <2>3. rec' \in Record /\ tx' \in Record /\ base' \in Record
    BY <1>30, <2>2 DEF TypeOK, OwnerFinish, OwnerStep, Commits
  <2>4. goal' \in Generation /\ proxy' \in Proxies /\ overlay' \in SUBSET Grants
    BY <1>30, <2>2, RecordTyping DEF TypeOK, OwnerFinish, OwnerStep, Commits
  <2>5. dest' \in SUBSET Grants /\ snap' \in SUBSET Grants /\ owner' \in OwnerPCs
    BY <1>30 DEF TypeOK, OwnerPCs, OwnerFinish, OwnerStep, Commits
  <2>6. /\ pc' \in PCs /\ phase' \in Phases /\ kind' \in Kinds
        /\ tries' \in 0..MaxTries /\ result' \in Results
    BY <1>30
       DEF TypeOK, Kinds, Commands, Phases, PCs, OwnerPCs, Results, MaxTries,
        OwnerFinish, OwnerStep, Commits
  <2> QED
    BY <2>1, <2>3, <2>4, <2>5, <2>6 DEF TypeOK
<1>31. CASE OwnerDies
  <2>1. Flags'
    BY <1>31, Zenon DEF TypeOK, Flags, OwnerDies
  <2> QED
    BY <1>31, <2>1, RecordTyping, ProxyTyping
       DEF TypeOK, Kinds, Commands, Phases, PCs, OwnerPCs, Results, MaxTries,
        Inspected, OwnerDies
<1>32. CASE ProxyDies
  <2>1. Flags'
    BY <1>32, Zenon DEF TypeOK, Flags, ProxyDies
  <2> QED
    BY <1>32, <2>1, RecordTyping, ProxyTyping
       DEF TypeOK, Kinds, Commands, Phases, PCs, OwnerPCs, Results, MaxTries,
        Inspected, ProxyDies
<1>33. CASE UNCHANGED vars
  <2>1. Flags'
    BY <1>33, Zenon DEF TypeOK, Flags, vars
  <2> QED
    BY <1>33, <2>1, RecordTyping, ProxyTyping
       DEF TypeOK, Kinds, Commands, Phases, PCs, OwnerPCs, Results, MaxTries,
        Inspected, vars
<1> QED
  BY <1>1, <1>2, <1>3, <1>4, <1>5, <1>6, <1>7, <1>8, <1>9, <1>10, <1>11,
     <1>12, <1>13, <1>14, <1>15, <1>16, <1>17, <1>18, <1>19, <1>20, <1>21,
     <1>22, <1>23, <1>24, <1>25, <1>26, <1>27, <1>28, <1>29, <1>30, <1>31,
     <1>32, <1>33
     DEF Next, CommandStep, OwnerStart, OwnerRuns

\* Every step leaves the record, the command's copy and its base readable.
LEMMA ReadableStep == IInv /\ [Next]_vars => Readable'
<1> SUFFICES ASSUME IInv, [Next]_vars PROVE Readable'
    OBVIOUS
<1> USE DEF IInv, Readable, TypeOK, stage, launch, closing, target, driver, vars, Outcomes
<1>0. Sound(NewRecord)
  BY DEF Sound, NewRecord, validEgressRuntimeState
<1>1. ASSUME NEW k \in Commands, NEW g \in Grants, Begin(k, g) PROVE Readable'
  BY <1>1, <1>0 DEF Begin
<1>2. CASE RecoverBlocked
  BY <1>2, <1>0 DEF RecoverBlocked, FailClosed
<1>3. CASE DecideNoEdit
  BY <1>3, <1>0 DEF DecideNoEdit, End
<1>4. ASSUME NEW seen \in {Inspected, NoGen}, Recover(seen) PROVE Readable'
  BY <1>4, <1>0 DEF Recover, RecoverAs, Goto, StartApply
<1>5. ASSUME NEW o \in Outcomes, RecoverCommit(o) PROVE Readable'
  <2>1. Sound(Settled(tx)) /\ (phase = "finishNarrow" => Sound(Narrowed(tx)))
    BY <1>5, RecordSound, RecordTyping
       DEF WorkingCopy, Working, Target, RecoverCommit
  <2> QED
    BY <1>5, <1>0, <2>1 DEF RecoverCommit, Commits, Follow, FailClosed
<1>6. ASSUME NEW o \in Outcomes, EditCreated(o) PROVE Readable'
  <2>1. PICK g \in Grants : dest = {g}
    BY <1>6 DEF WorkingCopy, EditCreated, Edits
  <2>2. Sound(AppendGrant(tx, dest)) /\ Sound(RevokeGrant(tx, dest))
    BY <1>6, <2>1, EditSound DEF EditCreated
  <2> QED
    BY <1>6, <1>0, <2>2 DEF EditCreated, Commits, End, Edits
<1>7. ASSUME NEW o \in Outcomes, EditIntent(o) PROVE Readable'
  <2>1. PICK g \in Grants : dest = {g}
    BY <1>7 DEF WorkingCopy, EditIntent, Edits
  <2>2. tx.direction = "none" /\ tx.applied = Durable(tx) /\ tx.status = "Running"
    BY <1>7 DEF WorkingCopy, EditIntent
  <2>3. kind = "grant" => Sound(WidenIntent(tx, dest))
    BY <1>7, <2>1, <2>2, EditSound DEF EditIntent, Edits
  <2>4. kind # "grant" => Sound(NarrowIntent(tx, dest))
    BY <1>7, <2>1, <2>2, EditSound DEF EditIntent, Edits
  <2> QED
    BY <1>7, <1>0, <2>2, <2>3, <2>4 DEF EditIntent, Commits, End, Edits
<1>8. ASSUME NEW o \in Outcomes, WidenFinalCommit(o) PROVE Readable'
  <2>1. Sound(Settled(tx))
    BY <1>8, RecordSound, RecordTyping
       DEF WorkingCopy, Working, WidenFinalCommit
  <2> QED
    BY <1>8, <1>0, <2>1 DEF WidenFinalCommit, Commits, End, FailClosed
<1>9. ASSUME NEW o \in Outcomes, NarrowFinalCommit(o) PROVE Readable'
  <2>1. Sound(Narrowed(tx))
    BY <1>9, RecordSound, RecordTyping DEF Target, NarrowFinalCommit
  <2> QED
    BY <1>9, <1>0, <2>1
       DEF NarrowFinalCommit, Commits, End, FailClosed, StartApply
<1>10. ASSUME NEW o \in Outcomes, RestoreCommit(o) PROVE Readable'
  <2>1. Sound(Settled(tx))
    BY <1>10, RecordSound, RecordTyping DEF WorkingCopy, Working, RestoreCommit
  <2> QED
    BY <1>10, <1>0, <2>1 DEF RestoreCommit, Commits, End, FailClosed
<1>11. ASSUME NEW o \in Outcomes, FailClosedVerdict(o) PROVE Readable'
  <2>1. /\ Sound(Marked(tx)) /\ Sound(Marked(Terminal(tx)))
        /\ Sound(Marked(WithAuthorityOf(Terminal(tx), base)))
    BY <1>11, RecordSound, RecordTyping DEF FailClosedVerdict
  <2> QED
    BY <1>11, <1>0, <2>1 DEF FailClosedVerdict, Commits, End
<1>12. ASSUME NEW o \in Outcomes, StopVerdict(o) PROVE Readable'
  <2>1. Sound(Terminal(tx))
    BY <1>12, RecordSound, RecordTyping DEF StopVerdict
  <2> QED
    BY <1>12, <1>0, <2>1 DEF StopVerdict, Commits, End
<1>13. CASE Install
  BY <1>13, <1>0 DEF Install, Goto, ApplyFailed, FailClosed, StartApply
<1>14. CASE Replace
  BY <1>14, <1>0 DEF Replace, Goto, ApplyFailed, FailClosed, StartApply
<1>15. CASE Acknowledge
  BY <1>15, <1>0 DEF Acknowledge, Goto, ApplyFailed, FailClosed, StartApply
<1>16. CASE Kill
  BY <1>16, <1>0 DEF Kill, Effected, Failed, End
<1>17. CASE Reap
  BY <1>17, <1>0 DEF Reap, Effected, Failed, End
<1>18. CASE Wipe
  BY <1>18, <1>0 DEF Wipe, Effected, Failed, End
<1>19. CASE BeginStop
  BY <1>19, <1>0 DEF BeginStop
<1>20. CASE BeginReconcile
  BY <1>20, <1>0 DEF BeginReconcile
<1>21. CASE StopStopped
  BY <1>21, <1>0 DEF StopStopped
<1>22. CASE Crash
  BY <1>22, <1>0 DEF Crash, End
<1>23. ASSUME NEW o \in Outcomes, Claim(o) PROVE Readable'
  <2>1. Sound(Claimed(rec))
    BY <1>23, RecordSound, RecordTyping DEF Claim
  <2> QED
    BY <1>23, <1>0, <2>1 DEF Claim, Commits
<1>24. CASE OwnerClean
  BY <1>24, <1>0 DEF OwnerClean, OwnerStep
<1>25. CASE OwnerRead
  BY <1>25, <1>0 DEF OwnerRead, OwnerStep
<1>26. CASE OwnerMaterialize
  BY <1>26, <1>0 DEF OwnerMaterialize, OwnerStep
<1>27. CASE OwnerUp
  BY <1>27, <1>0 DEF OwnerUp, OwnerStep
<1>28. CASE OwnerExit
  BY <1>28, <1>0 DEF OwnerExit
<1>29. CASE OwnerWipe
  BY <1>29, <1>0 DEF OwnerWipe, OwnerStep
<1>30. ASSUME NEW o \in Outcomes, OwnerFinish(o) PROVE Readable'
  <2>1. Sound(Cleared(Terminal(rec)))
    BY <1>30, RecordSound, RecordTyping DEF OwnerFinish
  <2> QED
    BY <1>30, <1>0, <2>1 DEF OwnerFinish, OwnerStep, Commits
<1>31. CASE OwnerDies
  BY <1>31, <1>0 DEF OwnerDies
<1>32. CASE ProxyDies
  BY <1>32, <1>0 DEF ProxyDies
<1>33. CASE UNCHANGED vars
  BY <1>33, <1>0 DEF vars
<1> QED
  BY <1>1, <1>2, <1>3, <1>4, <1>5, <1>6, <1>7, <1>8, <1>9, <1>10, <1>11,
     <1>12, <1>13, <1>14, <1>15, <1>16, <1>17, <1>18, <1>19, <1>20, <1>21,
     <1>22, <1>23, <1>24, <1>25, <1>26, <1>27, <1>28, <1>29, <1>30, <1>31,
     <1>32, <1>33
     DEF Next, CommandStep, OwnerStart, OwnerRuns

\* Every step of the session preserves the invariant.
LEMMA NextIInv == IInv /\ [Next]_vars => IInv'
<1> SUFFICES ASSUME IInv, [Next]_vars PROVE IInv'
    OBVIOUS
<1>0. TypeOK' /\ Readable'
  BY TypeStep, ReadableStep DEF IInv
<1> USE DEF IInv, TypeOK, BeforeLaunch, WorkingCopy, Target, TearingCopy,
        RuntimeBound, Readable, Sound, Early, Working, Tearing, NewRecord, NoProxy,
        NoGen, Record, Generation, Gen, Durable, validEgressRuntimeState,
        Statuses, Directions, Failures, Proxies, Up, Blocked, Kinds, Commands,
        Phases, PCs, OwnerPCs, Results, MaxTries, stage, launch, closing,
        target, driver, vars, Closing, Alive
<1>1. ASSUME NEW k \in Commands, NEW g \in Grants, Begin(k, g) PROVE IInv'
  <2>1. BeforeLaunch'
    BY <1>1 DEF Begin
  <2>2. WorkingCopy'
    BY <1>1 DEF Begin
  <2>3. Target'
    BY <1>1 DEF Begin
  <2>4. TearingCopy'
    BY <1>1 DEF Begin
  <2>5. RuntimeBound'
    BY <1>1 DEF Begin
  <2> QED
    BY <1>0, <2>1, <2>2, <2>3, <2>4, <2>5
<1>2. CASE RecoverBlocked
  <2>1. BeforeLaunch' /\ RuntimeBound'
    BY <1>2 DEF RecoverBlocked, FailClosed
  <2>2. WorkingCopy' /\ Target' /\ TearingCopy'
    BY <1>2 DEF RecoverBlocked, FailClosed
  <2> QED
    BY <1>0, <2>1, <2>2
<1>3. CASE DecideNoEdit
  <2>1. BeforeLaunch' /\ RuntimeBound'
    BY <1>3 DEF DecideNoEdit, End
  <2>2. WorkingCopy' /\ Target' /\ TearingCopy'
    BY <1>3 DEF DecideNoEdit, End
  <2> QED
    BY <1>0, <2>1, <2>2
<1>4. ASSUME NEW seen \in {Inspected, NoGen}, Recover(seen) PROVE IInv'
  <2>1. BeforeLaunch'
    BY <1>4 DEF Recover, RecoverAs, Inspected, Goto, StartApply
  <2>2. WorkingCopy'
    BY <1>4 DEF Recover, RecoverAs, Inspected, Goto, StartApply
  <2>3. Target'
    BY <1>4 DEF Recover, RecoverAs, Inspected, Goto, StartApply
  <2>4. TearingCopy'
    BY <1>4 DEF Recover, RecoverAs, Inspected, Goto, StartApply
  <2>5. RuntimeBound'
    BY <1>4 DEF Recover, RecoverAs, Inspected, Goto, StartApply
  <2> QED
    BY <1>0, <2>1, <2>2, <2>3, <2>4, <2>5
<1>5. ASSUME NEW o \in Outcomes, RecoverCommit(o) PROVE IInv'
  <2>1. BeforeLaunch'
    BY <1>5
       DEF Outcomes, RecoverCommit, Commits, Follow, FailClosed, Narrowed,
        Settled
  <2>2. WorkingCopy'
    BY <1>5
       DEF Outcomes, RecoverCommit, Commits, Follow, FailClosed, Narrowed,
        Settled
  <2>3. Target'
    BY <1>5
       DEF Outcomes, RecoverCommit, Commits, Follow, FailClosed, Narrowed,
        Settled
  <2>4. TearingCopy'
    BY <1>5
       DEF Outcomes, RecoverCommit, Commits, Follow, FailClosed, Narrowed,
        Settled
  <2>5. RuntimeBound'
    BY <1>5
       DEF Outcomes, RecoverCommit, Commits, Follow, FailClosed, Narrowed,
        Settled
  <2> QED
    BY <1>0, <2>1, <2>2, <2>3, <2>4, <2>5
<1>6. ASSUME NEW o \in Outcomes, EditCreated(o) PROVE IInv'
  <2>1. BeforeLaunch' /\ RuntimeBound'
    BY <1>6
       DEF Outcomes, EditCreated, Commits, End, Edits, AppendGrant,
        RevokeGrant
  <2>2. WorkingCopy' /\ Target' /\ TearingCopy'
    BY <1>6
       DEF Outcomes, EditCreated, Commits, End, Edits, AppendGrant,
        RevokeGrant
  <2> QED
    BY <1>0, <2>1, <2>2
<1>7. ASSUME NEW o \in Outcomes, EditIntent(o) PROVE IInv'
  <2>1. BeforeLaunch'
    BY <1>7
       DEF Outcomes, EditIntent, Commits, End, Edits, WidenIntent,
        NarrowIntent, AppendGrant, RevokeGrant
  <2>3. WorkingCopy' /\ Target' /\ TearingCopy'
    <3> HIDE DEF Record, TypeOK, Generation, Durable, Sound, Readable, validEgressRuntimeState,
             RuntimeBound, BeforeLaunch, NoGen, Proxies, NoProxy
    <3>0. tx \in Record /\ dest \in SUBSET Grants
      BY DEF TypeOK
    <3>1. /\ kind \in {"grant", "revoke"} /\ pc = "decide" /\ ~Blocked(tx)
          /\ tx.status = "Running" /\ tx.direction = "none"
      BY <1>7 DEF EditIntent, Edits
    <3>2. CASE o = "old"
      BY <1>7, <3>2 DEF EditIntent, End
    <3>3. CASE o # "old" /\ kind = "grant"
      <4>1. base' = tx /\ tx' = WidenIntent(tx, dest) /\ phase' = "widen" /\ kind' = kind
            /\ dest' = dest /\ rec' = tx'
            /\ (pc' = "kill" \/ (pc' = "install" /\ goal' = tx'.candidate))
        BY <1>7, <3>3 DEF EditIntent, End, Outcomes, Commits
      <4>2. tx'.grants = tx.grants \cup dest /\ tx'.direction = "widen"
            /\ tx'.candidate = Durable(tx') /\ tx'.status = tx.status /\ tx'.failure = tx.failure
        BY <3>0, <4>1, IntentFields
      <4> QED
        BY <3>1, <3>3, <4>1, <4>2
    <3>4. CASE o # "old" /\ kind # "grant"
      <4>1. base' = tx /\ tx' = NarrowIntent(tx, dest) /\ phase' = "narrow" /\ kind' = kind
            /\ dest' = dest /\ rec' = tx'
            /\ (pc' = "kill" \/ (pc' = "install" /\ goal' = tx'.candidate))
        BY <1>7, <3>4 DEF EditIntent, End, Outcomes, Commits
      <4>2. tx'.grants = tx.grants /\ tx'.revision = tx.revision /\ tx'.direction = "narrow"
            /\ tx'.status = tx.status /\ tx'.failure = tx.failure
        BY <3>0, <4>1, IntentFields
      <4> QED
        BY <3>1, <3>4, <4>1, <4>2
    <3> QED
      BY <3>2, <3>3, <3>4
  <2>5. RuntimeBound'
    BY <1>7
       DEF Outcomes, EditIntent, Commits, End, Edits, WidenIntent,
        NarrowIntent, AppendGrant, RevokeGrant
  <2> QED
    BY <1>0, <2>1, <2>3, <2>5
<1>8. ASSUME NEW o \in Outcomes, WidenFinalCommit(o) PROVE IInv'
  <2>1. BeforeLaunch' /\ RuntimeBound'
    BY <1>8 DEF Outcomes, WidenFinalCommit, Commits, End, Settled, FailClosed
  <2>2. WorkingCopy' /\ Target' /\ TearingCopy'
    BY <1>8 DEF Outcomes, WidenFinalCommit, Commits, End, Settled, FailClosed
  <2> QED
    BY <1>0, <2>1, <2>2
<1>9. ASSUME NEW o \in Outcomes, NarrowFinalCommit(o) PROVE IInv'
  <2>1. BeforeLaunch'
    BY <1>9
       DEF Outcomes, NarrowFinalCommit, Commits, End, Narrowed, FailClosed,
        StartApply
  <2>2. WorkingCopy'
    BY <1>9
       DEF Outcomes, NarrowFinalCommit, Commits, End, Narrowed, FailClosed,
        StartApply
  <2>3. Target'
    BY <1>9
       DEF Outcomes, NarrowFinalCommit, Commits, End, Narrowed, FailClosed,
        StartApply
  <2>4. TearingCopy'
    BY <1>9
       DEF Outcomes, NarrowFinalCommit, Commits, End, Narrowed, FailClosed,
        StartApply
  <2>5. RuntimeBound'
    BY <1>9
       DEF Outcomes, NarrowFinalCommit, Commits, End, Narrowed, FailClosed,
        StartApply
  <2> QED
    BY <1>0, <2>1, <2>2, <2>3, <2>4, <2>5
<1>10. ASSUME NEW o \in Outcomes, RestoreCommit(o) PROVE IInv'
  <2>1. BeforeLaunch' /\ RuntimeBound'
    BY <1>10 DEF Outcomes, RestoreCommit, Commits, End, Settled, FailClosed
  <2>2. WorkingCopy' /\ Target' /\ TearingCopy'
    BY <1>10 DEF Outcomes, RestoreCommit, Commits, End, Settled, FailClosed
  <2> QED
    BY <1>0, <2>1, <2>2
<1>11. ASSUME NEW o \in Outcomes, FailClosedVerdict(o) PROVE IInv'
  <2>1. BeforeLaunch'
    BY <1>11
       DEF Outcomes, FailClosedVerdict, Commits, End, Terminal, Marked,
        WithAuthorityOf
  <2>2. WorkingCopy'
    BY <1>11
       DEF Outcomes, FailClosedVerdict, Commits, End, Terminal, Marked,
        WithAuthorityOf
  <2>3. Target'
    BY <1>11
       DEF Outcomes, FailClosedVerdict, Commits, End, Terminal, Marked,
        WithAuthorityOf
  <2>4. TearingCopy'
    BY <1>11
       DEF Outcomes, FailClosedVerdict, Commits, End, Terminal, Marked,
        WithAuthorityOf
  <2>5. RuntimeBound'
    BY <1>11
       DEF Outcomes, FailClosedVerdict, Commits, End, Terminal, Marked,
        WithAuthorityOf
  <2> QED
    BY <1>0, <2>1, <2>2, <2>3, <2>4, <2>5
<1>12. ASSUME NEW o \in Outcomes, StopVerdict(o) PROVE IInv'
  <2>1. BeforeLaunch' /\ RuntimeBound'
    BY <1>12 DEF Outcomes, StopVerdict, Commits, End, Terminal
  <2>2. WorkingCopy' /\ Target' /\ TearingCopy'
    BY <1>12 DEF Outcomes, StopVerdict, Commits, End, Terminal
  <2> QED
    BY <1>0, <2>1, <2>2
<1>13. CASE Install
  <2>1. BeforeLaunch'
    BY <1>13 DEF Install, Inspected, Goto, ApplyFailed, FailClosed, StartApply
  <2>2. WorkingCopy'
    BY <1>13 DEF Install, Inspected, Goto, ApplyFailed, FailClosed, StartApply
  <2>3. Target'
    BY <1>13 DEF Install, Inspected, Goto, ApplyFailed, FailClosed, StartApply
  <2>4. TearingCopy'
    BY <1>13 DEF Install, Inspected, Goto, ApplyFailed, FailClosed, StartApply
  <2>5. RuntimeBound'
    BY <1>13 DEF Install, Inspected, Goto, ApplyFailed, FailClosed, StartApply
  <2> QED
    BY <1>0, <2>1, <2>2, <2>3, <2>4, <2>5
<1>14. CASE Replace
  <2>1. BeforeLaunch'
    BY <1>14 DEF Replace, ProxyOf, Goto, ApplyFailed, FailClosed, StartApply
  <2>2. WorkingCopy'
    BY <1>14 DEF Replace, ProxyOf, Goto, ApplyFailed, FailClosed, StartApply
  <2>3. Target'
    BY <1>14 DEF Replace, ProxyOf, Goto, ApplyFailed, FailClosed, StartApply
  <2>4. TearingCopy'
    BY <1>14 DEF Replace, ProxyOf, Goto, ApplyFailed, FailClosed, StartApply
  <2>5. RuntimeBound'
    BY <1>14 DEF Replace, ProxyOf, Goto, ApplyFailed, FailClosed, StartApply
  <2> QED
    BY <1>0, <2>1, <2>2, <2>3, <2>4, <2>5
<1>15. CASE Acknowledge
  <2>1. BeforeLaunch'
    BY <1>15
       DEF Acknowledge, Inspected, Goto, ApplyFailed, FailClosed, StartApply
  <2>2. WorkingCopy'
    BY <1>15
       DEF Acknowledge, Inspected, Goto, ApplyFailed, FailClosed, StartApply
  <2>3. Target'
    BY <1>15
       DEF Acknowledge, Inspected, Goto, ApplyFailed, FailClosed, StartApply
  <2>4. TearingCopy'
    BY <1>15
       DEF Acknowledge, Inspected, Goto, ApplyFailed, FailClosed, StartApply
  <2>5. RuntimeBound'
    BY <1>15
       DEF Acknowledge, Inspected, Goto, ApplyFailed, FailClosed, StartApply
  <2> QED
    BY <1>0, <2>1, <2>2, <2>3, <2>4, <2>5
<1>16. CASE Kill
  <2>1. BeforeLaunch' /\ RuntimeBound'
    BY <1>16 DEF Kill, Effected, Failed, End
  <2>2. WorkingCopy' /\ Target' /\ TearingCopy'
    BY <1>16 DEF Kill, Effected, Failed, End
  <2> QED
    BY <1>0, <2>1, <2>2
<1>17. CASE Reap
  <2>1. BeforeLaunch' /\ RuntimeBound'
    BY <1>17 DEF Reap, Effected, Failed, End
  <2>2. WorkingCopy' /\ Target' /\ TearingCopy'
    BY <1>17 DEF Reap, Effected, Failed, End
  <2> QED
    BY <1>0, <2>1, <2>2
<1>18. CASE Wipe
  <2>1. BeforeLaunch' /\ RuntimeBound'
    BY <1>18 DEF Wipe, Effected, Failed, End
  <2>2. WorkingCopy' /\ Target' /\ TearingCopy'
    BY <1>18 DEF Wipe, Effected, Failed, End
  <2> QED
    BY <1>0, <2>1, <2>2
<1>19. CASE BeginStop
  <2>1. BeforeLaunch' /\ RuntimeBound'
    BY <1>19 DEF BeginStop
  <2>2. WorkingCopy' /\ Target' /\ TearingCopy'
    BY <1>19 DEF BeginStop
  <2> QED
    BY <1>0, <2>1, <2>2
<1>20. CASE BeginReconcile
  <2>1. BeforeLaunch' /\ RuntimeBound'
    BY <1>20 DEF BeginReconcile
  <2>2. WorkingCopy' /\ Target' /\ TearingCopy'
    BY <1>20 DEF BeginReconcile
  <2> QED
    BY <1>0, <2>1, <2>2
<1>21. CASE StopStopped
  <2>1. BeforeLaunch' /\ RuntimeBound'
    BY <1>21 DEF StopStopped
  <2>2. WorkingCopy' /\ Target' /\ TearingCopy'
    BY <1>21 DEF StopStopped
  <2> QED
    BY <1>0, <2>1, <2>2
<1>22. CASE Crash
  <2>1. BeforeLaunch' /\ RuntimeBound'
    BY <1>22 DEF Crash, End
  <2>2. WorkingCopy' /\ Target' /\ TearingCopy'
    BY <1>22 DEF Crash, End
  <2> QED
    BY <1>0, <2>1, <2>2
<1>23. ASSUME NEW o \in Outcomes, Claim(o) PROVE IInv'
  <2>1. BeforeLaunch' /\ RuntimeBound'
    BY <1>23 DEF Outcomes, Claim, Commits, Claimed
  <2>2. WorkingCopy' /\ Target' /\ TearingCopy'
    BY <1>23 DEF Outcomes, Claim, Commits, Claimed
  <2> QED
    BY <1>0, <2>1, <2>2
<1>24. CASE OwnerClean
  <2>1. BeforeLaunch' /\ RuntimeBound'
    BY <1>24 DEF OwnerClean, OwnerStep
  <2>2. WorkingCopy' /\ Target' /\ TearingCopy'
    BY <1>24 DEF OwnerClean, OwnerStep
  <2> QED
    BY <1>0, <2>1, <2>2
<1>25. CASE OwnerRead
  <2>1. BeforeLaunch' /\ RuntimeBound'
    BY <1>25 DEF OwnerRead, OwnerStep
  <2>2. WorkingCopy' /\ Target' /\ TearingCopy'
    BY <1>25 DEF OwnerRead, OwnerStep
  <2> QED
    BY <1>0, <2>1, <2>2
<1>26. CASE OwnerMaterialize
  <2>1. BeforeLaunch' /\ RuntimeBound'
    BY <1>26 DEF OwnerMaterialize, OwnerStep
  <2>2. WorkingCopy' /\ Target' /\ TearingCopy'
    BY <1>26 DEF OwnerMaterialize, OwnerStep
  <2> QED
    BY <1>0, <2>1, <2>2
<1>27. CASE OwnerUp
  <2>1. BeforeLaunch' /\ RuntimeBound'
    BY <1>27 DEF OwnerUp, OwnerStep, ProxyOf
  <2>2. WorkingCopy' /\ Target' /\ TearingCopy'
    BY <1>27 DEF OwnerUp, OwnerStep, ProxyOf
  <2> QED
    BY <1>0, <2>1, <2>2
<1>28. CASE OwnerExit
  <2>1. BeforeLaunch' /\ RuntimeBound'
    BY <1>28 DEF OwnerExit
  <2>2. WorkingCopy' /\ Target' /\ TearingCopy'
    BY <1>28 DEF OwnerExit
  <2> QED
    BY <1>0, <2>1, <2>2
<1>29. CASE OwnerWipe
  <2>1. BeforeLaunch' /\ RuntimeBound'
    BY <1>29 DEF OwnerWipe, OwnerStep
  <2>2. WorkingCopy' /\ Target' /\ TearingCopy'
    BY <1>29 DEF OwnerWipe, OwnerStep
  <2> QED
    BY <1>0, <2>1, <2>2
<1>30. ASSUME NEW o \in Outcomes, OwnerFinish(o) PROVE IInv'
  <2>1. BeforeLaunch' /\ RuntimeBound'
    BY <1>30 DEF Outcomes, OwnerFinish, OwnerStep, Commits, Terminal, Cleared
  <2>2. WorkingCopy' /\ Target' /\ TearingCopy'
    BY <1>30 DEF Outcomes, OwnerFinish, OwnerStep, Commits, Terminal, Cleared
  <2> QED
    BY <1>0, <2>1, <2>2
<1>31. CASE OwnerDies
  <2>1. BeforeLaunch' /\ RuntimeBound'
    BY <1>31 DEF OwnerDies
  <2>2. WorkingCopy' /\ Target' /\ TearingCopy'
    BY <1>31 DEF OwnerDies
  <2> QED
    BY <1>0, <2>1, <2>2
<1>32. CASE ProxyDies
  <2>1. BeforeLaunch' /\ RuntimeBound'
    BY <1>32 DEF ProxyDies
  <2>2. WorkingCopy' /\ Target' /\ TearingCopy'
    BY <1>32 DEF ProxyDies
  <2> QED
    BY <1>0, <2>1, <2>2
<1>33. CASE UNCHANGED vars
  <2>1. BeforeLaunch' /\ RuntimeBound'
    BY <1>33 DEF vars
  <2>2. WorkingCopy' /\ Target' /\ TearingCopy'
    BY <1>33 DEF vars
  <2> QED
    BY <1>0, <2>1, <2>2
<1> QED
  BY <1>1, <1>2, <1>3, <1>4, <1>5, <1>6, <1>7, <1>8, <1>9, <1>10, <1>11,
     <1>12, <1>13, <1>14, <1>15, <1>16, <1>17, <1>18, <1>19, <1>20, <1>21,
     <1>22, <1>23, <1>24, <1>25, <1>26, <1>27, <1>28, <1>29, <1>30, <1>31,
     <1>32, <1>33
     DEF Next, CommandStep, OwnerStart, OwnerRuns

\* IInv holds in every reachable state of the session.
LEMMA Invariance == Spec => []IInv
<1>1. Init => IInv
  BY InitIInv
<1>2. IInv /\ [Next]_vars => IInv'
  BY NextIInv
<1> QED
  BY <1>1, <1>2, PTL DEF Spec

-----------------------------------------------------------------------------
(* The theorems *)

\* Type correctness: no interleaving of commands, owner and failures takes a
\* variable out of its domain.
THEOREM TypeCorrect == Spec => []TypeOK
<1>1. IInv => TypeOK
  BY DEF IInv
<1> QED
  BY <1>1, Invariance, PTL

\* A running session's proxy never admits a destination its record does not
\* grant, for every number of destinations and edits.
THEOREM RuntimeSafety == Spec => []RuntimeWithinDurable
<1>1. IInv => RuntimeWithinDurable
  BY DEF IInv, RuntimeBound, RuntimeWithinDurable
<1> QED
  BY <1>1, Invariance, PTL

\* Every record on disk passes the store's validation when it is read again.
THEOREM Readability == Spec => []RecordReadable
<1>1. IInv => RecordReadable
  BY DEF IInv, Readable, Sound, RecordReadable
<1> QED
  BY <1>1, Invariance, PTL

\* What a step may do to the record: rewrite it with the same authority, change
\* one destination of a live session, claim it, or stop it.
OneOff(s) == {s} \cup {s \cup {g} : g \in Grants} \cup {s \ {g} : g \in Grants}
SameAuthority == rec'.status = rec.status /\ rec'.grants = rec.grants
EditStep  == /\ rec.status # "Stopped" /\ rec'.status = rec.status
             /\ rec'.grants \in OneOff(rec.grants)
             /\ Blocked(rec) => rec.status # "Running"
ClaimStep == /\ rec.status = "Created" /\ rec'.status = "Running"
             /\ rec'.grants = rec.grants
StopStep  == /\ rec.status # "Stopped" /\ rec'.status = "Stopped"
             /\ rec'.grants \in OneOff(rec.grants)
RecordStep == \/ SameAuthority /\ (Blocked(rec) /\ rec'.status = "Running" => Blocked(rec'))
              \/ EditStep \/ ClaimStep \/ StopStep

\* Every step either leaves the record alone or leaves the proxy alone and
\* changes the record in one of those ways.
LEMMA RecordSteps == IInv /\ [Next]_vars => rec' = rec \/ (proxy' = proxy /\ RecordStep)
<1> SUFFICES ASSUME IInv, [Next]_vars
             PROVE  rec' = rec \/ (proxy' = proxy /\ RecordStep)
    OBVIOUS
<1> USE DEF IInv, stage, launch, closing, target, driver, vars, Outcomes
<1> DEFINE Goal == rec' = rec \/ (proxy' = proxy /\ RecordStep)
<1>1. ASSUME NEW k \in Commands, NEW g \in Grants, Begin(k, g) PROVE Goal
  BY <1>1 DEF Begin
<1>2. CASE RecoverBlocked
  BY <1>2 DEF RecoverBlocked
<1>3. CASE DecideNoEdit
  BY <1>3 DEF DecideNoEdit
<1>4. ASSUME NEW seen \in {Inspected, NoGen}, Recover(seen) PROVE Goal
  BY <1>4 DEF Recover
<1>5. ASSUME NEW o \in Outcomes, RecoverCommit(o) PROVE Goal
  <2>1. CASE rec' = rec
    BY <2>1
  <2>2. CASE rec' = Narrowed(tx) /\ tx.direction = "narrow"
    <3>1. PICK g \in tx.grants : tx.candidate.authority = tx.grants \ {g}
      BY <2>2 DEF Readable, Sound, validEgressRuntimeState
    <3>2. g \in Grants /\ rec'.grants = tx.grants \ {g} /\ rec'.status = tx.status
      BY <2>2, <3>1 DEF TypeOK, Record, Narrowed
    <3> QED
      BY <1>5, <3>2 DEF RecoverCommit, WorkingCopy, Working, RecordStep, EditStep, OneOff
  <2>3. CASE rec' = Settled(tx)
    <3>1. rec'.status = tx.status /\ rec'.grants = tx.grants /\ rec'.failure = tx.failure
      BY <2>3 DEF TypeOK, Record, Settled
    <3> QED
      BY <1>5, <3>1 DEF RecoverCommit, WorkingCopy, Working, RecordStep, SameAuthority, Blocked
  <2> QED
    BY <1>5, <2>1, <2>2, <2>3 DEF RecoverCommit, Commits, Target
<1>6. ASSUME NEW o \in Outcomes, EditCreated(o) PROVE Goal
  <2>1. PICK g \in Grants : dest = {g}
    BY <1>6 DEF WorkingCopy, EditCreated, Edits
  <2>2. rec' = rec \/ (rec'.status = tx.status /\ rec'.grants \in OneOff(tx.grants))
    BY <1>6, <2>1 DEF EditCreated, Commits, AppendGrant, RevokeGrant, TypeOK, Record, OneOff
  <2> QED
    BY <1>6, <2>2 DEF EditCreated, WorkingCopy, Working, RecordStep, EditStep
<1>7. ASSUME NEW o \in Outcomes, EditIntent(o) PROVE Goal
  <2>1. PICK g \in Grants : dest = {g}
    BY <1>7 DEF WorkingCopy, EditIntent, Edits
  <2>2. rec' = rec \/ rec' \in {WidenIntent(tx, dest), NarrowIntent(tx, dest)}
    BY <1>7 DEF EditIntent, Commits
  <2>3. rec' = rec \/ (rec'.status = tx.status /\ rec'.grants \in OneOff(tx.grants))
    <3>1. tx \in Record /\ dest \in SUBSET Grants
      BY DEF TypeOK
    <3> QED
      BY <2>1, <2>2, <3>1, IntentFields DEF OneOff
  <2> QED
    BY <1>7, <2>3 DEF EditIntent, WorkingCopy, Working, RecordStep, EditStep
<1>8. ASSUME NEW o \in Outcomes, WidenFinalCommit(o) PROVE Goal
  <2>1. /\ Settled(tx).status = tx.status /\ Settled(tx).grants = tx.grants
        /\ Settled(tx).failure = tx.failure
    BY DEF TypeOK, Record, Settled
  <2> QED
    BY <1>8, <2>1
       DEF WidenFinalCommit, Commits, WorkingCopy, Working, RecordStep, SameAuthority, Blocked
<1>9. ASSUME NEW o \in Outcomes, NarrowFinalCommit(o) PROVE Goal
  <2>1. CASE rec' = rec
    BY <2>1
  <2>2. CASE rec' = Narrowed(tx) /\ tx.direction = "narrow"
    <3>1. PICK g \in tx.grants : tx.candidate.authority = tx.grants \ {g}
      BY <2>2 DEF Readable, Sound, validEgressRuntimeState
    <3>2. g \in Grants /\ rec'.grants = tx.grants \ {g} /\ rec'.status = tx.status
      BY <2>2, <3>1 DEF TypeOK, Record, Narrowed
    <3> QED
      BY <1>9, <3>2 DEF NarrowFinalCommit, WorkingCopy, Working, RecordStep, EditStep, OneOff
  <2> QED
    BY <1>9, <2>1, <2>2 DEF NarrowFinalCommit, Commits, Target
<1>10. ASSUME NEW o \in Outcomes, RestoreCommit(o) PROVE Goal
  <2>1. /\ Settled(tx).status = tx.status /\ Settled(tx).grants = tx.grants
        /\ Settled(tx).failure = tx.failure
    BY DEF TypeOK, Record, Settled
  <2> QED
    BY <1>10, <2>1
       DEF RestoreCommit, Commits, WorkingCopy, Working, RecordStep, SameAuthority, Blocked
<1>11. ASSUME NEW o \in Outcomes, FailClosedVerdict(o) PROVE Goal
  <2>1. CASE rec' = rec
    BY <2>1
  <2> DEFINE c == Marked(IF torn THEN IF restore THEN WithAuthorityOf(Terminal(tx), base)
                                     ELSE Terminal(tx)
                         ELSE tx)
  <2>2. CASE rec' = c
    <3>1. c.status = IF torn THEN "Stopped" ELSE tx.status
      BY DEF TypeOK, Record, Marked, WithAuthorityOf, Terminal
    <3>2. /\ c.grants = IF torn /\ restore THEN base.grants ELSE tx.grants
          /\ Blocked(c)
      BY DEF TypeOK, Record, Marked, WithAuthorityOf, Terminal, Blocked
    <3>3. restore => base.grants \in OneOff(tx.grants)
      <4>1. restore => \/ phase = "widen" /\ kind = "grant"
                       \/ phase \in {"narrow", "restore", "undo"}
        BY <1>11 DEF FailClosedVerdict, TearingCopy, Tearing
      <4>2. CASE phase = "widen" /\ kind = "grant"
        <5>1. PICK g \in Grants : dest = {g}
          BY <4>2 DEF WorkingCopy
        <5>2. tx.grants = base.grants \cup {g}
          BY <1>11, <4>2, <5>1 DEF Target, FailClosedVerdict
        <5>3. base.grants = tx.grants \/ base.grants = tx.grants \ {g}
          BY <5>2
        <5> QED
          BY <5>3 DEF OneOff
      <4>3. CASE phase \in {"narrow", "restore", "undo"}
        BY <4>3 DEF Target, OneOff
      <4> QED
        BY <4>1, <4>2, <4>3
    <3>4. CASE rec.status = tx.status /\ rec.grants = tx.grants
      <4>1. rec.status = "Running"
        BY <1>11, <3>4 DEF FailClosedVerdict, TearingCopy, Tearing
      <4>2. torn => StopStep
        BY <2>2, <3>1, <3>2, <3>3, <3>4, <4>1 DEF StopStep, OneOff
      <4>3. ~torn => SameAuthority /\ Blocked(rec')
        BY <2>2, <3>1, <3>2, <3>4 DEF SameAuthority
      <4> QED
        BY <1>11, <4>2, <4>3 DEF RecordStep, FailClosedVerdict
    <3>5. CASE /\ rec.status = "Running" /\ tx.direction = "narrow"
               /\ rec.grants = tx.candidate.authority /\ ~Blocked(rec)
      <4>1. PICK g \in tx.grants : rec.grants = tx.grants \ {g}
        BY <3>5 DEF Readable, Sound, validEgressRuntimeState
      <4>2. g \in Grants /\ tx.grants = rec.grants \cup {g}
        BY <4>1 DEF TypeOK, Record
      <4>3. tx.grants \in OneOff(rec.grants)
        BY <4>2 DEF OneOff
      <4>4. restore => base.grants = tx.grants
        BY <1>11, <3>5 DEF FailClosedVerdict, TearingCopy, Tearing, Target
      <4>5. tx.status = "Running"
        BY <1>11 DEF FailClosedVerdict, TearingCopy, Tearing
      <4>6. torn => StopStep
        BY <2>2, <3>1, <3>2, <3>5, <4>3, <4>4 DEF StopStep
      <4>7. ~torn => EditStep
        BY <2>2, <3>1, <3>2, <3>5, <4>3, <4>5 DEF EditStep
      <4> QED
        BY <1>11, <4>6, <4>7 DEF RecordStep, FailClosedVerdict
    <3>6. CASE /\ rec.status = "Stopped" /\ torn
               /\ rec.grants = IF restore THEN base.grants ELSE tx.grants
      BY <1>11, <2>2, <3>1, <3>2, <3>6 DEF RecordStep, SameAuthority, FailClosedVerdict
    <3> QED
      BY <1>11, <3>4, <3>5, <3>6 DEF FailClosedVerdict, TearingCopy, Tearing
  <2> QED
    BY <1>11, <2>1, <2>2 DEF FailClosedVerdict, Commits
<1>12. ASSUME NEW o \in Outcomes, StopVerdict(o) PROVE Goal
  <2>1. Terminal(tx).status = "Stopped" /\ Terminal(tx).grants = tx.grants
    BY DEF TypeOK, Record, Terminal
  <2>2. rec = tx /\ tx.status # "Stopped"
    BY <1>12 DEF StopVerdict, TearingCopy, Tearing
  <2> QED
    BY <1>12, <2>1, <2>2 DEF StopVerdict, Commits, RecordStep, StopStep, OneOff
<1>13. CASE Install
  BY <1>13 DEF Install
<1>14. CASE Replace
  BY <1>14 DEF Replace
<1>15. CASE Acknowledge
  BY <1>15 DEF Acknowledge
<1>16. CASE Kill
  BY <1>16 DEF Kill
<1>17. CASE Reap
  BY <1>17 DEF Reap
<1>18. CASE Wipe
  BY <1>18 DEF Wipe
<1>19. CASE BeginStop
  BY <1>19 DEF BeginStop
<1>20. CASE BeginReconcile
  BY <1>20 DEF BeginReconcile
<1>21. CASE StopStopped
  BY <1>21 DEF StopStopped
<1>22. CASE Crash
  BY <1>22 DEF Crash
<1>23. ASSUME NEW o \in Outcomes, Claim(o) PROVE Goal
  <2>1. Claimed(rec).status = "Running" /\ Claimed(rec).grants = rec.grants
    BY DEF TypeOK, Record, Claimed
  <2> QED
    BY <1>23, <2>1 DEF Claim, Commits, RecordStep, ClaimStep
<1>24. CASE OwnerClean
  BY <1>24 DEF OwnerClean
<1>25. CASE OwnerRead
  BY <1>25 DEF OwnerRead
<1>26. CASE OwnerMaterialize
  BY <1>26 DEF OwnerMaterialize
<1>27. CASE OwnerUp
  BY <1>27 DEF OwnerUp
<1>28. CASE OwnerExit
  BY <1>28 DEF OwnerExit
<1>29. CASE OwnerWipe
  BY <1>29 DEF OwnerWipe
<1>30. ASSUME NEW o \in Outcomes, OwnerFinish(o) PROVE Goal
  <2>1. /\ Cleared(Terminal(rec)).status = "Stopped"
        /\ Cleared(Terminal(rec)).grants = rec.grants
    BY DEF TypeOK, Record, Terminal, Cleared
  <2> QED
    BY <1>30, <2>1 DEF OwnerFinish, Commits, RecordStep, StopStep, SameAuthority, OneOff
<1>31. CASE OwnerDies
  BY <1>31 DEF OwnerDies
<1>32. CASE ProxyDies
  BY <1>32 DEF ProxyDies
<1>33. CASE UNCHANGED vars
  BY <1>33 DEF vars
<1> QED
  BY <1>1, <1>2, <1>3, <1>4, <1>5, <1>6, <1>7, <1>8, <1>9, <1>10, <1>11,
     <1>12, <1>13, <1>14, <1>15, <1>16, <1>17, <1>18, <1>19, <1>20, <1>21,
     <1>22, <1>23, <1>24, <1>25, <1>26, <1>27, <1>28, <1>29, <1>30, <1>31,
     <1>32, <1>33
     DEF Next, CommandStep, OwnerStart, OwnerRuns

\* The marker of an unproven teardown freezes the authority of a running
\* session until it stops.
THEOREM Frozen == Spec => BlockedIsFrozen
<1> DEFINE A == Blocked(rec) /\ rec.status = "Running" /\ rec'.status = "Running" =>
                   Blocked(rec') /\ rec'.grants = rec.grants
<1>1. IInv /\ [Next]_vars => A
  BY RecordSteps DEF RecordStep, SameAuthority, EditStep, ClaimStep, StopStep
<1> QED
  BY <1>1, Invariance, PTL DEF Spec, BlockedIsFrozen

\* A step of the session is a step of the abstract authority, or none.
LEMMA StepRefines ==
    ASSUME IInv, IInv', [Next]_vars
    PROVE  Abstract!Next \/ UNCHANGED <<rec.status, rec.grants, InEffect>>
<1>1. InEffect \subseteq Grants /\ (rec.status # "Running" => InEffect = {})
  BY DEF InEffect, IInv, TypeOK, Proxies
<1>2. InEffect' \subseteq rec'.grants /\ (rec'.status # "Running" => InEffect' = {})
  BY DEF InEffect, IInv, RuntimeBound
<1>3. CASE rec' = rec
  BY <1>1, <1>2, <1>3 DEF Abstract!Next, Abstract!Enforce, InEffect
<1>4. CASE proxy' = proxy /\ RecordStep
  <2>1. rec'.status = rec.status => InEffect' = InEffect
    BY <1>4 DEF InEffect, Up
  <2>2. CASE SameAuthority
    BY <2>1, <2>2 DEF SameAuthority
  <2>3. CASE EditStep
    BY <1>2, <2>1, <2>3 DEF EditStep, OneOff, Abstract!Next, Abstract!Edit, Abstract!OneOff
  <2>4. CASE ClaimStep
    <3>1. ~Up
      BY <2>4 DEF ClaimStep, IInv, BeforeLaunch
    <3>2. InEffect = {} /\ InEffect' = {}
      BY <1>4, <3>1 DEF InEffect, Up
    <3> QED
      BY <2>4, <3>2 DEF ClaimStep, Abstract!Next, Abstract!Claim
  <2>5. CASE StopStep
    BY <1>2, <2>5 DEF StopStep, OneOff, Abstract!Next, Abstract!Stop, Abstract!OneOff
  <2> QED
    BY <1>4, <2>2, <2>3, <2>4, <2>5 DEF RecordStep
<1> QED
  BY <1>3, <1>4, RecordSteps

\* The session engine implements the abstract authority: an operator who knows
\* only EgressAuthority sees nothing that it does not allow.
THEOREM Refinement == Spec => ImplementsAuthority
<1>1. Init => Abstract!Init
  BY DEF Init, Abstract!Init, InEffect, NewRecord
<1>2. IInv /\ IInv' /\ [Next]_vars => [Abstract!Next]_(Abstract!vars)
  BY StepRefines DEF Abstract!vars
<1> QED
  BY <1>1, <1>2, Invariance, PTL DEF Spec, ImplementsAuthority, Abstract!Spec


-----------------------------------------------------------------------------
(* Reports are true *)

\* A record that was never edited grants nothing beyond the profile.
Unedited(r) == r.revision = 0 => r.grants = {}

\* A phase belongs to an edit that is under way or failing closed.
PhaseInv ==
    /\ pc = "idle" <=> kind = "none"
    /\ pc \in {"recover", "decide"} \/ kind \in {"stop", "reconcile"} => phase = "none"

\* The staged overlay and the running proxy, where they exist, are at authority
\* a: what a command that is about to report or to commit relies on.
Holds(a) == (compose => overlay = a) /\ (Up => proxy.loaded = a)
HoldInv ==
    /\ pc = "decide" /\ tx.status = "Running" => Holds(tx.grants)
    /\ pc = "commit" => Holds(IF phase \in {"narrow", "finishNarrow"}
                                  THEN tx.candidate.authority ELSE tx.grants)

\* What the egress invariant lacks for the truth of a command's report.
EnforcedInv == PhaseInv /\ HoldInv /\ Unedited(rec) /\ Unedited(tx) /\ Unedited(base)

\* The steps of the launch, and of the proxy, that no lock keeps from a command.
LaunchMoves ==
    \/ OwnerClean \/ OwnerRead \/ OwnerMaterialize \/ OwnerUp \/ OwnerExit \/ OwnerWipe
    \/ OwnerDies \/ ProxyDies

\* They leave the record and the command alone.
LEMMA LaunchFrame ==
    LaunchMoves => /\ rec' = rec /\ tx' = tx /\ base' = base
                   /\ pc' = pc /\ kind' = kind /\ phase' = phase
BY DEF LaunchMoves, OwnerClean, OwnerRead, OwnerMaterialize, OwnerUp, OwnerExit, OwnerWipe,
       OwnerDies, ProxyDies, stage, launch, target, driver

\* Every commit writes such a record: an edit moves the revision.
LEMMA RecordUnedited ==
    ASSUME NEW r \in Record, NEW s \in Record, NEW d \in SUBSET Grants,
           Sound(r), Unedited(r), Unedited(s)
    PROVE  /\ Unedited(NewRecord) /\ Unedited(Marked(r)) /\ Unedited(Cleared(r))
           /\ Unedited(Claimed(r)) /\ Unedited(Settled(r)) /\ Unedited(Terminal(r))
           /\ Unedited(Marked(Terminal(r))) /\ Unedited(Cleared(Terminal(r)))
           /\ Unedited(Marked(WithAuthorityOf(Terminal(r), s)))
           /\ Unedited(AppendGrant(r, d)) /\ Unedited(RevokeGrant(r, d))
           /\ Unedited(WidenIntent(r, d)) /\ Unedited(NarrowIntent(r, d))
           /\ r.direction = "narrow" => Unedited(Narrowed(r))
<1> USE DEF Record, Unedited
<1>1. Unedited(NewRecord) /\ Unedited(Marked(r)) /\ Unedited(Cleared(r))
  BY DEF NewRecord, Marked, Cleared
<1>2. Unedited(Claimed(r)) /\ Unedited(Settled(r)) /\ Unedited(Terminal(r))
  BY DEF Claimed, Settled, Terminal
<1>3. Unedited(Marked(Terminal(r))) /\ Unedited(Cleared(Terminal(r)))
  BY DEF Marked, Cleared, Terminal
<1>4. Unedited(Marked(WithAuthorityOf(Terminal(r), s)))
  BY DEF Marked, WithAuthorityOf, Terminal
<1>5. Unedited(AppendGrant(r, d)) /\ Unedited(RevokeGrant(r, d))
  BY DEF Sound, AppendGrant, RevokeGrant
<1>6. Unedited(WidenIntent(r, d)) /\ Unedited(NarrowIntent(r, d))
  BY DEF Sound, WidenIntent, NarrowIntent, AppendGrant
<1>7. r.direction = "narrow" => Unedited(Narrowed(r))
  BY DEF Sound, validEgressRuntimeState, Narrowed
<1> QED BY <1>1, <1>2, <1>3, <1>4, <1>5, <1>6, <1>7

\* Every step leaves the record, the command's copy and its base so.
LEMMA UneditedStep ==
    IInv /\ Unedited(rec) /\ Unedited(tx) /\ Unedited(base) /\ [Next]_vars
        => Unedited(rec)' /\ Unedited(tx)' /\ Unedited(base)'
<1> DEFINE Kept == Unedited(rec') /\ Unedited(tx') /\ Unedited(base')
<1> SUFFICES ASSUME IInv, Unedited(rec), Unedited(tx), Unedited(base), [Next]_vars
             PROVE  Kept
  BY DEF Unedited
<1> USE DEF stage, launch, closing, target, driver, vars, Outcomes
<1>0. /\ Unedited(NewRecord) /\ Unedited(Marked(tx)) /\ Unedited(Claimed(rec))
      /\ Unedited(Settled(tx)) /\ Unedited(Terminal(tx)) /\ Unedited(Marked(Terminal(tx)))
      /\ Unedited(Cleared(Terminal(rec)))
      /\ Unedited(Marked(WithAuthorityOf(Terminal(tx), base)))
      /\ Unedited(AppendGrant(tx, dest)) /\ Unedited(RevokeGrant(tx, dest))
      /\ Unedited(WidenIntent(tx, dest)) /\ Unedited(NarrowIntent(tx, dest))
      /\ tx.direction = "narrow" => Unedited(Narrowed(tx))
  BY RecordUnedited DEF IInv, TypeOK, Readable
<1>1. ASSUME NEW k \in Commands, NEW g \in Grants, Begin(k, g) PROVE Kept
  BY <1>0, <1>1 DEF Begin
<1>2. CASE RecoverBlocked
  BY <1>0, <1>2 DEF RecoverBlocked, FailClosed
<1>3. CASE DecideNoEdit
  BY <1>0, <1>3 DEF DecideNoEdit, End
<1>4. ASSUME NEW seen \in {Inspected, NoGen}, Recover(seen) PROVE Kept
  BY <1>0, <1>4 DEF Recover, RecoverAs, Goto, StartApply
<1>5. ASSUME NEW o \in Outcomes, RecoverCommit(o) PROVE Kept
  BY <1>0, <1>5 DEF RecoverCommit, Commits, Follow, FailClosed, IInv, Target
<1>6. ASSUME NEW o \in Outcomes, EditCreated(o) PROVE Kept
  BY <1>0, <1>6 DEF EditCreated, Commits, End
<1>7. ASSUME NEW o \in Outcomes, EditIntent(o) PROVE Kept
  BY <1>0, <1>7 DEF EditIntent, Commits, End
<1>8. ASSUME NEW o \in Outcomes, WidenFinalCommit(o) PROVE Kept
  BY <1>0, <1>8 DEF WidenFinalCommit, Commits, End, FailClosed
<1>9. ASSUME NEW o \in Outcomes, NarrowFinalCommit(o) PROVE Kept
  BY <1>0, <1>9 DEF NarrowFinalCommit, Commits, End, FailClosed, StartApply, IInv, Target
<1>10. ASSUME NEW o \in Outcomes, RestoreCommit(o) PROVE Kept
  BY <1>0, <1>10 DEF RestoreCommit, Commits, End, FailClosed
<1>11. ASSUME NEW o \in Outcomes, FailClosedVerdict(o) PROVE Kept
  BY <1>0, <1>11 DEF FailClosedVerdict, Commits, End
<1>12. ASSUME NEW o \in Outcomes, StopVerdict(o) PROVE Kept
  BY <1>0, <1>12 DEF StopVerdict, Commits, End
<1>13. CASE Install
  BY <1>0, <1>13 DEF Install, Goto, ApplyFailed, FailClosed, StartApply
<1>14. CASE Replace
  BY <1>0, <1>14 DEF Replace, Goto, ApplyFailed, FailClosed, StartApply
<1>15. CASE Acknowledge
  BY <1>0, <1>15 DEF Acknowledge, Goto, ApplyFailed, FailClosed, StartApply
<1>16. CASE Kill
  BY <1>0, <1>16 DEF Kill, Effected, Failed, End
<1>17. CASE Reap
  BY <1>0, <1>17 DEF Reap, Effected, Failed, End
<1>18. CASE Wipe
  BY <1>0, <1>18 DEF Wipe, Effected, Failed, End
<1>19. CASE BeginStop
  BY <1>0, <1>19 DEF BeginStop
<1>20. CASE BeginReconcile
  BY <1>0, <1>20 DEF BeginReconcile
<1>21. CASE StopStopped
  BY <1>0, <1>21 DEF StopStopped
<1>22. CASE Crash
  BY <1>0, <1>22 DEF Crash, End
<1>23. ASSUME NEW o \in Outcomes, Claim(o) PROVE Kept
  BY <1>0, <1>23 DEF Claim, Commits
<1>24. ASSUME NEW o \in Outcomes, OwnerFinish(o) PROVE Kept
  BY <1>0, <1>24 DEF OwnerFinish, OwnerStep, Commits
<1>25. CASE UNCHANGED vars
  BY <1>0, <1>25 DEF vars
<1>26. CASE LaunchMoves
  BY <1>26, LaunchFrame
<1> QED
  BY <1>1, <1>2, <1>3, <1>4, <1>5, <1>6, <1>7, <1>8, <1>9, <1>10, <1>11, <1>12,
     <1>13, <1>14, <1>15, <1>16, <1>17, <1>18, <1>19, <1>20, <1>21, <1>22, <1>23,
     <1>24, <1>25, <1>26
     DEF Next, CommandStep, OwnerStart, OwnerRuns, LaunchMoves

\* What an inspection that acknowledges generation h shows of the runtime.
LEMMA Acknowledged ==
    ASSUME IInv, Unedited(tx), Working, rec.status = "Running",
           NEW h, h = Inspected,
           h = Durable(tx) \/ (tx.direction = "narrow" /\ h = tx.candidate)
    PROVE  Holds(h.authority)
<1>1. tx \in Record /\ rec = tx /\ Sound(tx) /\ h.revision >= 0 /\ h.revision \in Int
  BY DEF IInv, TypeOK, Readable, Sound, WorkingCopy, validEgressRuntimeState, Record,
      Durable, Gen
<1>2. compose /\ Up /\ overlay = h.authority /\ proxy.label = h
  BY <1>1 DEF Inspected, NoGen
<1>3. CASE h.revision > 0
  BY <1>2, <1>3 DEF IInv, RuntimeBound, Holds
<1>4. CASE h.revision = 0
  <2>1. h = Durable(tx)
    BY <1>1, <1>4 DEF Sound, validEgressRuntimeState, Record
  <2>2. h.authority = {} /\ tx.grants = {}
    BY <1>4, <2>1 DEF Durable, Gen, Unedited
  <2> QED BY <1>1, <1>2, <2>2 DEF IInv, RuntimeBound, Holds
<1> QED BY <1>1, <1>3, <1>4

\* No step of the launch moves a runtime from the authority it holds.
LEMMA HoldsKept ==
    ASSUME IInv, NEW a, Holds(a), ~Early, rec.status = "Running", LaunchMoves
    PROVE  (compose' => overlay' = a) /\ (proxy' # NoProxy => proxy'.loaded = a)
<1> USE DEF Holds, Up, OwnerStep, Early, stage, launch
<1>1. CASE OwnerUp
  BY <1>1 DEF OwnerUp, ProxyOf
<1>2. CASE OwnerExit \/ OwnerWipe \/ OwnerDies \/ ProxyDies
  BY <1>2 DEF OwnerExit, OwnerWipe, OwnerDies, ProxyDies
<1>3. CASE OwnerClean \/ OwnerRead \/ OwnerMaterialize
  BY <1>3 DEF OwnerClean, OwnerRead, OwnerMaterialize
<1> QED BY <1>1, <1>2, <1>3 DEF LaunchMoves

\* A runtime that is about to be reported is where the report says.
LEMMA HoldStep == IInv /\ EnforcedInv /\ [Next]_vars => HoldInv'
<1> SUFFICES ASSUME IInv, EnforcedInv, [Next]_vars PROVE HoldInv'
    OBVIOUS
<1> DEFINE About == IF phase \in {"narrow", "finishNarrow"}
                         THEN tx.candidate.authority ELSE tx.grants
<1> USE DEF stage, launch, closing, target, driver, vars, Outcomes
<1>1. ASSUME NEW k \in Commands, NEW g \in Grants, Begin(k, g) PROVE HoldInv'
  BY <1>1 DEF IInv, TypeOK, Record, Statuses, HoldInv, Begin
<1>2. CASE RecoverBlocked
  BY <1>2 DEF EnforcedInv, HoldInv, Holds, Up, RecoverBlocked, FailClosed
<1>3. CASE DecideNoEdit
  BY <1>3 DEF EnforcedInv, HoldInv, Holds, Up, DecideNoEdit, End
<1>4. ASSUME NEW seen \in {Inspected, NoGen}, Recover(seen) PROVE HoldInv'
  <2>1. CASE seen = NoGen
    <3>1. seen # Durable(tx) /\ (tx.direction = "narrow" => seen # tx.candidate)
      BY <2>1
         DEF IInv, Readable, Sound, TypeOK, Record, Durable, Gen, NoGen, validEgressRuntimeState
    <3> QED BY <1>4, <3>1 DEF HoldInv, Recover, RecoverAs, Goto, StartApply
  <2>2. CASE seen = Inspected
    <3>1. Working /\ rec.status = "Running"
      BY <1>4 DEF IInv, WorkingCopy, Working, Recover
    <3>2. seen = Durable(tx) \/ (tx.direction = "narrow" /\ seen = tx.candidate)
            => Holds(seen.authority)
      BY <2>2, <3>1, Acknowledged DEF EnforcedInv
    <3> QED BY <1>4, <3>2
        DEF HoldInv, Holds, Up, Durable, Gen, EnforcedInv, PhaseInv, Recover, RecoverAs,
            Goto, StartApply
  <2> QED BY <1>4, <2>1, <2>2
<1>5. ASSUME NEW o \in Outcomes, RecoverCommit(o) PROVE HoldInv'
  <2>1. Settled(tx).grants = tx.grants /\ Narrowed(tx).grants = tx.candidate.authority
    BY DEF IInv, TypeOK, Record, Settled, Narrowed
  <2>2. Holds(About)
    BY <1>5 DEF RecoverCommit, EnforcedInv, HoldInv
  <2> QED BY <1>5, <2>1, <2>2 DEF HoldInv, Holds, Up, RecoverCommit, Commits, Follow, FailClosed
<1>6. ASSUME NEW o \in Outcomes, EditCreated(o) PROVE HoldInv'
  BY <1>6 DEF EnforcedInv, HoldInv, Holds, Up, EditCreated, Commits, End
<1>7. ASSUME NEW o \in Outcomes, EditIntent(o) PROVE HoldInv'
  BY <1>7 DEF EnforcedInv, HoldInv, Holds, Up, EditIntent, Commits, End
<1>8. ASSUME NEW o \in Outcomes, WidenFinalCommit(o) PROVE HoldInv'
  BY <1>8 DEF EnforcedInv, HoldInv, Holds, Up, WidenFinalCommit, Commits, End, FailClosed
<1>9. ASSUME NEW o \in Outcomes, NarrowFinalCommit(o) PROVE HoldInv'
  BY <1>9
     DEF EnforcedInv, HoldInv, Holds, Up, NarrowFinalCommit, Commits, End, FailClosed,
         StartApply
<1>10. ASSUME NEW o \in Outcomes, RestoreCommit(o) PROVE HoldInv'
  BY <1>10 DEF EnforcedInv, HoldInv, Holds, Up, RestoreCommit, Commits, End, FailClosed
<1>11. ASSUME NEW o \in Outcomes, FailClosedVerdict(o) PROVE HoldInv'
  BY <1>11 DEF EnforcedInv, HoldInv, Holds, Up, FailClosedVerdict, Commits, End
<1>12. ASSUME NEW o \in Outcomes, StopVerdict(o) PROVE HoldInv'
  BY <1>12 DEF EnforcedInv, HoldInv, Holds, Up, StopVerdict, Commits, End
<1>13. CASE Install
  <2>1. Working /\ rec.status = "Running" /\ pc \in {"install", "inspect"}
    BY <1>13 DEF IInv, WorkingCopy, Working, Install
  <2>2. /\ goal = IF phase = "narrow" THEN tx.candidate ELSE Durable(tx)
        /\ phase = "narrow" => tx.direction = "narrow"
        /\ phase # "finishNarrow"
    BY <2>1 DEF IInv, Target
  <2>3. Inspected = goal => Holds(goal.authority)
    BY <2>1, <2>2, Acknowledged DEF EnforcedInv
  <2> QED BY <1>13, <2>1, <2>2, <2>3
      DEF HoldInv, Holds, Up, Durable, Gen, Install, Goto, ApplyFailed, FailClosed, StartApply
<1>14. CASE Replace
  BY <1>14
     DEF EnforcedInv, HoldInv, Holds, Up, Replace, Goto, ApplyFailed, FailClosed, StartApply
<1>15. CASE Acknowledge
  <2>1. Working /\ rec.status = "Running" /\ pc \in {"install", "inspect"}
    BY <1>15 DEF IInv, WorkingCopy, Working, Acknowledge
  <2>2. /\ goal = IF phase = "narrow" THEN tx.candidate ELSE Durable(tx)
        /\ phase = "narrow" => tx.direction = "narrow"
        /\ phase # "finishNarrow"
    BY <2>1 DEF IInv, Target
  <2>3. Inspected = goal => Holds(goal.authority)
    BY <2>1, <2>2, Acknowledged DEF EnforcedInv
  <2> QED BY <1>15, <2>1, <2>2, <2>3
      DEF HoldInv, Holds, Up, Durable, Gen, Acknowledge, Goto, ApplyFailed, FailClosed,
          StartApply
<1>16. CASE Kill
  BY <1>16 DEF EnforcedInv, HoldInv, Holds, Up, Kill, Effected, Failed, End
<1>17. CASE Reap
  BY <1>17 DEF EnforcedInv, HoldInv, Holds, Up, Reap, Effected, Failed, End
<1>18. CASE Wipe
  BY <1>18 DEF EnforcedInv, HoldInv, Holds, Up, Wipe, Effected, Failed, End
<1>19. CASE BeginStop
  BY <1>19 DEF EnforcedInv, HoldInv, Holds, Up, BeginStop
<1>20. CASE BeginReconcile
  BY <1>20 DEF EnforcedInv, HoldInv, Holds, Up, BeginReconcile
<1>21. CASE StopStopped
  BY <1>21 DEF EnforcedInv, HoldInv, Holds, Up, IInv, WorkingCopy, Working, StopStopped
<1>22. CASE Crash
  BY <1>22 DEF EnforcedInv, HoldInv, Holds, Up, Crash, End
<1>23. ASSUME NEW o \in Outcomes, Claim(o) PROVE HoldInv'
  BY <1>23 DEF EnforcedInv, HoldInv, Holds, Up, Claim, Commits
<1>24. ASSUME NEW o \in Outcomes, OwnerFinish(o) PROVE HoldInv'
  BY <1>24 DEF EnforcedInv, HoldInv, Holds, Up, OwnerFinish, OwnerStep, Commits
<1>25. CASE UNCHANGED vars
  BY <1>25 DEF EnforcedInv, HoldInv, Holds, Up, vars
<1>26. CASE LaunchMoves
  <2>1. pc' = pc /\ tx' = tx /\ phase' = phase
    BY <1>26, LaunchFrame
  <2>2. ASSUME pc = "decide" /\ tx.status = "Running" PROVE Holds(tx.grants)'
    <3>1. ~Early /\ rec.status = "Running" /\ Holds(tx.grants)
      BY <2>2 DEF IInv, WorkingCopy, Working, EnforcedInv, HoldInv
    <3> QED BY <1>26, <2>1, <3>1, HoldsKept DEF Holds, Up
  <2>3. ASSUME pc = "commit" PROVE Holds(About)'
    <3>1. ~Early /\ rec.status = "Running" /\ Holds(About)
      BY <2>3 DEF IInv, WorkingCopy, Working, EnforcedInv, HoldInv
    <3> QED BY <1>26, <2>1, <3>1, HoldsKept DEF Holds, Up
  <2> QED BY <2>1, <2>2, <2>3 DEF HoldInv
<1> QED
  BY <1>1, <1>2, <1>3, <1>4, <1>5, <1>6, <1>7, <1>8, <1>9, <1>10, <1>11, <1>12,
     <1>13, <1>14, <1>15, <1>16, <1>17, <1>18, <1>19, <1>20, <1>21, <1>22, <1>23,
     <1>24, <1>25, <1>26
     DEF Next, CommandStep, OwnerStart, OwnerRuns, LaunchMoves

\* Every step keeps phases to the edits they belong to.
LEMMA PhaseStep == IInv /\ PhaseInv /\ [Next]_vars => PhaseInv'
<1> SUFFICES ASSUME IInv, PhaseInv, [Next]_vars PROVE PhaseInv'
    OBVIOUS
<1> USE DEF PhaseInv, stage, launch, closing, target, driver, vars, Outcomes
<1>0. (pc = "idle" => phase = "none") /\ (Working => kind \in Commands)
  BY DEF IInv, WorkingCopy
<1>1. ASSUME NEW k \in Commands, NEW g \in Grants, Begin(k, g) PROVE PhaseInv'
  BY <1>0, <1>1 DEF Working, Commands, Closing, Begin
<1>2. CASE RecoverBlocked
  BY <1>0, <1>2 DEF Working, Commands, Closing, RecoverBlocked, FailClosed
<1>3. CASE DecideNoEdit
  BY <1>0, <1>3 DEF Working, Commands, Closing, DecideNoEdit, End
<1>4. ASSUME NEW seen \in {Inspected, NoGen}, Recover(seen) PROVE PhaseInv'
  BY <1>0, <1>4 DEF Working, Commands, Closing, Recover, RecoverAs, Goto, StartApply
<1>5. ASSUME NEW o \in Outcomes, RecoverCommit(o) PROVE PhaseInv'
  BY <1>0, <1>5 DEF Working, Commands, Closing, RecoverCommit, Commits, Follow, FailClosed
<1>6. ASSUME NEW o \in Outcomes, EditCreated(o) PROVE PhaseInv'
  BY <1>0, <1>6 DEF Working, Commands, Closing, EditCreated, Commits, End
<1>7. ASSUME NEW o \in Outcomes, EditIntent(o) PROVE PhaseInv'
  BY <1>0, <1>7 DEF Working, Commands, Closing, EditIntent, Commits, End
<1>8. ASSUME NEW o \in Outcomes, WidenFinalCommit(o) PROVE PhaseInv'
  BY <1>0, <1>8 DEF Working, Commands, Closing, WidenFinalCommit, Commits, End, FailClosed
<1>9. ASSUME NEW o \in Outcomes, NarrowFinalCommit(o) PROVE PhaseInv'
  BY <1>0, <1>9
     DEF Working, Commands, Closing, NarrowFinalCommit, Commits, End, FailClosed, StartApply
<1>10. ASSUME NEW o \in Outcomes, RestoreCommit(o) PROVE PhaseInv'
  BY <1>0, <1>10 DEF Working, Commands, Closing, RestoreCommit, Commits, End, FailClosed
<1>11. ASSUME NEW o \in Outcomes, FailClosedVerdict(o) PROVE PhaseInv'
  BY <1>0, <1>11 DEF Working, Commands, Closing, FailClosedVerdict, Commits, End
<1>12. ASSUME NEW o \in Outcomes, StopVerdict(o) PROVE PhaseInv'
  BY <1>0, <1>12 DEF Working, Commands, Closing, StopVerdict, Commits, End
<1>13. CASE Install
  BY <1>0, <1>13
     DEF Working, Commands, Closing, Install, Goto, ApplyFailed, FailClosed, StartApply
<1>14. CASE Replace
  BY <1>0, <1>14
     DEF Working, Commands, Closing, Replace, Goto, ApplyFailed, FailClosed, StartApply
<1>15. CASE Acknowledge
  BY <1>0, <1>15
     DEF Working, Commands, Closing, Acknowledge, Goto, ApplyFailed, FailClosed, StartApply
<1>16. CASE Kill
  BY <1>0, <1>16 DEF Working, Commands, Closing, Kill, Effected, Failed, End
<1>17. CASE Reap
  BY <1>0, <1>17 DEF Working, Commands, Closing, Reap, Effected, Failed, End
<1>18. CASE Wipe
  BY <1>0, <1>18 DEF Working, Commands, Closing, Wipe, Effected, Failed, End
<1>19. CASE BeginStop
  BY <1>0, <1>19 DEF Working, Commands, Closing, BeginStop
<1>20. CASE BeginReconcile
  BY <1>0, <1>20 DEF Working, Commands, Closing, BeginReconcile
<1>21. CASE StopStopped
  BY <1>0, <1>21 DEF Working, Commands, Closing, StopStopped
<1>22. CASE Crash
  BY <1>0, <1>22 DEF Working, Commands, Closing, Crash, End
<1>23. ASSUME NEW o \in Outcomes, Claim(o) PROVE PhaseInv'
  BY <1>0, <1>23 DEF Working, Commands, Closing, Claim, Commits
<1>24. ASSUME NEW o \in Outcomes, OwnerFinish(o) PROVE PhaseInv'
  BY <1>0, <1>24 DEF Working, Commands, Closing, OwnerFinish, OwnerStep, Commits
<1>25. CASE UNCHANGED vars
  BY <1>0, <1>25 DEF Working, Commands, Closing, vars
<1>26. CASE LaunchMoves
  BY <1>26, LaunchFrame
<1> QED
  BY <1>1, <1>2, <1>3, <1>4, <1>5, <1>6, <1>7, <1>8, <1>9, <1>10, <1>11, <1>12,
     <1>13, <1>14, <1>15, <1>16, <1>17, <1>18, <1>19, <1>20, <1>21, <1>22, <1>23,
     <1>24, <1>25, <1>26
     DEF Next, CommandStep, OwnerStart, OwnerRuns, LaunchMoves

\* Both invariants hold in every reachable state.
LEMMA EnforcedInvariance == Spec => [](IInv /\ EnforcedInv)
<1>1. Init => EnforcedInv
  BY DEF Init, EnforcedInv, PhaseInv, HoldInv, Unedited, NewRecord
<1>2. IInv /\ EnforcedInv /\ [Next]_vars => EnforcedInv'
  BY HoldStep, PhaseStep, UneditedStep DEF EnforcedInv
<1> QED BY InitIInv, NextIInv, <1>1, <1>2, PTL DEF Spec

\* A grant, a revocation or a dismissal that reports success on a running
\* session has the record settled and any running proxy at exactly its grants
\* (runRunningSessionWidenProtocol, runRunningSessionNarrowProtocol).
THEOREM Enforced == Spec => SuccessIsEnforced
<1> DEFINE Enforces == /\ rec'.applied = Durable(rec')
                       /\ (Up => proxy.loaded = rec'.grants)
           Kept == tx.status = "Running" /\ kind \in Commands /\ pc' = "idle" /\ result' = "ok"
                        => Enforces
<1>1. IInv /\ EnforcedInv /\ [Next]_vars => [Kept]_vars
  <2> SUFFICES ASSUME IInv, EnforcedInv, Next, tx.status = "Running", kind \in Commands,
                      pc' = "idle", result' = "ok"
               PROVE  Enforces
    BY DEF vars
  <2> USE DEF stage, launch, closing, target, driver, Outcomes
  <2>1. tx \in Record /\ pc # "idle"
    BY DEF IInv, TypeOK, EnforcedInv, PhaseInv, Commands
  <2>2. CASE DecideNoEdit
    BY <2>2 DEF DecideNoEdit, IInv, WorkingCopy, Working, EnforcedInv, HoldInv, Holds
  <2>3. ASSUME NEW o \in Outcomes, WidenFinalCommit(o)
        PROVE  Enforces
    <3>1. rec' = Settled(tx) /\ Holds(tx.grants)
      BY <2>3 DEF WidenFinalCommit, Commits, FailClosed, EnforcedInv, HoldInv
    <3> QED BY <2>1, <3>1 DEF Settled, Durable, Gen, Record, Holds
  <2>4. ASSUME NEW o \in Outcomes, NarrowFinalCommit(o)
        PROVE  Enforces
    <3>1. rec' = Narrowed(tx) /\ Holds(tx.candidate.authority)
      BY <2>4 DEF NarrowFinalCommit, Commits, FailClosed, StartApply, End, EnforcedInv, HoldInv
    <3> QED BY <2>1, <3>1 DEF Narrowed, Durable, Gen, Record, Generation, Holds
  <2>5. ASSUME NEW o \in Outcomes,
               \/ RecoverCommit(o) \/ EditCreated(o) \/ EditIntent(o) \/ RestoreCommit(o)
               \/ FailClosedVerdict(o) \/ StopVerdict(o)
        PROVE  FALSE
    BY <2>5
       DEF RecoverCommit, EditCreated, EditIntent, RestoreCommit, FailClosedVerdict,
           StopVerdict, FailClosed, End, Closing
  <2>6. CASE RecoverBlocked \/ Install \/ Replace \/ Acknowledge
    BY <2>6
       DEF RecoverBlocked, Install, Replace, Acknowledge, Goto, ApplyFailed, StartApply,
           FailClosed
  <2>7. ASSUME NEW seen, Recover(seen) PROVE FALSE
    BY <2>7 DEF Recover, RecoverAs, Goto, StartApply
  <2>8. CASE Kill \/ Reap \/ Wipe \/ Crash
    BY <2>8 DEF Kill, Reap, Wipe, Crash, Effected, Failed, End
  <2>9. CASE LaunchMoves \/ StopStopped
    BY <2>1, <2>9, LaunchFrame DEF StopStopped
  <2>10. CASE BeginStop \/ BeginReconcile
    BY <2>1, <2>10 DEF BeginStop, BeginReconcile
  <2>11. ASSUME NEW o \in Outcomes, Claim(o) \/ OwnerFinish(o) PROVE FALSE
    BY <2>1, <2>11 DEF Claim, OwnerFinish
  <2>12. ASSUME NEW k \in Commands, NEW g \in Grants, Begin(k, g) PROVE FALSE
    BY <2>1, <2>12 DEF Begin
  <2> QED
    BY <2>2, <2>3, <2>4, <2>5, <2>6, <2>7, <2>8, <2>9, <2>10, <2>11, <2>12
       DEF Next, CommandStep, OwnerStart, OwnerRuns, LaunchMoves
<1> QED BY EnforcedInvariance, <1>1, PTL DEF Spec, SuccessIsEnforced

\* An edit that reports an ordinary error has record, overlay and proxy, where
\* they still exist, back at the authority it started from
\* (runRunningSessionNarrowProtocol).
THEOREM RolledBack == Spec => ErrorIsRolledBack
<1> DEFINE Undone == /\ rec'.grants = base.grants
                     /\ (compose => overlay = base.grants)
                     /\ (Up => proxy.loaded = base.grants)
           Kept == pc' = "idle" /\ result' = "error"
                        /\ phase \in {"widen", "narrow", "restore", "undo"} => Undone
<1>1. IInv /\ EnforcedInv /\ [Next]_vars => [Kept]_vars
  <2> SUFFICES ASSUME IInv, EnforcedInv, Next, pc' = "idle", result' = "error",
                      phase \in {"widen", "narrow", "restore", "undo"}
               PROVE  Undone
    BY DEF vars
  <2> USE DEF stage, launch, closing, target, driver, Outcomes
  <2>1. pc \notin {"idle", "recover", "decide"} /\ kind \in Commands
    BY DEF IInv, TypeOK, WorkingCopy, EnforcedInv, PhaseInv, Kinds
  <2>2. ASSUME NEW o \in Outcomes, RestoreCommit(o) PROVE Undone
    <3>1. rec = tx /\ tx \in Record /\ base.grants = tx.grants /\ Holds(tx.grants)
      BY <2>2
         DEF RestoreCommit, IInv, TypeOK, WorkingCopy, Working, Target, EnforcedInv, HoldInv
    <3>2. rec'.grants = tx.grants
      BY <2>2, <3>1 DEF RestoreCommit, Commits, Settled, Record
    <3> QED BY <3>1, <3>2 DEF Holds
  <2>3. ASSUME NEW o \in Outcomes,
               \/ RecoverCommit(o) \/ EditCreated(o) \/ EditIntent(o) \/ WidenFinalCommit(o)
               \/ NarrowFinalCommit(o) \/ FailClosedVerdict(o) \/ StopVerdict(o)
        PROVE  FALSE
    BY <2>1, <2>3
       DEF RecoverCommit, EditCreated, EditIntent, WidenFinalCommit, NarrowFinalCommit,
           FailClosedVerdict, StopVerdict, FailClosed, StartApply, End, Closing
  <2>4. CASE RecoverBlocked \/ DecideNoEdit \/ Install \/ Replace \/ Acknowledge
    BY <2>1, <2>4
       DEF RecoverBlocked, DecideNoEdit, Install, Replace, Acknowledge, Goto, ApplyFailed,
           StartApply, FailClosed
  <2>5. ASSUME NEW seen, Recover(seen) PROVE FALSE
    BY <2>1, <2>5 DEF Recover
  <2>6. CASE Kill \/ Reap \/ Wipe \/ Crash
    BY <2>1, <2>6 DEF Kill, Reap, Wipe, Crash, Effected, Failed, End, Closing
  <2>7. CASE LaunchMoves \/ StopStopped
    BY <2>1, <2>7, LaunchFrame DEF StopStopped
  <2>8. CASE BeginStop \/ BeginReconcile
    BY <2>1, <2>8 DEF BeginStop, BeginReconcile
  <2>9. ASSUME NEW o \in Outcomes, Claim(o) \/ OwnerFinish(o) PROVE FALSE
    BY <2>1, <2>9 DEF Claim, OwnerFinish
  <2>10. ASSUME NEW k \in Commands, NEW g \in Grants, Begin(k, g) PROVE FALSE
    BY <2>1, <2>10 DEF Begin
  <2> QED
    BY <2>2, <2>3, <2>4, <2>5, <2>6, <2>7, <2>8, <2>9, <2>10
       DEF Next, CommandStep, OwnerStart, OwnerRuns, LaunchMoves
<1> QED BY EnforcedInvariance, <1>1, PTL DEF Spec, ErrorIsRolledBack
=============================================================================
