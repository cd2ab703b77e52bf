------------------------ MODULE GithubStagingProofs ------------------------
(***************************************************************************)
(* What the staging, the renewal and the revocation of GitHub App tokens   *)
(* guarantee, for any number of partitions and any lifetime.               *)
(***************************************************************************)
EXTENDS GithubStaging, WellFoundedInduction, TLAPS

\* TypeOK by component, so that a step need expand only what it changes.
FlowTypes ==
    /\ now \in 0..MaxTime
    /\ pc \in {"start", "mint", "prepare", "write", "retain", "commit", "expire",
               "held", "revoke", "scan", "wipe", "ended", "crashed"}
    /\ at \in 1..(NSlots + 1)
    /\ agent \in {"none", "up", "over"} /\ cancelled \subseteq {"run", "lease"}
    /\ {dir, rdir, wiped, orphaned, torn} \subseteq BOOLEAN
    /\ leaseExp \in Nat
    /\ stop \in {"none", "revoke", "scan", "signal", "wipe", "wait", "rewipe", "quiet"}
IsBatch(f) == f \in [Slots -> Tokens \cup {NoTok}] /\ \A k \in Slots : f[k].slot \in {0, k}
TokenTypes == IsBatch(new) /\ IsBatch(file) /\ IsBatch(temp)
MetaTypes  == {old, meta, metaTemp} \subseteq Metas \cup {NoMeta}
RetiredTypes ==
    /\ retired \subseteq [name : Names, tok : Tokens]
    /\ \A r, s \in retired : r.name = s.name => r = s
AccountTypes ==
    /\ pend \in [Revokers -> SUBSET ({<<k>> : k \in Slots} \cup Names)]
    /\ asked \subseteq Tokens /\ served \subseteq Tokens /\ due \subseteq Tokens

\* Who can be where: nobody revokes while the agent is up and no stop has begun.
CalmInv ==
    /\ "lease" \in cancelled => agent = "over"
    /\ pc \in {"revoke", "scan"} => "lease" \in cancelled
    /\ pc \in {"start", "wipe"} => agent = "none"
    /\ pc = "held" => agent # "none"
    /\ pc \in {"ended", "crashed"} => agent # "up"
    /\ pend["runner"] # {} => pc \in {"revoke", "scan"}
    /\ pend["stop"] # {} => stop \in {"revoke", "scan"}
    /\ asked # {} => agent = "over" \/ stop # "none"
    /\ agent = "none" => served = {}
    /\ due \subseteq served /\ (stop = "none" => due = {})
    /\ stop \in {"none", "revoke", "scan", "wipe"} \/ wiped
    /\ orphaned => pc = "crashed"

\* The runner's memory: a batch is whole before anything is written.
MemoryInv ==
    /\ pc \in {"mint", "retain"} => at <= NSlots
    /\ pc = "mint" => \A k \in Slots : k < at => new[k] # NoTok
    /\ pc \in {"prepare", "write", "retain", "commit"} => \A k \in Slots : new[k] # NoTok
    /\ pc = "retain" => old # NoMeta

\* Before a stop wipes the stage, the files are what the runner made of them.
Early == stop \in {"none", "revoke", "scan", "wipe"}
FilesInv ==
    Early =>
        /\ pc \in {"write", "retain", "commit"} => old = meta
        /\ pc \in {"retain", "commit"} => metaTemp.exp = [k \in Slots |-> new[k].exp]
        /\ pc = "retain" => temp = new
        /\ pc = "commit" => \A k \in Slots : IF k < at THEN file[k] = new[k] ELSE temp[k] = new[k]
        /\ pc = "expire" \/ (agent # "none" /\ pc # "ended" /\ ~orphaned) =>
              meta # NoMeta /\ \A k \in Slots : file[k] # NoTok

\* Batches that are committed whole: the metadata is about the files, a retired
\* token has its own name, and a token is retired before it is replaced.  With
\* several partitions and API tokens, two slots share a name.
Distinct == Partitions = 1 \/ ~HasAPI
Stored(t) == \E r \in retired : r.tok = t
Whole == Distinct /\ Early /\ ~torn
RetireInv ==
    Whole =>
        /\ \A r \in retired : r.name = RetiredName(r.tok.slot, r.tok.exp)
        /\ pc \notin {"ended", "crashed"} /\ meta # NoMeta =>
              \A k \in Slots :
                 file[k] # NoTok /\ ~(pc = "commit" /\ k < at) => file[k].exp = meta.exp[k]
        /\ pc = "retain" =>
              \A j \in Slots : j < at => file[RetainSlot(j)] = NoTok \/ Stored(file[RetainSlot(j)])
        /\ pc = "commit" /\ old # NoMeta =>
              \A k \in Slots : k >= at => file[k] = NoTok \/ Stored(file[k])

\* Where an unexpired token is that process p has to revoke.
First(p, t)  == t \in asked \/ Stored(t) \/ \E k \in Slots : <<k>> \in pend[p] /\ file[k] = t
Second(p, t) == t \in asked \/ \E r \in retired : r.tok = t /\ r.name \in pend[p]
RunnerInv ==
    Whole => \A t \in served : Lives(t) =>
        /\ pc # "ended" /\ ~orphaned => Reachable(t)
        /\ pc = "revoke" => First("runner", t)
        /\ pc = "scan" => Second("runner", t)
        /\ pc = "ended" => t \in asked
StopInv ==
    Distinct /\ ~torn /\ ~orphaned => \A t \in due : Lives(t) =>
        /\ stop = "revoke" => First("stop", t)
        /\ stop = "scan" => Second("stop", t)
        /\ stop \notin {"none", "revoke", "scan"} => t \in asked

IInv ==
    /\ FlowTypes /\ TokenTypes /\ MetaTypes /\ RetiredTypes /\ AccountTypes
    /\ CalmInv /\ MemoryInv /\ FilesInv /\ RetireInv /\ RunnerInv /\ StopInv

-----------------------------------------------------------------------------
(* Slots, tokens and names *)

\* The metadata's order is a permutation of the slots.
LEMMA SlotFacts ==
    /\ NSlots \in Nat /\ NSlots >= 1
    /\ \A j \in Slots : RetainSlot(j) \in Slots
    /\ \A k \in Slots : \E j \in Slots : RetainSlot(j) = k
    /\ \A k \in Slots : Base(k) \in 0..Partitions
<1>1. NSlots \in Nat /\ NSlots >= 1 /\ NSlots = IF HasAPI THEN 2 * Partitions ELSE Partitions
  BY StagingAssumption DEF NSlots
<1>2. \A j \in Slots : RetainSlot(j) \in Slots
  BY <1>1, StagingAssumption DEF Slots, RetainSlot
<1>3. ASSUME NEW k \in Slots PROVE \E j \in Slots : RetainSlot(j) = k
  <2>1. CASE ~HasAPI
    BY <2>1 DEF RetainSlot
  <2>2. CASE HasAPI
    <3>1. PICK m \in Nat : k = 2 * m - 1 \/ k = 2 * m
      <4>1. /\ k \in Nat /\ (k + 1) \div 2 \in Nat
            /\ k = 2 * ((k + 1) \div 2) - 1 \/ k = 2 * ((k + 1) \div 2)
        BY <1>1 DEF Slots
      <4> QED BY <4>1
    <3>2. m \in Nat /\ 1 <= m /\ m <= Partitions
      BY <1>1, <2>2, <3>1, StagingAssumption DEF Slots
    <3>3. CASE k = 2 * m - 1
      <4>1. m \in Slots /\ RetainSlot(m) = k
        BY <1>1, <2>2, <3>2, <3>3, StagingAssumption DEF Slots, RetainSlot
      <4> QED BY <4>1
    <3>4. CASE k = 2 * m
      <4>1. Partitions + m \in Slots /\ RetainSlot(Partitions + m) = k
        BY <1>1, <2>2, <3>2, <3>4, StagingAssumption DEF Slots, RetainSlot
      <4> QED BY <4>1
    <3> QED BY <3>1, <3>3, <3>4
  <2> QED BY <2>1, <2>2
<1>4. ASSUME NEW k \in Slots PROVE Base(k) \in 0..Partitions
  BY <1>1, StagingAssumption DEF Slots, Base, IsAPI, Partition
<1> QED BY <1>1, <1>2, <1>3, <1>4

\* With one partition, or without API tokens, a retirement name is one slot's.
LEMMA BaseFacts ==
    ASSUME Distinct
    PROVE  \A j, k \in Slots : Base(j) = Base(k) => j = k
<1>1. CASE ~HasAPI
  BY <1>1, StagingAssumption DEF Base, IsAPI, Partition
<1>2. CASE HasAPI
  <2>1. Partitions = 1 /\ NSlots = 2
    BY <1>2 DEF Distinct, NSlots
  <2>2. Slots = {1, 2}
    BY <2>1 DEF Slots
  <2>3. Base(1) = 1 /\ Base(2) = 0
    BY <1>2, <2>1 DEF Base, IsAPI, Partition
  <2> QED BY <2>2, <2>3
<1> QED BY <1>1, <1>2, StagingAssumption

\* A token is its slot and its expiry.
LEMMA TokenFacts ==
    /\ NoTok \notin Tokens /\ NoTok.slot = 0
    /\ \A t \in Tokens : t.slot \in Slots /\ t.slot # 0 /\ t.exp \in Life..(MaxTime + Life)
    /\ \A t, u \in Tokens : t.slot = u.slot /\ t.exp = u.exp => t = u
    /\ \A k \in Slots, e \in Life..(MaxTime + Life) : [slot |-> k, exp |-> e] \in Tokens
<1>1. 0 \notin Slots
  BY SlotFacts DEF Slots
<1> QED BY <1>1 DEF Tokens, NoTok

\* A retirement name is the pair of its slot's base name and an expiry.
LEMMA NameFacts ==
    /\ \A k \in Slots, e \in Life..(MaxTime + Life) :
          /\ RetiredName(k, e) \in Names /\ RetiredName(k, e)[1] = Base(k)
          /\ RetiredName(k, e)[2] = e
    /\ \A k : <<k>> \notin Names
    /\ \A j, k : <<j>> = <<k>> => j = k
  BY SlotFacts DEF RetiredName, Names

\* A batch is what its slots hold.
LEMMA BatchFacts ==
    /\ IsBatch(Empty)
    /\ \A f : IsBatch(f) => \A k \in Slots : f[k] # NoTok => f[k] \in Tokens /\ f[k].slot = k
    /\ \A f, g, k : IsBatch(f) /\ IsBatch(g) /\ k \in Slots => IsBatch([f EXCEPT ![k] = g[k]])
    /\ \A f, k : IsBatch(f) /\ k \in Slots => IsBatch([f EXCEPT ![k] = NoTok])
    /\ \A f, k, e : IsBatch(f) /\ k \in Slots /\ e \in Life..(MaxTime + Life) =>
          IsBatch([f EXCEPT ![k] = [slot |-> k, exp |-> e]])
<1>1. IsBatch(Empty)
  BY TokenFacts DEF IsBatch, Empty
<1>2. ASSUME NEW f, IsBatch(f), NEW k \in Slots, f[k] # NoTok PROVE f[k] \in Tokens /\ f[k].slot = k
  BY <1>2, TokenFacts DEF IsBatch
<1>3. ASSUME NEW f, NEW g, NEW k \in Slots, IsBatch(f), IsBatch(g) PROVE IsBatch([f EXCEPT ![k] = g[k]])
  BY <1>3 DEF IsBatch
<1>4. ASSUME NEW f, NEW k \in Slots, IsBatch(f) PROVE IsBatch([f EXCEPT ![k] = NoTok])
  BY <1>4, TokenFacts DEF IsBatch
<1>5. ASSUME NEW f, NEW k \in Slots, NEW e \in Life..(MaxTime + Life), IsBatch(f)
      PROVE  IsBatch([f EXCEPT ![k] = [slot |-> k, exp |-> e]])
  BY <1>5, TokenFacts DEF IsBatch
<1> QED BY <1>1, <1>2, <1>3, <1>4, <1>5

\* The metadata has an earliest expiry.
LEMMA LeastExpiry == ASSUME NEW m \in Metas PROVE MinExp(m) \in Nat
<1> DEFINE T == {m.exp[k] : k \in Slots}
<1>1. T \subseteq Nat /\ T # {}
  <2>1. m.exp[1] \in T
    BY SlotFacts DEF Slots
  <2>2. \A k \in Slots : m.exp[k] \in Nat
    BY StagingAssumption DEF Metas
  <2> QED BY <2>1, <2>2
<1>2. \E x \in T : \A y \in T : ~ (<<y, x>> \in OpToRel(<, Nat))
  BY <1>1, NatLessThanWellFounded, WFMin, Zenon
<1>3. \E x \in T : \A y \in T : ~(y < x)
  <2>1. ASSUME NEW x \in Nat, NEW y \in Nat, y < x PROVE <<y, x>> \in OpToRel(<, Nat)
    BY <2>1, Zenon DEF OpToRel
  <2> QED BY <1>1, <1>2, <2>1, Zenon
<1>4. \E e \in T : \A k \in Slots : e <= m.exp[k]
  <2>1. PICK x \in T : \A y \in T : ~(y < x)
    BY <1>3
  <2>2. ASSUME NEW k \in Slots PROVE x <= m.exp[k]
    <3>1. m.exp[k] \in T
      OBVIOUS
    <3> HIDE DEF T
    <3> QED BY <1>1, <2>1, <3>1
  <2> QED BY <2>1, <2>2
<1> QED BY <1>1, <1>4 DEF MinExp

\* The components make up TypeOK.
LEMMA TypeParts ==
    TypeOK <=> FlowTypes /\ TokenTypes /\ MetaTypes /\ RetiredTypes /\ AccountTypes
<1>1. {new, file, temp} \subseteq [Slots -> Tokens \cup {NoTok}]
          /\ (\A k \in Slots : {new[k].slot, file[k].slot, temp[k].slot} \subseteq {0, k})
      <=> TokenTypes
  BY DEF TokenTypes, IsBatch
<1>2. {asked, served, due} \subseteq SUBSET Tokens
      <=> asked \subseteq Tokens /\ served \subseteq Tokens /\ due \subseteq Tokens
  OBVIOUS
<1> QED BY <1>1, <1>2, Zenon DEF TypeOK, FlowTypes, MetaTypes, RetiredTypes, AccountTypes

\* A teardown reads files of the stage, and their tokens.
LEMMA ReadFacts ==
    ASSUME TokenTypes, MetaTypes, RetiredTypes
    PROVE  /\ Manifested \subseteq {<<k>> : k \in Slots} \cup Names
           /\ Listed \subseteq {<<k>> : k \in Slots} \cup Names
           /\ \A f \in {<<k>> : k \in Slots} \cup Names : Content(f) \subseteq Tokens
           /\ \A k \in Slots : file[k] \in Tokens => file[k] \in Content(<<k>>)
           /\ \A r \in retired : r.tok \in Content(r.name)
<1>1. Manifested \subseteq {<<k>> : k \in Slots} \cup Names
  BY DEF Manifested, MetaTypes, Metas
<1>2. Listed \subseteq Names
  BY DEF Listed, RetiredTypes
<1>3. ASSUME NEW f \in Names PROVE Content(f) \subseteq Tokens
  BY <1>3 DEF Content, RetiredTypes
<1>4. ASSUME NEW k \in Slots PROVE Content(<<k>>) = {file[k]} \ {NoTok}
  BY <1>4, NameFacts DEF Content
<1>5. ASSUME NEW k \in Slots PROVE Content(<<k>>) \subseteq Tokens
  BY <1>4, <1>5, BatchFacts DEF TokenTypes
<1>6. ASSUME NEW k \in Slots, file[k] \in Tokens PROVE file[k] \in Content(<<k>>)
  BY <1>4, <1>6, TokenFacts
<1>7. ASSUME NEW r \in retired PROVE r.tok \in Content(r.name)
  BY <1>7 DEF Content, RetiredTypes
<1> QED BY <1>1, <1>2, <1>3, <1>5, <1>6, <1>7

-----------------------------------------------------------------------------
(* The invariant is inductive *)

\* The first batch is begun.
LEMMA StartStep ==
    ASSUME IInv, Start
    PROVE  IInv'
<1>0. /\ FlowTypes /\ TokenTypes /\ MetaTypes /\ RetiredTypes /\ AccountTypes
      /\ CalmInv /\ MemoryInv /\ FilesInv /\ RetireInv /\ RunnerInv /\ StopInv
  BY DEF IInv
<1>u. UNCHANGED <<now, agent, cancelled, new, old, file, temp, meta, metaTemp, retired, dir, rdir,
   leaseExp, stop, due, pend, asked, served, wiped, orphaned, torn>>
  BY DEF Start, stage, batch
<1>1. TokenTypes' /\ MetaTypes' /\ RetiredTypes' /\ AccountTypes' /\ StopInv'
  BY <1>0, <1>u DEF TokenTypes, MetaTypes, RetiredTypes, AccountTypes, StopInv, Stored, Lives, First,
     Second
<1>2. FlowTypes'
  BY <1>0, <1>u, SlotFacts, StagingAssumption DEF FlowTypes, Start
<1>3. CalmInv'
  BY <1>0, <1>u DEF Start, CalmInv
<1>4. MemoryInv'
  BY <1>0, <1>u, SlotFacts DEF Start, MemoryInv, Slots
<1>5. FilesInv'
  BY <1>0, <1>u DEF Start, FilesInv, Early
<1>6. RetireInv'
  BY <1>0, <1>u DEF Start, RetireInv, Whole, Early, Stored
<1>7. RunnerInv'
  BY <1>0, <1>u DEF Start, RunnerInv, Whole, Early, Stored, Lives, Reachable, First, Second
<1> QED BY <1>1, <1>2, <1>3, <1>4, <1>5, <1>6, <1>7 DEF IInv

\* A renewal is begun.
LEMMA RenewStep ==
    ASSUME IInv, Renew
    PROVE  IInv'
<1>0. /\ FlowTypes /\ TokenTypes /\ MetaTypes /\ RetiredTypes /\ AccountTypes
      /\ CalmInv /\ MemoryInv /\ FilesInv /\ RetireInv /\ RunnerInv /\ StopInv
  BY DEF IInv
<1>u. UNCHANGED <<now, agent, cancelled, new, old, file, temp, meta, metaTemp, retired, dir, rdir,
   leaseExp, stop, due, pend, asked, served, wiped, orphaned, torn>>
  BY DEF Renew, stage, batch
<1>1. TokenTypes' /\ MetaTypes' /\ RetiredTypes' /\ AccountTypes' /\ StopInv'
  BY <1>0, <1>u DEF TokenTypes, MetaTypes, RetiredTypes, AccountTypes, StopInv, Stored, Lives, First,
     Second
<1>2. FlowTypes'
  BY <1>0, <1>u, SlotFacts, StagingAssumption DEF FlowTypes, Renew
<1>3. CalmInv'
  BY <1>0, <1>u DEF Renew, CalmInv
<1>4. MemoryInv'
  BY <1>0, <1>u, SlotFacts DEF Renew, MemoryInv, Slots
<1>5. FilesInv'
  BY <1>0, <1>u DEF Renew, FilesInv, Early
<1>6. RetireInv'
  BY <1>0, <1>u DEF Renew, RetireInv, Whole, Early, Stored
<1>7. RunnerInv'
  BY <1>0, <1>u DEF Renew, RunnerInv, Whole, Early, Stored, Lives, Reachable, First, Second
<1> QED BY <1>1, <1>2, <1>3, <1>4, <1>5, <1>6, <1>7 DEF IInv

\* A token is minted into memory.
LEMMA MintStep ==
    ASSUME IInv, Mint
    PROVE  IInv'
<1>0. /\ FlowTypes /\ TokenTypes /\ MetaTypes /\ RetiredTypes /\ AccountTypes
      /\ CalmInv /\ MemoryInv /\ FilesInv /\ RetireInv /\ RunnerInv /\ StopInv
  BY DEF IInv
<1>u. UNCHANGED <<now, agent, cancelled, old, file, temp, meta, metaTemp, retired, dir, rdir,
   leaseExp, stop, due, pend, asked, served, wiped, orphaned, torn>>
  BY DEF Mint, stage, batch
<1>m. at \in Slots /\ at \in Nat /\ now + Life \in Life..(MaxTime + Life) /\ NSlots \in Nat
  BY <1>0, SlotFacts, StagingAssumption DEF Mint, MemoryInv, FlowTypes, Slots
<1>t. [slot |-> at, exp |-> now + Life] # NoTok /\ new \in [Slots -> Tokens \cup {NoTok}]
  BY <1>0, <1>m, TokenFacts DEF TokenTypes, IsBatch
<1>1. MetaTypes' /\ RetiredTypes' /\ AccountTypes' /\ StopInv'
  BY <1>0, <1>u DEF MetaTypes, RetiredTypes, AccountTypes, StopInv, Stored, Lives, First, Second
<1>2. FlowTypes'
  <2>1. at' \in 1..(NSlots + 1)
    BY <1>0, <1>m DEF Mint, FlowTypes, Slots
  <2> QED BY <1>0, <1>u, <2>1 DEF FlowTypes, Mint, Fail
<1>3. TokenTypes'
  BY <1>0, <1>u, <1>m, BatchFacts DEF Mint, TokenTypes
<1>4. CalmInv'
  BY <1>0, <1>u DEF Mint, Fail, CalmInv
<1>5. MemoryInv'
  <2>1. CASE new' = [new EXCEPT ![at] = [slot |-> at, exp |-> now + Life]]
          /\ at' = at + 1 /\ pc' = IF at = NSlots THEN "prepare" ELSE "mint"
    <3>1. \A k \in Slots : k < at + 1 => new'[k] # NoTok
      BY <1>0, <1>m, <1>t, <2>1 DEF Mint, MemoryInv, Slots
    <3> QED BY <1>m, <2>1, <3>1 DEF MemoryInv, Slots
  <2>2. CASE Fail /\ UNCHANGED <<new, at>>
    BY <2>2 DEF Fail, MemoryInv
  <2> QED BY <2>1, <2>2 DEF Mint
<1>6. FilesInv'
  BY <1>0, <1>u DEF Mint, Fail, FilesInv, Early
<1>7. RetireInv'
  BY <1>0, <1>u DEF Mint, Fail, RetireInv, Whole, Early, Stored
<1>8. RunnerInv'
  BY <1>0, <1>u DEF Mint, Fail, RunnerInv, Whole, Early, Stored, Lives, Reachable, First, Second
<1> QED BY <1>1, <1>2, <1>3, <1>4, <1>5, <1>6, <1>7, <1>8 DEF IInv

\* The metadata is read.
LEMMA PrepareStep ==
    ASSUME IInv, Prepare
    PROVE  IInv'
<1>0. /\ FlowTypes /\ TokenTypes /\ MetaTypes /\ RetiredTypes /\ AccountTypes
      /\ CalmInv /\ MemoryInv /\ FilesInv /\ RetireInv /\ RunnerInv /\ StopInv
  BY DEF IInv
<1>u. UNCHANGED <<now, at, agent, cancelled, new, file, temp, meta, metaTemp, retired, rdir,
   leaseExp, stop, due, pend, asked, served, wiped, orphaned, torn>>
  BY DEF Prepare, stage, batch
<1>1. TokenTypes' /\ RetiredTypes' /\ AccountTypes' /\ StopInv'
  BY <1>0, <1>u DEF TokenTypes, RetiredTypes, AccountTypes, StopInv, Stored, Lives, First, Second
<1>2. FlowTypes'
  BY <1>0, <1>u DEF Prepare, FlowTypes
<1>3. MetaTypes'
  BY <1>0, <1>u DEF Prepare, MetaTypes
<1>4. CalmInv'
  BY <1>0, <1>u DEF Prepare, CalmInv
<1>5. MemoryInv'
  BY <1>0, <1>u DEF Prepare, MemoryInv
<1>6. FilesInv'
  BY <1>0, <1>u DEF Prepare, FilesInv, Early
<1>7. RetireInv'
  BY <1>0, <1>u DEF Prepare, RetireInv, Whole, Early, Stored
<1>8. RunnerInv'
  BY <1>0, <1>u DEF Prepare, RunnerInv, Whole, Early, Stored, Lives, Reachable, First, Second
<1> QED BY <1>1, <1>2, <1>3, <1>4, <1>5, <1>6, <1>7, <1>8 DEF IInv

\* The siblings are the batch, or gone.
LEMMA WriteTempsStep ==
    ASSUME IInv, WriteTemps
    PROVE  IInv'
<1>0. /\ FlowTypes /\ TokenTypes /\ MetaTypes /\ RetiredTypes /\ AccountTypes
      /\ CalmInv /\ MemoryInv /\ FilesInv /\ RetireInv /\ RunnerInv /\ StopInv
  BY DEF IInv
<1>u. UNCHANGED <<now, agent, cancelled, new, old, file, meta, retired, dir, leaseExp, stop, due,
   pend, asked, served, wiped, orphaned, torn>>
  BY DEF WriteTemps, stage, batch
<1>f. \/ /\ temp' = new /\ at' = 1 /\ pc' = (IF old = NoMeta THEN "commit" ELSE "retain")
         /\ metaTemp' = [exp |-> [k \in Slots |-> new[k].exp], retired |-> RetainedNames]
      \/ pc' \in {"wipe", "held"} /\ temp' = Empty /\ metaTemp' = NoMeta /\ at' = at
  BY DEF WriteTemps, Fail
<1>g. pc = "write"
  BY DEF WriteTemps
<1>1. RetiredTypes' /\ AccountTypes' /\ StopInv'
  BY <1>0, <1>u DEF RetiredTypes, AccountTypes, StopInv, Stored, Lives, First, Second
<1>2. FlowTypes'
  <2>1. rdir' \in BOOLEAN
    BY <1>0, Zenon DEF WriteTemps, FlowTypes
  <2> QED BY <1>0, <1>u, <1>f, <2>1, SlotFacts DEF FlowTypes
<1>3. TokenTypes'
  BY <1>0, <1>u, <1>f, BatchFacts DEF TokenTypes
<1>4. MetaTypes'
  <2>1. \A k \in Slots : new[k].exp \in Life..(MaxTime + Life)
    BY <1>0, <1>g, BatchFacts, TokenFacts DEF MemoryInv, TokenTypes
  <2>2. RetainedNames \subseteq Names
    BY <1>0, NameFacts DEF RetainedNames, MetaTypes, Metas, NoMeta
  <2>3. [exp |-> [k \in Slots |-> new[k].exp], retired |-> RetainedNames] \in Metas
    BY <2>1, <2>2 DEF Metas
  <2> QED BY <1>0, <1>u, <1>f, <2>3 DEF MetaTypes
<1>5. CalmInv'
  BY <1>0, <1>u DEF WriteTemps, Fail, CalmInv
<1>6. MemoryInv'
  BY <1>0, <1>u, <1>f, <1>g, SlotFacts DEF MemoryInv
<1>7. FilesInv'
  <2>1. CASE pc' \in {"wipe", "held"}
    BY <1>0, <1>u, <1>g, <2>1 DEF FilesInv, Early
  <2>2. CASE pc' \notin {"wipe", "held"}
    <3>1. /\ temp' = new /\ at' = 1 /\ pc' \in {"commit", "retain"}
          /\ metaTemp'.exp = [k \in Slots |-> new[k].exp]
      BY <1>f, <2>2
    <3>2. \A k \in Slots : ~(k < 1)
      BY DEF Slots
    <3> QED BY <1>0, <1>u, <1>g, <3>1, <3>2 DEF FilesInv, Early
  <2> QED BY <2>1, <2>2
<1>8. RetireInv'
  BY <1>0, <1>u, <1>f, <1>g DEF RetireInv, Whole, Early, Stored, Slots
<1>9. RunnerInv'
  BY <1>0, <1>u DEF WriteTemps, Fail, RunnerInv, Whole, Early, Stored, Lives, Reachable, First, Second
<1> QED BY <1>1, <1>2, <1>3, <1>4, <1>5, <1>6, <1>7, <1>8, <1>9 DEF IInv

\* A copy replaces only a copy of the same token.
LEMMA RetainStep ==
    ASSUME IInv, Retain
    PROVE  IInv'
<1>0. /\ FlowTypes /\ TokenTypes /\ MetaTypes /\ RetiredTypes /\ AccountTypes
      /\ CalmInv /\ MemoryInv /\ FilesInv /\ RetireInv /\ RunnerInv /\ StopInv
  BY DEF IInv
<1>u. UNCHANGED <<now, agent, cancelled, new, old, meta, dir, rdir, leaseExp, stop, due, pend, asked,
   served, wiped, orphaned, torn>>
  BY DEF Retain, stage, batch
<1> DEFINE k == RetainSlot(at)
           name == RetiredName(k, old.exp[k])
<1>g. /\ pc = "retain" /\ at \in Slots /\ k \in Slots /\ old \in Metas
      /\ name \in Names /\ NSlots \in Nat /\ at \in Nat
  <2>1. pc = "retain" /\ at \in Slots /\ old \in Metas
    BY <1>0, SlotFacts DEF Retain, MemoryInv, FlowTypes, MetaTypes, Slots
  <2>2. k \in Slots /\ NSlots \in Nat /\ at \in Nat
    BY <2>1, SlotFacts DEF Slots
  <2>3. old.exp[k] \in Life..(MaxTime + Life)
    BY <2>1, <2>2 DEF Metas
  <2> QED BY <2>1, <2>2, <2>3, NameFacts
<1>f. \/ /\ IF file[k] = NoTok THEN retired' = retired
            ELSE retired' = Others(name) \cup {[name |-> name, tok |-> file[k]]}
         /\ at' = (IF at = NSlots THEN 1 ELSE at + 1)
         /\ pc' = (IF at = NSlots THEN "commit" ELSE "retain")
         /\ UNCHANGED <<temp, metaTemp>>
      \/ /\ pc' \in {"wipe", "held"} /\ temp' = Empty /\ metaTemp' = NoMeta /\ at' = at
         /\ retired' = retired
  BY DEF Retain, Fail
<1>v. file' = file
  BY DEF Retain, LeftInPlace
<1>k. file[k] # NoTok => file[k] \in Tokens /\ file[k].slot = k
  BY <1>0, <1>g, BatchFacts DEF TokenTypes
<1> HIDE DEF k, name
<1>e. ASSUME Whole, file[k] # NoTok PROVE name = RetiredName(file[k].slot, file[k].exp)
  BY <1>0, <1>e, <1>g, <1>k DEF RetireInv, Whole, FilesInv, MemoryInv, name
<1>s. ASSUME Whole, NEW r \in retired PROVE \E q \in retired' : q.tok = r.tok /\ q.name = r.name
  <2>1. r.name = RetiredName(r.tok.slot, r.tok.exp) /\ r.tok \in Tokens
    BY <1>0, <1>s DEF RetireInv, RetiredTypes
  <2>2. CASE retired' = retired
    BY <1>s, <2>2
  <2>3. CASE file[k] # NoTok /\ retired' = Others(name) \cup {[name |-> name, tok |-> file[k]]}
    <3>1. CASE r.name # name
      BY <1>s, <2>3, <3>1 DEF Others
    <3>2. CASE r.name = name
      <4>1. Base(r.tok.slot) = Base(file[k].slot) /\ r.tok.exp = file[k].exp
        BY <1>s, <1>e, <2>1, <2>3, <3>2 DEF RetiredName
      <4>2. file[k] \in Tokens /\ r.tok.slot \in Slots /\ file[k].slot \in Slots
        BY <1>k, <2>1, <2>3, TokenFacts
      <4>3. r.tok.slot = file[k].slot
        BY <1>s, <4>1, <4>2, BaseFacts DEF Whole
      <4>4. r.tok = file[k]
        BY <2>1, <4>1, <4>2, <4>3, TokenFacts
      <4>5. [name |-> name, tok |-> file[k]] \in retired'
        BY <2>3
      <4> QED BY <3>2, <4>4, <4>5
    <3> QED BY <3>1, <3>2
  <2> QED BY <1>f, <2>2, <2>3
<1>w. Whole' <=> Whole
  BY <1>u DEF Whole, Early
<1>1. AccountTypes'
  BY <1>0, <1>u DEF AccountTypes
<1>2. FlowTypes'
  <2>1. at' \in 1..(NSlots + 1)
    BY <1>0, <1>f, <1>g DEF FlowTypes, Slots
  <2> QED BY <1>0, <1>u, <1>f, <2>1 DEF FlowTypes
<1>3. TokenTypes'
  BY <1>0, <1>u, <1>f, <1>v, BatchFacts DEF TokenTypes
<1>4. MetaTypes'
  BY <1>0, <1>u DEF Retain, Fail, LeftInPlace, MetaTypes
<1>5. RetiredTypes'
  <2>1. CASE retired' = retired
    BY <1>0, <2>1 DEF RetiredTypes
  <2>2. CASE file[k] # NoTok /\ retired' = Others(name) \cup {[name |-> name, tok |-> file[k]]}
    BY <1>0, <1>g, <1>k, <2>2 DEF RetiredTypes, Others
  <2> QED BY <1>f, <2>1, <2>2
<1>6. CalmInv'
  BY <1>0, <1>u DEF Retain, Fail, LeftInPlace, CalmInv
<1>7. MemoryInv'
  BY <1>0, <1>u, <1>f, <1>g DEF MemoryInv, Slots
<1>8. FilesInv'
  <2>1. CASE pc' \in {"wipe", "held"}
    BY <1>0, <1>u, <1>g, <1>v, <2>1 DEF FilesInv, Early
  <2>2. CASE pc' = "retain" /\ UNCHANGED <<temp, metaTemp>>
    BY <1>0, <1>u, <1>g, <1>v, <2>2 DEF FilesInv, Early
  <2>3. CASE pc' = "commit" /\ at' = 1 /\ UNCHANGED <<temp, metaTemp>>
    BY <1>0, <1>u, <1>g, <1>v, <2>3 DEF FilesInv, Early, Slots
  <2> QED BY <1>f, <2>1, <2>2, <2>3
<1>9. RetireInv'
  <2> SUFFICES ASSUME Whole PROVE RetireInv'
    BY <1>w DEF RetireInv
  <2> DEFINE Kept(t) == t = NoTok \/ \E q \in retired' : q.tok = t
  <2>1. \A r \in retired' : r.name = RetiredName(r.tok.slot, r.tok.exp)
    BY <1>0, <1>e, <1>f DEF RetireInv, Others
  <2>2. \A t : Stored(t) => Kept(t)
    BY <1>s DEF Stored
  <2>3. pc' \in {"retain", "commit"} => Kept(file[k])
    <3>1. pc' \in {"retain", "commit"} /\ file[k] # NoTok => [name |-> name, tok |-> file[k]] \in retired'
      BY <1>f
    <3> QED BY <3>1
  <2> HIDE DEF Kept
  <2>4. \A j \in Slots : j < at => Kept(file[RetainSlot(j)])
    <3>1. Kept(NoTok)
      BY DEF Kept
    <3> QED BY <1>0, <1>g, <2>2, <3>1 DEF RetireInv
  <2>5. pc' = "retain" => \A j \in Slots : j < at' => Kept(file[RetainSlot(j)])
    <3>1. pc' = "retain" => at' = at + 1
      BY <1>f
    <3>2. \A j \in Slots : j < at + 1 => j < at \/ j = at
      BY <1>g DEF Slots
    <3> QED BY <2>3, <2>4, <3>1, <3>2 DEF k
  <2>6. pc' = "commit" => \A i \in Slots : Kept(file[i])
    <3>1. \A j \in Slots : at = NSlots => j < at \/ j = at
      BY <1>g DEF Slots
    <3>2. pc' = "commit" => at = NSlots
      BY <1>f
    <3>3. pc' = "commit" => \A j \in Slots : Kept(file[RetainSlot(j)])
      BY <2>3, <2>4, <3>1, <3>2 DEF k
    <3> QED BY <3>3, SlotFacts
  <2>7. meta # NoMeta => \A i \in Slots : file[i] # NoTok => file[i].exp = meta.exp[i]
    BY <1>0, <1>g DEF RetireInv
  <2> QED BY <1>u, <1>v, <2>1, <2>5, <2>6, <2>7 DEF RetireInv, Kept, Stored
<1>10. RunnerInv'
  BY <1>0, <1>u, <1>f, <1>g, <1>v, <1>s, <1>w DEF RunnerInv, Lives, Reachable
<1>11. StopInv'
  BY <1>0, <1>u, <1>v, <1>s DEF StopInv, Whole, Early, Stored, Lives, First, Second
<1> QED BY <1>1, <1>2, <1>3, <1>4, <1>5, <1>6, <1>7, <1>8, <1>9, <1>10, <1>11 DEF IInv

\* A token that is replaced was retired before.
LEMMA CommitStep ==
    ASSUME IInv, Commit
    PROVE  IInv'
<1>0. /\ FlowTypes /\ TokenTypes /\ MetaTypes /\ RetiredTypes /\ AccountTypes
      /\ CalmInv /\ MemoryInv /\ FilesInv /\ RetireInv /\ RunnerInv /\ StopInv
  BY DEF IInv
<1>u. UNCHANGED <<now, agent, cancelled, new, old, retired, dir, rdir, leaseExp, stop, due, pend,
   asked, wiped, orphaned>>
  BY DEF Commit, stage, batch
<1>f. \/ /\ at \in Slots /\ at <= NSlots /\ temp[at] # NoTok /\ pc' = pc /\ at' = at + 1
         /\ file' = [file EXCEPT ![at] = temp[at]] /\ temp' = [temp EXCEPT ![at] = NoTok]
         /\ UNCHANGED <<meta, metaTemp, torn>>
      \/ /\ at = NSlots + 1 /\ metaTemp # NoMeta /\ meta' = metaTemp /\ metaTemp' = NoMeta
         /\ pc' = "expire" /\ UNCHANGED <<file, temp, at, served, torn>>
      \/ /\ pc' \in {"wipe", "held"} /\ at' = 1 /\ torn' = (torn \/ at > 1)
         /\ UNCHANGED <<file, temp, meta, metaTemp, served>>
  BY <1>0, SlotFacts DEF Commit, Fail, MetaTurn, FlowTypes, Slots
<1>g. pc = "commit" /\ at \in Nat /\ at >= 1 /\ NSlots \in Nat
  BY <1>0, SlotFacts DEF Commit, FlowTypes
<1>o. ~orphaned
  BY <1>0, <1>g DEF CalmInv
<1>n. \A k \in Slots : k \in Nat /\ k <= NSlots /\ new[k] # NoTok
  BY <1>0, <1>g DEF Slots, MemoryInv
<1>t. IsBatch(file') /\ IsBatch(temp')
  BY <1>0, <1>f, BatchFacts DEF TokenTypes
<1>w. Whole' => Whole
  BY <1>u, <1>f DEF Whole, Early
<1>s. \A x \in served' : x \in served \/ (agent = "up" /\ \E k \in Slots : file'[k] = x /\ x # NoTok)
  BY DEF Commit, Serve
<1>v. ASSUME agent # "none", Early PROVE meta # NoMeta /\ meta' # NoMeta
  BY <1>0, <1>f, <1>g, <1>o, <1>v DEF FilesInv
<1>k. ASSUME Whole, agent # "none", NEW k \in Slots, file'[k] # file[k], file[k] # NoTok
      PROVE  Stored(file[k])
  <2>1. k = at /\ old # NoMeta
    BY <1>0, <1>f, <1>g, <1>k, <1>v DEF FilesInv, Whole, TokenTypes, IsBatch
  <2> QED BY <1>0, <1>g, <1>k, <2>1, <1>n DEF RetireInv
<1>1. RetiredTypes'
  BY <1>0, <1>u DEF RetiredTypes
<1>2. FlowTypes'
  <2>1. at' \in 1..(NSlots + 1)
    BY <1>0, <1>f, <1>g DEF FlowTypes, Slots
  <2>2. torn' \in BOOLEAN
    BY <1>0, <1>f, Zenon DEF FlowTypes
  <2> QED BY <1>0, <1>u, <1>f, <2>1, <2>2 DEF FlowTypes
<1>3. TokenTypes'
  BY <1>0, <1>u, <1>t DEF TokenTypes
<1>4. MetaTypes'
  BY <1>0, <1>u DEF Commit, Fail, Serve, MetaTurn, MetaTypes
<1>5. AccountTypes'
  <2>1. served' \subseteq Tokens
    BY <1>0, <1>s, <1>t, BatchFacts DEF AccountTypes
  <2> QED BY <1>0, <1>u, <2>1 DEF AccountTypes
<1>6. CalmInv'
  BY <1>0, <1>u DEF Commit, Fail, Serve, MetaTurn, CalmInv
<1>7. MemoryInv'
  BY <1>0, <1>u DEF Commit, Fail, Serve, MetaTurn, MemoryInv
<1>8. FilesInv'
  <2> SUFFICES ASSUME Early PROVE FilesInv'
    BY <1>u DEF FilesInv, Early
  <2>1. /\ old = meta /\ metaTemp.exp = [k \in Slots |-> new[k].exp]
        /\ \A k \in Slots : IF k < at THEN file[k] = new[k] ELSE temp[k] = new[k]
        /\ agent # "none" => meta # NoMeta /\ \A k \in Slots : file[k] # NoTok
    BY <1>0, <1>g, <1>o DEF FilesInv
  <2>2. CASE /\ at \in Slots /\ temp[at] # NoTok /\ pc' = pc /\ at' = at + 1
             /\ file' = [file EXCEPT ![at] = temp[at]] /\ temp' = [temp EXCEPT ![at] = NoTok]
             /\ UNCHANGED <<meta, metaTemp, torn>>
    <3>1. \A k \in Slots : /\ file'[k] = (IF k = at THEN temp[at] ELSE file[k])
                           /\ temp'[k] = (IF k = at THEN NoTok ELSE temp[k])
      BY <1>0, <2>2 DEF TokenTypes, IsBatch
    <3>2. \A k \in Slots : k < at + 1 <=> k < at \/ k = at
      BY <1>g, <1>n
    <3>3. \A k \in Slots : IF k < at' THEN file'[k] = new[k] ELSE temp'[k] = new[k]
      BY <1>g, <2>1, <2>2, <3>1, <3>2
    <3>4. agent # "none" => \A k \in Slots : file'[k] # NoTok
      BY <2>1, <2>2, <3>1
    <3> QED BY <1>g, <1>u, <2>1, <2>2, <3>3, <3>4 DEF FilesInv
  <2>3. CASE at = NSlots + 1 /\ metaTemp # NoMeta /\ meta' = metaTemp /\ pc' = "expire" /\ file' = file
    <3>1. \A k \in Slots : file'[k] # NoTok
      BY <1>g, <1>n, <2>1, <2>3
    <3> QED BY <1>u, <2>3, <3>1 DEF FilesInv
  <2>4. CASE pc' \in {"wipe", "held"} /\ UNCHANGED <<file, meta>>
    BY <1>u, <2>1, <2>4 DEF FilesInv
  <2> QED BY <1>f, <2>2, <2>3, <2>4
<1>9. RetireInv'
  <2> SUFFICES ASSUME Whole, Whole' PROVE RetireInv'
    BY <1>w DEF RetireInv
  <2>1. /\ \A r \in retired : r.name = RetiredName(r.tok.slot, r.tok.exp)
        /\ meta # NoMeta => \A k \in Slots : file[k] # NoTok /\ ~(k < at) => file[k].exp = meta.exp[k]
        /\ old # NoMeta => \A k \in Slots : k >= at => file[k] = NoTok \/ Stored(file[k])
    BY <1>0, <1>g DEF RetireInv
  <2>2. CASE /\ at \in Slots /\ pc' = pc /\ at' = at + 1 /\ meta' = meta
             /\ file' = [file EXCEPT ![at] = temp[at]]
    <3>1. \A k \in Slots : k # at => file'[k] = file[k]
      BY <1>0, <2>2 DEF TokenTypes, IsBatch
    <3>2. \A k \in Slots : ~(k < at + 1) => k # at /\ ~(k < at) /\ k >= at
      BY <1>g, <1>n
    <3>3. \A k \in Slots : k >= at + 1 => ~(k < at + 1)
      BY <1>g, <1>n
    <3>4. meta # NoMeta => \A k \in Slots : file'[k] # NoTok /\ ~(k < at') => file'[k].exp = meta.exp[k]
      BY <2>1, <2>2, <3>1, <3>2
    <3>5. old # NoMeta => \A k \in Slots : k >= at' =>
              file'[k] = NoTok \/ \E r \in retired : r.tok = file'[k]
      BY <2>1, <2>2, <3>1, <3>2, <3>3 DEF Stored
    <3> QED BY <1>g, <1>u, <2>1, <2>2, <3>4, <3>5 DEF RetireInv, Stored
  <2>3. CASE at = NSlots + 1 /\ meta' = metaTemp /\ pc' = "expire" /\ file' = file
    <3>1. \A k \in Slots : k < at
      BY <1>g, <1>n, <2>3
    <3>2. \A k \in Slots : file'[k].exp = meta'.exp[k]
      BY <1>0, <1>g, <2>3, <3>1 DEF FilesInv, Whole
    <3> QED BY <1>u, <2>1, <2>3, <3>2 DEF RetireInv
  <2>4. CASE pc' \in {"wipe", "held"} /\ torn' = (torn \/ at > 1) /\ UNCHANGED <<file, meta>>
    <3>0. ~(at > 1)
      BY <2>4, Zenon DEF Whole
    <3>1. at = 1
      BY <1>g, <3>0
    <3>2. \A k \in Slots : ~(k < at)
      BY <3>1 DEF Slots
    <3> QED BY <1>u, <2>1, <2>4, <3>2 DEF RetireInv
  <2> QED BY <1>f, <2>2, <2>3, <2>4
<1>10. RunnerInv'
  <2> SUFFICES ASSUME Whole, NEW t \in served', Lives(t)
               PROVE  pc' \notin {"revoke", "scan", "ended"} /\ Reachable(t)'
    BY <1>u, <1>w DEF RunnerInv, Lives
  <2>1. pc' \notin {"revoke", "scan", "ended"}
    BY <1>f, <1>g
  <2> SUFFICES Reachable(t)'
    BY <2>1
  <2>2. agent # "none" /\ Early
    BY <1>0, <1>s DEF CalmInv, Whole
  <2>3. CASE t \in served
    <3>1. Reachable(t) /\ t # NoTok
      BY <1>0, <1>g, <1>o, <2>3, TokenFacts DEF RunnerInv, AccountTypes
    <3>2. CASE Stored(t)
      BY <1>u, <3>2 DEF Reachable, Stored
    <3>3. ASSUME NEW k \in Slots, file[k] = t PROVE Reachable(t)'
      <4>1. CASE file'[k] = file[k]
        <5>1. meta' # NoMeta
          BY <1>v, <2>2
        <5> QED BY <3>3, <4>1, <5>1 DEF Reachable
      <4>2. CASE file'[k] # file[k]
        BY <1>k, <2>2, <3>1, <3>2, <3>3, <4>2
      <4> QED BY <4>1, <4>2
    <3> QED BY <3>1, <3>2, <3>3 DEF Reachable, Stored
  <2>4. CASE \E k \in Slots : file'[k] = t
    <3>1. meta' # NoMeta
      BY <1>v, <2>2
    <3> QED BY <2>4, <3>1 DEF Reachable
  <2> QED BY <1>s, <2>3, <2>4
<1>11. StopInv'
  <2> SUFFICES ASSUME Distinct, ~torn, NEW t \in due, Lives(t)
               PROVE  /\ stop = "revoke" => First("stop", t)'
                      /\ stop = "scan" => Second("stop", t)'
                      /\ stop \notin {"none", "revoke", "scan"} => t \in asked
    BY <1>f, <1>o, <1>u DEF StopInv, Lives
  <2>1. t \in Tokens /\ agent # "none"
    BY <1>0 DEF CalmInv, AccountTypes
  <2>2. stop = "revoke" => First("stop", t)'
    BY <1>0, <1>k, <1>o, <1>u, <2>1, TokenFacts DEF StopInv, First, Stored, Whole, Early
  <2> QED BY <1>0, <1>o, <1>u, <2>2 DEF StopInv, Second
<1> QED BY <1>1, <1>2, <1>3, <1>4, <1>5, <1>6, <1>7, <1>8, <1>9, <1>10, <1>11 DEF IInv

\* Only expired copies are removed, and only their own names say so.
LEMMA StagedStep ==
    ASSUME IInv, Staged
    PROVE  IInv'
<1>0. /\ FlowTypes /\ TokenTypes /\ MetaTypes /\ RetiredTypes /\ AccountTypes
      /\ CalmInv /\ MemoryInv /\ FilesInv /\ RetireInv /\ RunnerInv /\ StopInv
  BY DEF IInv
<1>u. UNCHANGED <<now, cancelled, new, old, file, temp, meta, metaTemp, dir, rdir, stop, due, pend,
   asked, wiped, orphaned, torn>>
  BY DEF Staged, stage, batch
<1>f. /\ pc = "expire" /\ pc' \in {"held", "wipe"} /\ at' = 1
      /\ (pc' = "wipe" => agent = "none" /\ agent' = agent) /\ agent' \in {"none", "up", "over"}
      /\ (agent # "none" => agent' = agent)
  BY <1>0 DEF Staged, Fail, Launched, FlowTypes
<1>s. \A x \in served' : x \in served \/ (agent' = "up" /\ \E k \in Slots : file[k] = x /\ x # NoTok)
  BY DEF Staged, Serve
<1>r. /\ retired' \subseteq retired
      /\ \A r \in retired : r.name[2] > now => r \in retired'
  BY DEF Staged
<1>k. ASSUME Whole, NEW r \in retired, Lives(r.tok) PROVE r \in retired'
  <2>1. r.name = RetiredName(r.tok.slot, r.tok.exp) /\ r.tok \in Tokens
    BY <1>0, <1>k DEF RetireInv, RetiredTypes
  <2>2. r.name[2] = r.tok.exp
    BY <2>1 DEF RetiredName
  <2>3. r.tok.exp > now
    BY <1>0, <1>k, <2>1, TokenFacts, StagingAssumption DEF Lives, FlowTypes
  <2> QED BY <1>k, <1>r, <2>2, <2>3
<1>1. TokenTypes' /\ MetaTypes'
  BY <1>0, <1>u DEF TokenTypes, MetaTypes
<1>2. FlowTypes'
  <2>1. leaseExp' \in Nat
    BY <1>0, LeastExpiry DEF Staged, MetaTypes, FlowTypes
  <2> QED BY <1>0, <1>u, <1>f, <2>1, SlotFacts DEF FlowTypes
<1>3. RetiredTypes'
  BY <1>0, <1>u DEF Staged, Fail, Serve, Launched, RetiredTypes
<1>4. AccountTypes'
  <2>1. served' \subseteq Tokens
    BY <1>0, <1>s, BatchFacts DEF AccountTypes, TokenTypes
  <2> QED BY <1>0, <1>u, <2>1 DEF AccountTypes
<1>5. CalmInv'
  BY <1>0, <1>u DEF Staged, Fail, Serve, Launched, CalmInv
<1>6. MemoryInv'
  BY <1>0, <1>u DEF Staged, Fail, Serve, Launched, MemoryInv
<1>7. FilesInv'
  BY <1>0, <1>u DEF Staged, Fail, Serve, Launched, FilesInv, Early
<1>8. RetireInv'
  BY <1>0, <1>u DEF Staged, Fail, Serve, Launched, RetireInv, Whole, Early, Stored
<1>9. RunnerInv'
  <2> SUFFICES ASSUME Whole, NEW t \in served', Lives(t) PROVE Reachable(t)'
    BY <1>f, <1>u DEF RunnerInv, Lives, Whole, Early
  <2>1. CASE t \in served
    <3>1. Reachable(t)
      BY <1>0, <1>f, <2>1 DEF CalmInv, RunnerInv
    <3> QED BY <1>k, <1>u, <3>1 DEF Reachable
  <2>2. CASE \E k \in Slots : file[k] = t
    BY <1>0, <1>f, <1>u, <2>2 DEF Reachable, FilesInv, Whole
  <2> QED BY <1>s, <2>1, <2>2
<1>10. StopInv'
  BY <1>0, <1>k, <1>u DEF StopInv, Whole, Early, Stored, Lives, First, Second
<1> QED BY <1>1, <1>2, <1>3, <1>4, <1>5, <1>6, <1>7, <1>8, <1>9, <1>10 DEF IInv

\* The agent is over.
LEMMA AgentExitsStep ==
    ASSUME IInv, AgentExits
    PROVE  IInv'
<1>0. /\ FlowTypes /\ TokenTypes /\ MetaTypes /\ RetiredTypes /\ AccountTypes
      /\ CalmInv /\ MemoryInv /\ FilesInv /\ RetireInv /\ RunnerInv /\ StopInv
  BY DEF IInv
<1>u. UNCHANGED <<now, pc, at, cancelled, new, old, file, temp, meta, metaTemp, retired, dir, rdir,
   leaseExp, stop, due, pend, asked, served, wiped, orphaned, torn>>
  BY DEF AgentExits, stage, batch
<1>1. TokenTypes' /\ MetaTypes' /\ RetiredTypes' /\ AccountTypes' /\ MemoryInv'
  BY <1>0, <1>u DEF TokenTypes, MetaTypes, RetiredTypes, AccountTypes, MemoryInv
<1>2. RetireInv' /\ RunnerInv' /\ StopInv'
  BY <1>0, <1>u DEF RetireInv, Whole, Early, Stored, RunnerInv, Lives, Reachable, First, Second, StopInv
<1>3. FlowTypes'
  BY <1>0, <1>u DEF AgentExits, FlowTypes
<1>4. CalmInv'
  BY <1>0, <1>u DEF AgentExits, CalmInv
<1>5. FilesInv'
  BY <1>0, <1>u DEF AgentExits, FilesInv, Early
<1> QED BY <1>1, <1>2, <1>3, <1>4, <1>5 DEF IInv

\* The lease is cancelled.
LEMMA CancelLeaseStep ==
    ASSUME IInv, CancelLease
    PROVE  IInv'
<1>0. /\ FlowTypes /\ TokenTypes /\ MetaTypes /\ RetiredTypes /\ AccountTypes
      /\ CalmInv /\ MemoryInv /\ FilesInv /\ RetireInv /\ RunnerInv /\ StopInv
  BY DEF IInv
<1>u. UNCHANGED <<now, pc, at, agent, new, old, file, temp, meta, metaTemp, retired, dir, rdir,
   leaseExp, stop, due, pend, asked, served, wiped, orphaned, torn>>
  BY DEF CancelLease, stage, batch
<1>1. TokenTypes' /\ MetaTypes' /\ RetiredTypes' /\ AccountTypes' /\ MemoryInv'
  BY <1>0, <1>u DEF TokenTypes, MetaTypes, RetiredTypes, AccountTypes, MemoryInv
<1>2. FilesInv' /\ RetireInv' /\ RunnerInv' /\ StopInv'
  BY <1>0, <1>u DEF FilesInv, Early, RetireInv, Whole, Stored, RunnerInv, Lives, Reachable, First,
     Second, StopInv
<1>3. FlowTypes'
  BY <1>0, <1>u DEF CancelLease, FlowTypes
<1>4. CalmInv'
  BY <1>0, <1>u DEF CancelLease, CalmInv
<1> QED BY <1>1, <1>2, <1>3, <1>4 DEF IInv

\* The teardown begins with what the metadata names.
LEMMA TeardownStep ==
    ASSUME IInv, Teardown
    PROVE  IInv'
<1>0. /\ FlowTypes /\ TokenTypes /\ MetaTypes /\ RetiredTypes /\ AccountTypes
      /\ CalmInv /\ MemoryInv /\ FilesInv /\ RetireInv /\ RunnerInv /\ StopInv
  BY DEF IInv
<1>u. UNCHANGED <<now, at, agent, cancelled, new, old, file, temp, meta, metaTemp, retired, dir,
   rdir, leaseExp, stop, due, asked, served, wiped, orphaned, torn>>
  BY DEF Teardown, stage, batch
<1>p. pend'["runner"] = Manifested /\ \A k \in Slots : meta # NoMeta => <<k>> \in Manifested
  BY <1>0 DEF Teardown, AccountTypes, Manifested, Revokers
<1>1. TokenTypes' /\ MetaTypes' /\ RetiredTypes'
  BY <1>0, <1>u DEF TokenTypes, MetaTypes, RetiredTypes
<1>o. ~orphaned
  BY <1>0 DEF CalmInv, Teardown, RenewalOver
<1>2. FlowTypes'
  BY <1>0, <1>u DEF Teardown, RenewalOver, FlowTypes
<1>3. AccountTypes'
  BY <1>0, <1>u, ReadFacts DEF Teardown, AccountTypes
<1>4. CalmInv'
  BY <1>0, <1>u DEF Teardown, RenewalOver, CalmInv
<1>5. MemoryInv'
  BY <1>0, <1>u DEF Teardown, RenewalOver, MemoryInv
<1>6. FilesInv'
  BY <1>0, <1>u DEF Teardown, RenewalOver, FilesInv, Early
<1>7. RetireInv'
  BY <1>0, <1>u DEF Teardown, RenewalOver, RetireInv, Whole, Early, Stored
<1>8. RunnerInv'
  BY <1>0, <1>o, <1>p, <1>u DEF Teardown, RunnerInv, Whole, Early, Stored, Lives, Reachable, First, Second,
     RenewalOver
<1>9. StopInv'
  BY <1>0, <1>u DEF Teardown, RenewalOver, StopInv, Stored, Lives, First, Second
<1> QED BY <1>1, <1>2, <1>3, <1>4, <1>5, <1>6, <1>7, <1>8, <1>9 DEF IInv

\* What is not asked for by now is in the retirement directory.
LEMMA TeardownScanStep ==
    ASSUME IInv, TeardownScan
    PROVE  IInv'
<1>0. /\ FlowTypes /\ TokenTypes /\ MetaTypes /\ RetiredTypes /\ AccountTypes
      /\ CalmInv /\ MemoryInv /\ FilesInv /\ RetireInv /\ RunnerInv /\ StopInv
  BY DEF IInv
<1>u. UNCHANGED <<now, at, agent, cancelled, new, old, file, temp, meta, metaTemp, retired, dir,
   rdir, leaseExp, stop, due, asked, served, wiped, orphaned, torn>>
  BY DEF TeardownScan, stage, batch
<1>p. pend["runner"] = {} /\ pend'["runner"] = Listed /\ \A r \in retired : r.name \in Listed
  BY <1>0 DEF TeardownScan, AccountTypes, Listed, Revokers
<1>1. TokenTypes' /\ MetaTypes' /\ RetiredTypes'
  BY <1>0, <1>u DEF TokenTypes, MetaTypes, RetiredTypes
<1>2. FlowTypes'
  BY <1>0, <1>u DEF TeardownScan, FlowTypes
<1>3. AccountTypes'
  BY <1>0, <1>u, ReadFacts DEF TeardownScan, AccountTypes
<1>4. CalmInv'
  BY <1>0, <1>u DEF TeardownScan, CalmInv
<1>5. MemoryInv'
  BY <1>0, <1>u DEF TeardownScan, MemoryInv
<1>6. FilesInv'
  BY <1>0, <1>u DEF TeardownScan, FilesInv, Early
<1>7. RetireInv'
  BY <1>0, <1>u DEF TeardownScan, RetireInv, Whole, Early, Stored
<1>8. RunnerInv'
  BY <1>0, <1>u, <1>p DEF TeardownScan, RunnerInv, Whole, Early, Stored, Lives, Reachable, First, Second
<1>9. StopInv'
  BY <1>0, <1>u DEF TeardownScan, StopInv, Stored, Lives, First, Second
<1> QED BY <1>1, <1>2, <1>3, <1>4, <1>5, <1>6, <1>7, <1>8, <1>9 DEF IInv

\* Everything was asked for before the wipe.
LEMMA TeardownWipeStep ==
    ASSUME IInv, TeardownWipe
    PROVE  IInv'
<1>0. /\ FlowTypes /\ TokenTypes /\ MetaTypes /\ RetiredTypes /\ AccountTypes
      /\ CalmInv /\ MemoryInv /\ FilesInv /\ RetireInv /\ RunnerInv /\ StopInv
  BY DEF IInv
<1>u. UNCHANGED <<now, at, agent, cancelled, new, old, leaseExp, stop, due, pend, asked, served,
   wiped, orphaned, torn>>
  BY DEF TeardownWipe, stage, batch
<1>a. ASSUME Whole, NEW t \in served, Lives(t) PROVE t \in asked
  BY <1>0, <1>a DEF TeardownWipe, RunnerInv, CalmInv, Second
<1>b. pc' = "ended" /\ (retired' = {} \/ retired' = retired)
  BY DEF TeardownWipe, Wiped, stage
<1>1. AccountTypes'
  BY <1>0, <1>u DEF AccountTypes
<1>2. FlowTypes'
  BY <1>0, <1>u DEF TeardownWipe, Wiped, stage, FlowTypes
<1>3. TokenTypes'
  BY <1>0, <1>u, BatchFacts DEF TeardownWipe, Wiped, stage, TokenTypes
<1>4. MetaTypes'
  BY <1>0, <1>u DEF TeardownWipe, Wiped, stage, MetaTypes
<1>5. RetiredTypes'
  <2>1. retired' = {} \/ retired' = retired
    BY DEF TeardownWipe, Wiped, stage
  <2> QED BY <1>0, <2>1 DEF RetiredTypes
<1>6. CalmInv'
  BY <1>0, <1>u DEF TeardownWipe, Wiped, stage, CalmInv
<1>7. MemoryInv'
  BY <1>0, <1>u DEF TeardownWipe, Wiped, stage, MemoryInv
<1>8. FilesInv'
  BY <1>0, <1>u DEF TeardownWipe, Wiped, stage, FilesInv, Early
<1>9. RetireInv'
  BY <1>0, <1>u, <1>b DEF RetireInv, Whole, Early
<1>10. RunnerInv'
  BY <1>a, <1>b, <1>u DEF RunnerInv, Whole, Early, Lives
<1>11. StopInv'
  BY <1>0, <1>a, <1>u DEF StopInv, CalmInv, Whole, Early, Lives, First, Second
<1> QED BY <1>1, <1>2, <1>3, <1>4, <1>5, <1>6, <1>7, <1>8, <1>9, <1>10, <1>11 DEF IInv

\* A crash leaves the files.
LEMMA CrashStep ==
    ASSUME IInv, Crash
    PROVE  IInv'
<1>0. /\ FlowTypes /\ TokenTypes /\ MetaTypes /\ RetiredTypes /\ AccountTypes
      /\ CalmInv /\ MemoryInv /\ FilesInv /\ RetireInv /\ RunnerInv /\ StopInv
  BY DEF IInv
<1>u. UNCHANGED <<now, at, cancelled, new, old, file, temp, meta, metaTemp, retired, dir, rdir,
   leaseExp, stop, due, asked, served, wiped, orphaned, torn>>
  BY DEF Crash, stage, batch
<1>1. TokenTypes' /\ MetaTypes' /\ RetiredTypes'
  BY <1>0, <1>u DEF TokenTypes, MetaTypes, RetiredTypes
<1>2. FlowTypes'
  BY <1>0, <1>u DEF Crash, FlowTypes
<1>3. AccountTypes'
  BY <1>0, <1>u DEF Crash, AccountTypes
<1>4. CalmInv'
  <2>1. pend'["runner"] = {} /\ pend'["stop"] = pend["stop"]
    BY <1>0 DEF Crash, AccountTypes, Revokers
  <2> QED BY <1>0, <1>u, <2>1 DEF Crash, CalmInv, FlowTypes
<1>5. MemoryInv'
  BY <1>0, <1>u DEF Crash, MemoryInv
<1>6. FilesInv'
  BY <1>0, <1>u DEF Crash, FilesInv, Early
<1>7. RetireInv'
  BY <1>0, <1>u DEF Crash, RetireInv, Whole, Early, Stored
<1>8. RunnerInv'
  BY <1>0, <1>u DEF Crash, RunnerInv, Whole, Early, Stored, Lives, Reachable, First, Second
<1>9. StopInv'
  <2>1. pend'["stop"] = pend["stop"]
    BY <1>0 DEF Crash, AccountTypes, Revokers
  <2> QED BY <1>0, <1>u, <2>1 DEF StopInv, Stored, Lives, First, Second
<1> QED BY <1>1, <1>2, <1>3, <1>4, <1>5, <1>6, <1>7, <1>8, <1>9 DEF IInv

\* A file that was read is asked for.
LEMMA RevokeOneStep ==
    ASSUME IInv, NEW p \in Revokers, RevokeOne(p)
    PROVE  IInv'
<1>0. /\ FlowTypes /\ TokenTypes /\ MetaTypes /\ RetiredTypes /\ AccountTypes
      /\ CalmInv /\ MemoryInv /\ FilesInv /\ RetireInv /\ RunnerInv /\ StopInv
  BY DEF IInv
<1>u. UNCHANGED <<now, pc, at, agent, cancelled, new, old, file, temp, meta, metaTemp, retired, dir,
   rdir, leaseExp, stop, due, served, wiped, orphaned, torn>>
  BY DEF RevokeOne, stage, batch
<1>f. PICK f \in pend[p] : asked' = asked \cup Content(f) /\ pend' = [pend EXCEPT ![p] = @ \ {f}]
  BY DEF RevokeOne
<1>g. /\ f \in {<<k>> : k \in Slots} \cup Names
      /\ \A q \in Revokers : pend'[q] = IF q = p THEN pend[q] \ {f} ELSE pend[q]
  BY <1>0, <1>f DEF AccountTypes
<1>r. "runner" \in Revokers /\ "stop" \in Revokers
  BY DEF Revokers
<1>h. ASSUME NEW q \in Revokers, NEW t \in Tokens, First(q, t) PROVE First(q, t)'
  <2>1. CASE t \in asked \/ Stored(t)
    BY <1>f, <1>u, <2>1 DEF First, Stored
  <2>2. ASSUME NEW k \in Slots, <<k>> \in pend[q], file[k] = t PROVE First(q, t)'
    <3>1. CASE f = <<k>>
      <4>1. t \in asked'
        BY <1>0, <1>f, <1>h, <2>2, <3>1, ReadFacts
      <4> QED BY <4>1 DEF First
    <3>2. CASE f # <<k>>
      <4>1. <<k>> \in pend'[q] /\ file'[k] = t
        BY <1>g, <1>u, <1>h, <2>2, <3>2
      <4> QED BY <4>1 DEF First
    <3> QED BY <3>1, <3>2
  <2> QED BY <1>h, <2>1, <2>2 DEF First
<1>i. ASSUME NEW q \in Revokers, NEW t \in Tokens, Second(q, t) PROVE Second(q, t)'
  BY <1>0, <1>f, <1>g, <1>i, <1>u, ReadFacts DEF Second
<1>1. FlowTypes' /\ TokenTypes' /\ MetaTypes' /\ RetiredTypes' /\ MemoryInv'
  BY <1>0, <1>u DEF FlowTypes, TokenTypes, MetaTypes, RetiredTypes, MemoryInv
<1>2. FilesInv' /\ RetireInv'
  BY <1>0, <1>u DEF FilesInv, Early, RetireInv, Whole, Stored
<1>3. AccountTypes'
  BY <1>0, <1>f, <1>g, <1>u, ReadFacts DEF AccountTypes
<1>4. CalmInv'
  <2>1. agent = "over" \/ stop # "none"
    BY <1>0, <1>f DEF CalmInv, Revokers
  <2> QED BY <1>0, <1>g, <1>r, <1>u, <2>1 DEF CalmInv
<1>5. RunnerInv'
  <2>1. served \subseteq Tokens /\ asked \subseteq asked'
    BY <1>0, <1>f DEF AccountTypes
  <2> QED BY <1>0, <1>h, <1>i, <1>r, <1>u, <2>1 DEF RunnerInv, Whole, Early, Lives, Reachable
<1>6. StopInv'
  <2>1. due \subseteq Tokens /\ asked \subseteq asked'
    BY <1>0, <1>f DEF AccountTypes
  <2> QED BY <1>0, <1>h, <1>i, <1>r, <1>u, <2>1 DEF StopInv, Early, Lives
<1> QED BY <1>1, <1>2, <1>3, <1>4, <1>5, <1>6 DEF IInv

\* A reconciliation wipes after the runner, and before any stop.
LEMMA ReconcileStep ==
    ASSUME IInv, Reconcile
    PROVE  IInv'
<1>0. /\ FlowTypes /\ TokenTypes /\ MetaTypes /\ RetiredTypes /\ AccountTypes
      /\ CalmInv /\ MemoryInv /\ FilesInv /\ RetireInv /\ RunnerInv /\ StopInv
  BY DEF IInv
<1>u. UNCHANGED <<now, pc, at, agent, cancelled, new, old, leaseExp, stop, due, pend, asked, served,
   wiped, torn>>
  BY DEF Reconcile, batch
<1>1. AccountTypes' /\ MemoryInv'
  BY <1>0, <1>u DEF AccountTypes, MemoryInv
<1>2. FlowTypes'
  BY <1>0, <1>u DEF Reconcile, Wiped, FlowTypes
<1>3. TokenTypes'
  BY <1>0, <1>u, BatchFacts DEF Reconcile, Wiped, stage, TokenTypes
<1>4. MetaTypes'
  BY <1>0, <1>u DEF Reconcile, Wiped, MetaTypes
<1>5. RetiredTypes'
  BY <1>0, <1>u DEF Reconcile, Wiped, RetiredTypes
<1>6. CalmInv'
  BY <1>0, <1>u DEF Reconcile, CalmInv
<1>7. FilesInv'
  BY <1>0, <1>u DEF Reconcile, FilesInv, Early
<1>8. RetireInv'
  BY <1>0, <1>u DEF Reconcile, Wiped, RetireInv, Whole, Early, Stored
<1>9. RunnerInv'
  <2>1. pc \in {"ended", "crashed"} /\ (pc = "crashed" => orphaned')
    BY DEF Reconcile
  <2> QED BY <1>0, <1>u, <2>1 DEF RunnerInv, Whole, Early, Lives
<1>10. StopInv'
  BY <1>0, <1>u DEF Reconcile, StopInv, CalmInv
<1> QED BY <1>1, <1>2, <1>3, <1>4, <1>5, <1>6, <1>7, <1>8, <1>9, <1>10 DEF IInv

\* A stop begins with what the metadata names.
LEMMA StopBeginStep ==
    ASSUME IInv, StopBegin
    PROVE  IInv'
<1>0. /\ FlowTypes /\ TokenTypes /\ MetaTypes /\ RetiredTypes /\ AccountTypes
      /\ CalmInv /\ MemoryInv /\ FilesInv /\ RetireInv /\ RunnerInv /\ StopInv
  BY DEF IInv
<1>u. UNCHANGED <<now, pc, at, agent, cancelled, new, old, file, temp, meta, metaTemp, retired, dir,
   rdir, leaseExp, asked, served, wiped, orphaned, torn>>
  BY DEF StopBegin, stage, batch
<1>p. pend'["stop"] = Manifested /\ \A k \in Slots : meta # NoMeta => <<k>> \in Manifested
  BY <1>0 DEF StopBegin, AccountTypes, Manifested, Revokers
<1>1. TokenTypes' /\ MetaTypes' /\ RetiredTypes' /\ MemoryInv'
  BY <1>0, <1>u DEF TokenTypes, MetaTypes, RetiredTypes, MemoryInv
<1>2. FlowTypes'
  BY <1>0, <1>u DEF StopBegin, FlowTypes
<1>3. AccountTypes'
  BY <1>0, <1>u, ReadFacts DEF StopBegin, AccountTypes
<1>4. CalmInv'
  BY <1>0, <1>u DEF StopBegin, CalmInv
<1>5. FilesInv'
  BY <1>0, <1>u DEF StopBegin, FilesInv, Early
<1>6. RetireInv'
  BY <1>0, <1>u DEF StopBegin, RetireInv, Whole, Early, Stored
<1>7. RunnerInv'
  BY <1>0, <1>u DEF StopBegin, RunnerInv, Whole, Early, Stored, Lives, Reachable, First, Second
<1>8. StopInv'
  BY <1>0, <1>u, <1>p DEF StopBegin, StopInv, Stored, Lives, First, Second, RunnerInv, Whole, Early,
     Reachable
<1> QED BY <1>1, <1>2, <1>3, <1>4, <1>5, <1>6, <1>7, <1>8 DEF IInv

\* What a renewal replaced meanwhile is in the retirement directory.
LEMMA StopScanStep ==
    ASSUME IInv, StopScan
    PROVE  IInv'
<1>0. /\ FlowTypes /\ TokenTypes /\ MetaTypes /\ RetiredTypes /\ AccountTypes
      /\ CalmInv /\ MemoryInv /\ FilesInv /\ RetireInv /\ RunnerInv /\ StopInv
  BY DEF IInv
<1>u. UNCHANGED <<now, pc, at, agent, cancelled, new, old, file, temp, meta, metaTemp, retired, dir,
   rdir, leaseExp, due, asked, served, wiped, orphaned, torn>>
  BY DEF StopScan, stage, batch
<1>p. pend["stop"] = {} /\ pend'["stop"] = Listed /\ \A r \in retired : r.name \in Listed
  BY <1>0 DEF StopScan, AccountTypes, Listed, Revokers
<1>1. TokenTypes' /\ MetaTypes' /\ RetiredTypes' /\ MemoryInv'
  BY <1>0, <1>u DEF TokenTypes, MetaTypes, RetiredTypes, MemoryInv
<1>2. FlowTypes'
  BY <1>0, <1>u DEF StopScan, FlowTypes
<1>3. AccountTypes'
  BY <1>0, <1>u, ReadFacts DEF StopScan, AccountTypes
<1>4. CalmInv'
  BY <1>0, <1>u DEF StopScan, CalmInv
<1>5. FilesInv'
  BY <1>0, <1>u DEF StopScan, FilesInv, Early
<1>6. RetireInv'
  BY <1>0, <1>u DEF StopScan, RetireInv, Whole, Early, Stored
<1>7. RunnerInv'
  BY <1>0, <1>u DEF StopScan, RunnerInv, Whole, Early, Stored, Lives, Reachable, First, Second
<1>8. StopInv'
  BY <1>0, <1>u, <1>p DEF StopScan, StopInv, Stored, Lives, First, Second
<1> QED BY <1>1, <1>2, <1>3, <1>4, <1>5, <1>6, <1>7, <1>8 DEF IInv

\* All that was due is asked for.
LEMMA StopSignalStep ==
    ASSUME IInv, StopSignal
    PROVE  IInv'
<1>0. /\ FlowTypes /\ TokenTypes /\ MetaTypes /\ RetiredTypes /\ AccountTypes
      /\ CalmInv /\ MemoryInv /\ FilesInv /\ RetireInv /\ RunnerInv /\ StopInv
  BY DEF IInv
<1>u. UNCHANGED <<now, pc, at, agent, new, old, file, temp, meta, metaTemp, retired, dir, rdir,
   leaseExp, due, pend, asked, served, wiped, orphaned, torn>>
  BY DEF StopSignal, stage, batch
<1>1. TokenTypes' /\ MetaTypes' /\ RetiredTypes' /\ AccountTypes' /\ MemoryInv'
  BY <1>0, <1>u DEF TokenTypes, MetaTypes, RetiredTypes, AccountTypes, MemoryInv
<1>2. FlowTypes'
  BY <1>0, <1>u DEF StopSignal, FlowTypes
<1>3. CalmInv'
  BY <1>0, <1>u DEF StopSignal, CalmInv
<1>4. FilesInv'
  BY <1>0, <1>u DEF StopSignal, FilesInv, Early
<1>5. RetireInv'
  BY <1>0, <1>u DEF StopSignal, RetireInv, Whole, Early, Stored
<1>6. RunnerInv'
  BY <1>0, <1>u DEF StopSignal, RunnerInv, Whole, Early, Stored, Lives, Reachable, First, Second
<1>7. StopInv'
  BY <1>0, <1>u DEF StopSignal, StopInv, Stored, Lives, First, Second
<1> QED BY <1>1, <1>2, <1>3, <1>4, <1>5, <1>6, <1>7 DEF IInv

\* The wipe changes nothing of what is asked for.
LEMMA StopWipeStep ==
    ASSUME IInv, StopWipe
    PROVE  IInv'
<1>0. /\ FlowTypes /\ TokenTypes /\ MetaTypes /\ RetiredTypes /\ AccountTypes
      /\ CalmInv /\ MemoryInv /\ FilesInv /\ RetireInv /\ RunnerInv /\ StopInv
  BY DEF IInv
<1>u. UNCHANGED <<now, pc, at, agent, cancelled, new, old, leaseExp, due, pend, asked, served, orphaned, torn>>
  BY DEF StopWipe, stage, batch
<1>1. AccountTypes' /\ MemoryInv'
  BY <1>0, <1>u DEF AccountTypes, MemoryInv
<1>2. FlowTypes'
  BY <1>0, <1>u DEF StopWipe, Wiped, FlowTypes
<1>3. TokenTypes'
  BY <1>0, <1>u, BatchFacts DEF StopWipe, Wiped, stage, TokenTypes
<1>4. MetaTypes'
  BY <1>0, <1>u DEF StopWipe, Wiped, MetaTypes
<1>5. RetiredTypes'
  BY <1>0, <1>u DEF StopWipe, Wiped, RetiredTypes
<1>6. CalmInv'
  BY <1>0, <1>u DEF StopWipe, Wiped, CalmInv
<1>7. FilesInv'
  BY <1>0, <1>u DEF StopWipe, Wiped, FilesInv, Early
<1>8. RetireInv'
  BY <1>0, <1>u DEF StopWipe, Wiped, RetireInv, Whole, Early, Stored
<1>9. RunnerInv'
  BY <1>0, <1>u DEF StopWipe, Wiped, RunnerInv, Whole, Early, Stored, Lives, Reachable, First, Second
<1>10. StopInv'
  BY <1>0, <1>u DEF StopWipe, Wiped, StopInv, Stored, Lives, First, Second
<1> QED BY <1>1, <1>2, <1>3, <1>4, <1>5, <1>6, <1>7, <1>8, <1>9, <1>10 DEF IInv

\* The group is gone.
LEMMA StopWaitedStep ==
    ASSUME IInv, StopWaited
    PROVE  IInv'
<1>0. /\ FlowTypes /\ TokenTypes /\ MetaTypes /\ RetiredTypes /\ AccountTypes
      /\ CalmInv /\ MemoryInv /\ FilesInv /\ RetireInv /\ RunnerInv /\ StopInv
  BY DEF IInv
<1>u. UNCHANGED <<now, pc, at, agent, cancelled, new, old, file, temp, meta, metaTemp, retired, dir,
   rdir, leaseExp, due, pend, asked, served, wiped, orphaned, torn>>
  BY DEF StopWaited, stage, batch
<1>1. TokenTypes' /\ MetaTypes' /\ RetiredTypes' /\ AccountTypes' /\ MemoryInv'
  BY <1>0, <1>u DEF TokenTypes, MetaTypes, RetiredTypes, AccountTypes, MemoryInv
<1>2. FlowTypes'
  BY <1>0, <1>u DEF StopWaited, FlowTypes
<1>3. CalmInv'
  BY <1>0, <1>u DEF StopWaited, CalmInv
<1>4. FilesInv'
  BY <1>0, <1>u DEF StopWaited, FilesInv, Early
<1>5. RetireInv'
  BY <1>0, <1>u DEF StopWaited, RetireInv, Whole, Early, Stored
<1>6. RunnerInv'
  BY <1>0, <1>u DEF StopWaited, RunnerInv, Whole, Early, Stored, Lives, Reachable, First, Second
<1>7. StopInv'
  BY <1>0, <1>u DEF StopWaited, StopInv, Stored, Lives, First, Second
<1> QED BY <1>1, <1>2, <1>3, <1>4, <1>5, <1>6, <1>7 DEF IInv

\* The second wipe.
LEMMA StopRewipeStep ==
    ASSUME IInv, StopRewipe
    PROVE  IInv'
<1>0. /\ FlowTypes /\ TokenTypes /\ MetaTypes /\ RetiredTypes /\ AccountTypes
      /\ CalmInv /\ MemoryInv /\ FilesInv /\ RetireInv /\ RunnerInv /\ StopInv
  BY DEF IInv
<1>u. UNCHANGED <<now, pc, at, agent, cancelled, new, old, leaseExp, due, pend, asked, served, wiped, orphaned,
   torn>>
  BY DEF StopRewipe, stage, batch
<1>1. AccountTypes' /\ MemoryInv'
  BY <1>0, <1>u DEF AccountTypes, MemoryInv
<1>2. FlowTypes'
  BY <1>0, <1>u DEF StopRewipe, Wiped, FlowTypes
<1>3. TokenTypes'
  BY <1>0, <1>u, BatchFacts DEF StopRewipe, Wiped, stage, TokenTypes
<1>4. MetaTypes'
  BY <1>0, <1>u DEF StopRewipe, Wiped, MetaTypes
<1>5. RetiredTypes'
  BY <1>0, <1>u DEF StopRewipe, Wiped, RetiredTypes
<1>6. CalmInv'
  BY <1>0, <1>u DEF StopRewipe, Wiped, CalmInv
<1>7. FilesInv'
  BY <1>0, <1>u DEF StopRewipe, Wiped, FilesInv, Early
<1>8. RetireInv'
  BY <1>0, <1>u DEF StopRewipe, Wiped, RetireInv, Whole, Early, Stored
<1>9. RunnerInv'
  BY <1>0, <1>u DEF StopRewipe, Wiped, RunnerInv, Whole, Early, Stored, Lives, Reachable, First, Second
<1>10. StopInv'
  BY <1>0, <1>u DEF StopRewipe, Wiped, StopInv, Stored, Lives, First, Second
<1> QED BY <1>1, <1>2, <1>3, <1>4, <1>5, <1>6, <1>7, <1>8, <1>9, <1>10 DEF IInv

\* Time takes tokens away, and gives none.
LEMMA TickStep ==
    ASSUME IInv, Tick
    PROVE  IInv'
<1>0. /\ FlowTypes /\ TokenTypes /\ MetaTypes /\ RetiredTypes /\ AccountTypes
      /\ CalmInv /\ MemoryInv /\ FilesInv /\ RetireInv /\ RunnerInv /\ StopInv
  BY DEF IInv
<1>u. UNCHANGED <<pc, at, agent, cancelled, new, old, file, temp, meta, metaTemp, retired, dir, rdir,
   leaseExp, stop, due, pend, asked, served, wiped, orphaned, torn>>
  BY DEF Tick, stage, batch
<1>l. \A t \in Tokens : Lives(t)' => Lives(t)
  BY <1>0, TokenFacts, StagingAssumption DEF Tick, Lives, FlowTypes
<1>1. TokenTypes' /\ MetaTypes' /\ RetiredTypes' /\ AccountTypes' /\ CalmInv'
  BY <1>0, <1>u DEF TokenTypes, MetaTypes, RetiredTypes, AccountTypes, CalmInv
<1>2. MemoryInv' /\ FilesInv' /\ RetireInv'
  BY <1>0, <1>u DEF MemoryInv, FilesInv, Early, RetireInv, Whole, Stored
<1>3. FlowTypes'
  BY <1>0, <1>u, SlotFacts, StagingAssumption DEF FlowTypes, Tick
<1>4. RunnerInv'
  BY <1>0, <1>l, <1>u DEF AccountTypes, RunnerInv, Whole, Early, Stored, Reachable, First, Second
<1>5. StopInv'
  BY <1>0, <1>l, <1>u DEF AccountTypes, StopInv, Early, Stored, First, Second
<1> QED BY <1>1, <1>2, <1>3, <1>4, <1>5 DEF IInv

-----------------------------------------------------------------------------
(* The theorems *)

\* IInv is inductive.
LEMMA NextIInv == IInv /\ [Next]_vars => IInv'
<1> SUFFICES ASSUME IInv, [Next]_vars PROVE IInv'
  OBVIOUS
<1>1. CASE Batch
  BY <1>1, StartStep, RenewStep, MintStep, PrepareStep, WriteTempsStep, RetainStep, CommitStep,
     StagedStep, Zenon DEF Batch
<1>2. CASE UNCHANGED vars
  <2> USE <1>2 DEF vars, batch, stage
  <2>1. (FlowTypes /\ TokenTypes /\ MetaTypes /\ RetiredTypes /\ AccountTypes)'
    BY DEF IInv, FlowTypes, TokenTypes, MetaTypes, RetiredTypes, AccountTypes
  <2>2. (CalmInv /\ MemoryInv /\ FilesInv /\ RetireInv)'
    BY DEF IInv, CalmInv, MemoryInv, FilesInv, RetireInv, Early, Whole, Stored
  <2>3. (RunnerInv /\ StopInv)'
    BY DEF IInv, RunnerInv, StopInv, Early, Whole, Stored, Lives, Reachable, First, Second
  <2> QED BY <2>1, <2>2, <2>3 DEF IInv
<1> QED BY <1>1, <1>2, AgentExitsStep, CancelLeaseStep, TeardownStep, TeardownScanStep,
   TeardownWipeStep, CrashStep, RevokeOneStep, ReconcileStep, StopBeginStep, StopScanStep, StopSignalStep,
   StopWipeStep, StopWaitedStep, StopRewipeStep, TickStep, Zenon DEF Next

\* It holds initially.
LEMMA InitIInv == Init => IInv
<1> SUFFICES ASSUME Init PROVE IInv
  OBVIOUS
<1>1. FlowTypes
  <2>1. now \in 0..MaxTime /\ at \in 1..(NSlots + 1) /\ leaseExp \in Nat
    BY SlotFacts, StagingAssumption DEF Init
  <2>2. {dir, rdir, wiped, orphaned, torn} \subseteq BOOLEAN
    BY DEF Init
  <2> QED BY <2>1, <2>2 DEF Init, FlowTypes
<1>2. TokenTypes
  BY BatchFacts DEF Init, TokenTypes
<1>3. MetaTypes /\ RetiredTypes /\ AccountTypes
  BY DEF Init, MetaTypes, RetiredTypes, AccountTypes
<1>4. CalmInv /\ MemoryInv
  BY DEF Init, CalmInv, MemoryInv, Revokers
<1>5. FilesInv /\ RetireInv /\ RunnerInv /\ StopInv
  BY DEF Init, FilesInv, RetireInv, RunnerInv, StopInv, Early
<1> QED BY <1>1, <1>2, <1>3, <1>4, <1>5 DEF IInv

\* IInv holds in every reachable state.
LEMMA Invariance == Spec => []IInv
<1> QED BY InitIInv, NextIInv, PTL DEF Spec

\* Every variable stays in its domain: no slot holds another slot's token, and
\* a retirement name is one file.
THEOREM TypeCorrect == Spec => []TypeOK
<1>1. IInv => TypeOK
  BY TypeParts, Zenon DEF IInv
<1> QED BY <1>1, Invariance, PTL

\* While the agent is up and nobody stops the session, every canonical file
\* holds a token nobody asked to revoke, for any number of partitions and
\* renewals, failed ones included.
THEOREM AgentServed == Spec => []AgentKeepsTokens
<1>1. IInv => AgentKeepsTokens
  <2> SUFFICES ASSUME IInv, agent = "up", stop = "none"
               PROVE  \A k \in Slots : file[k] # NoTok /\ file[k] \notin asked
    BY DEF AgentKeepsTokens
  <2>1. asked = {} /\ pc # "ended" /\ ~orphaned
    BY DEF IInv, CalmInv
  <2> QED BY <2>1 DEF IInv, FilesInv, Early
<1> QED BY <1>1, Invariance, PTL

\* Where a retirement name is one slot's, a run that ends without a stop has
\* asked to revoke every unexpired token its agent could read, however its
\* renewals and its teardown interleaved (the order of runProfileCtx's deferred
\* calls, and retainGithubTokens before commitGithubBatch).
THEOREM TeardownAccounts == ASSUME Distinct PROVE Spec => []TeardownRevokes
<1>1. IInv => TeardownRevokes
  BY DEF IInv, RunnerInv, Whole, Early, TeardownRevokes
<1> QED BY <1>1, Invariance, PTL

\* Under the same condition a stop of a run that did not crash before it has asked
\* to revoke every unexpired token an agent could read when it began, whatever a
\* renewal or a teardown moved or removed meanwhile, and whether the run goes on,
\* crashes or has ended (RevokeGithub reads the canonical files before it lists
\* the retirement directory).
THEOREM StopAccounts == ASSUME Distinct PROVE Spec => []StopRevokesHeld
<1>1. IInv => StopRevokesHeld
  BY DEF IInv, StopInv, StopRevokesHeld
<1> QED BY <1>1, Invariance, PTL

\* Under the same condition every unexpired token an agent could read is in a
\* file that a teardown reads, until the runner ends or a stop wipes: "Previous
\* tokens are copied to a stage-private retirement directory"
\* (stageGithubAppWithAPI).
THEOREM RetentionAccounts == ASSUME Distinct PROVE Spec => []WholeBatchesRetained
<1>1. IInv => WholeBatchesRetained
  BY DEF IInv, CalmInv, RunnerInv, Whole, Early, WholeBatchesRetained, PriorTokensRetained
<1> QED BY <1>1, Invariance, PTL
-----------------------------------------------------------------------------
(* The metadata and the files *)

\* Why the metadata cannot overstate: a slot's tokens only get later, a batch
\* that is being committed is the one in memory, and its metadata is renamed
\* when all its tokens are in place or gone with the stage.
FitInv ==
    /\ \A k \in Slots : new[k].exp <= now + Life
    /\ meta # NoMeta => \A k \in Slots :
          /\ meta.exp[k] <= new[k].exp
          /\ temp[k] # NoTok => meta.exp[k] <= temp[k].exp
    /\ MetaNeverOverstates
    /\ pc \in {"retain", "commit"} => \A k \in Slots :
          /\ metaTemp # NoMeta => metaTemp.exp[k] = new[k].exp
          /\ temp[k] \in {NoTok, new[k]}
          /\ pc = "commit" /\ k < at => temp[k] = NoTok /\ file[k] \in {NoTok, new[k]}

\* The numbers the comparisons are about.
LEMMA FitTypes ==
    ASSUME IInv
    PROVE  /\ now \in Nat /\ Life \in Nat /\ at \in Nat
           /\ \A k \in Slots : /\ new[k].exp \in Nat /\ temp[k].exp \in Nat /\ file[k].exp \in Nat
                               /\ meta # NoMeta => meta.exp[k] \in Nat
                               /\ metaTemp # NoMeta => metaTemp.exp[k] \in Nat
<1>1. FlowTypes /\ TokenTypes /\ MetaTypes
  BY DEF IInv
<1>2. now \in Nat /\ Life \in Nat /\ at \in Nat
  BY <1>1, StagingAssumption, SlotFacts DEF FlowTypes
<1>3. \A t \in Tokens \cup {NoTok} : t.exp \in Nat
  BY StagingAssumption DEF Tokens, NoTok
<1>4. \A m \in Metas, k \in Slots : m.exp[k] \in Nat
  BY StagingAssumption DEF Metas
<1> QED BY <1>1, <1>2, <1>3, <1>4 DEF TokenTypes, IsBatch, MetaTypes

\* A step that touches neither the batch nor the stage.
LEMMA FitFrame ==
    ASSUME IInv, FitInv, UNCHANGED <<new, temp, file, meta, metaTemp>>, now' \in Nat, now <= now',
           (pc' = pc /\ at' = at) \/ pc' \notin {"retain", "commit"}
    PROVE  FitInv'
<1>1. \A k \in Slots : new[k].exp <= now' + Life
  BY FitTypes DEF FitInv
<1> QED BY <1>1 DEF FitInv, MetaNeverOverstates

\* A wipe leaves nothing to overstate.
LEMMA FitWiped ==
    ASSUME IInv, FitInv, Wiped, UNCHANGED <<new, now>>,
           (pc' = pc /\ at' = at) \/ pc' \notin {"retain", "commit"}
    PROVE  FitInv'
<1>1. \A k \in Slots : temp'[k] = NoTok /\ file'[k] = NoTok
  BY DEF Wiped, Empty
<1>2. meta' = NoMeta /\ metaTemp' = NoMeta
  BY DEF Wiped
<1> QED BY <1>1, <1>2 DEF FitInv, MetaNeverOverstates

\* A token that is minted expires no earlier than any before it.
LEMMA FitMint == ASSUME IInv, FitInv, Mint PROVE FitInv'
<1>u. UNCHANGED <<now, temp, file, meta, metaTemp>> /\ pc' \notin {"retain", "commit"}
  BY DEF Mint, stage, Fail
<1>1. CASE UNCHANGED <<new, at>>
  BY <1>u, <1>1, FitFrame, FitTypes
<1>2. CASE new' = [new EXCEPT ![at] = [slot |-> at, exp |-> now + Life]]
  <2>1. new \in [Slots -> Tokens \cup {NoTok}]
    BY DEF IInv, TokenTypes, IsBatch
  <2>2. \A k \in Slots : new'[k].exp = (IF k = at THEN now + Life ELSE new[k].exp)
    BY <1>2, <2>1
  <2>3. \A k \in Slots : new[k].exp <= new'[k].exp /\ new'[k].exp <= now + Life
    BY <2>2, FitTypes DEF FitInv
  <2>4. \A k \in Slots : new'[k].exp \in Nat
    BY <2>2, FitTypes
  <2>5. meta # NoMeta => \A k \in Slots : meta.exp[k] <= new'[k].exp
    BY <2>3, <2>4, FitTypes DEF FitInv
  <2> QED BY <1>u, <2>3, <2>5 DEF FitInv, MetaNeverOverstates
<1> QED BY <1>1, <1>2 DEF Mint

\* The siblings are the batch in memory.
LEMMA FitWriteTemps == ASSUME IInv, FitInv, WriteTemps PROVE FitInv'
<1>u. UNCHANGED <<now, new, file, meta>> /\ pc' # "mint"
  BY DEF WriteTemps, Fail
<1>1. CASE /\ temp' = Empty /\ metaTemp' = NoMeta /\ Fail
  <2>1. pc' \notin {"retain", "commit"} /\ \A k \in Slots : temp'[k] = NoTok
    BY <1>1 DEF Fail, Empty
  <2> QED BY <1>u, <2>1 DEF FitInv, MetaNeverOverstates
<1>2. CASE /\ temp' = new /\ at' = 1
           /\ metaTemp' = [exp |-> [k \in Slots |-> new[k].exp], retired |-> RetainedNames]
  <2>1. \A k \in Slots : temp'[k] = new'[k] /\ metaTemp'.exp[k] = new'[k].exp /\ ~(k < at')
    BY <1>u, <1>2, SlotFacts DEF Slots
  <2> QED BY <1>u, <2>1 DEF FitInv, MetaNeverOverstates
<1> QED BY <1>1, <1>2 DEF WriteTemps

\* Retaining copies; it changes neither the files nor the siblings.
LEMMA FitRetain == ASSUME IInv, FitInv, Retain PROVE FitInv'
<1>u. UNCHANGED <<now, new, file, meta>>
  BY DEF Retain, LeftInPlace
<1>1. CASE temp' = Empty /\ metaTemp' = NoMeta /\ Fail
  <2>1. pc' \notin {"retain", "commit"} /\ \A k \in Slots : temp'[k] = NoTok
    BY <1>1 DEF Fail, Empty
  <2> QED BY <1>u, <2>1 DEF FitInv, MetaNeverOverstates
<1>2. CASE /\ UNCHANGED <<temp, metaTemp>>
           /\ at' = IF at = NSlots THEN 1 ELSE at + 1
           /\ pc' = IF at = NSlots THEN "commit" ELSE "retain"
  <2>1. pc = "retain"
    BY DEF Retain
  <2>2. pc' = "commit" => \A k \in Slots : ~(k < at')
    BY <1>2, SlotFacts DEF Slots
  <2> QED BY <1>u, <1>2, <2>1, <2>2 DEF FitInv, MetaNeverOverstates
<1> QED BY <1>1, <1>2 DEF Retain

\* A rename puts a later token in place; the metadata follows when all are.
LEMMA FitCommit == ASSUME IInv, FitInv, Commit PROVE FitInv'
<1>u. UNCHANGED <<now, new>> /\ pc = "commit"
  BY DEF Commit
<1>n. NSlots \in Nat /\ at \in Nat /\ at >= 1
  BY SlotFacts DEF IInv, FlowTypes
<1>1. CASE /\ at <= NSlots /\ temp[at] # NoTok
           /\ file' = [file EXCEPT ![at] = temp[at]]
           /\ temp' = [temp EXCEPT ![at] = NoTok]
           /\ at' = at + 1 /\ UNCHANGED <<pc, meta, metaTemp>>
  <2>1. /\ file \in [Slots -> Tokens \cup {NoTok}] /\ temp \in [Slots -> Tokens \cup {NoTok}]
        /\ at \in Slots
    BY <1>1, <1>n DEF IInv, TokenTypes, IsBatch, Slots
  <2>2. \A k \in Slots : /\ file'[k] = (IF k = at THEN temp[k] ELSE file[k])
                         /\ temp'[k] = (IF k = at THEN NoTok ELSE temp[k])
    BY <1>1, <2>1
  <2>3. \A k \in Slots : k < at' => k < at \/ k = at
    BY <1>1, <1>n DEF Slots
  <2>4. MetaNeverOverstates'
    BY <1>1, <2>2 DEF FitInv, MetaNeverOverstates
  <2>5. \A k \in Slots : /\ temp'[k] \in {NoTok, new[k]}
                         /\ k < at' => temp'[k] = NoTok /\ file'[k] \in {NoTok, new[k]}
    BY <1>u, <2>2, <2>3 DEF FitInv
  <2>6. meta' # NoMeta => \A k \in Slots : temp'[k] # NoTok => meta'.exp[k] <= temp'[k].exp
    BY <1>1, <2>2 DEF FitInv
  <2> QED BY <1>u, <1>1, <2>4, <2>5, <2>6 DEF FitInv
<1>2. CASE /\ at = NSlots + 1 /\ metaTemp # NoMeta /\ meta' = metaTemp /\ metaTemp' = NoMeta
           /\ pc' = "expire" /\ UNCHANGED <<file, temp>>
  <2>1. \A k \in Slots : k < at
    BY <1>2, <1>n DEF Slots
  <2>2. \A k \in Slots : /\ temp[k] = NoTok /\ file[k] \in {NoTok, new[k]}
                         /\ metaTemp.exp[k] = new[k].exp /\ metaTemp.exp[k] \in Nat
    BY <1>u, <1>2, <2>1, FitTypes DEF FitInv
  <2>3. \A k \in Slots : metaTemp.exp[k] <= new[k].exp /\ (file[k] # NoTok => metaTemp.exp[k] <= file[k].exp)
    BY <2>2
  <2> QED BY <1>u, <1>2, <2>2, <2>3 DEF FitInv, MetaNeverOverstates
<1>3. CASE Fail /\ UNCHANGED <<file, temp, meta, metaTemp>>
  <2>1. pc' \notin {"retain", "commit"}
    BY <1>3 DEF Fail
  <2> QED BY <1>u, <1>3, <2>1, FitFrame, FitTypes
<1>4. at <= NSlots => ~MetaTurn
  BY <1>n DEF MetaTurn
<1>5. at = NSlots + 1 => MetaTurn
  BY DEF MetaTurn
<1> QED BY <1>1, <1>2, <1>3, <1>4, <1>5 DEF Commit

\* Every step keeps it.
LEMMA FitStep == IInv /\ FitInv /\ [Next]_vars => FitInv'
<1> SUFFICES ASSUME IInv, FitInv, [Next]_vars PROVE FitInv'
  OBVIOUS
<1>n. now \in Nat /\ now <= now
  BY FitTypes
<1>1. CASE UNCHANGED vars
  BY <1>1, <1>n, FitFrame DEF vars, batch, stage
<1>2. CASE Start \/ Renew \/ Prepare \/ Staged
  BY <1>2, <1>n, FitFrame DEF Start, Renew, Prepare, Staged, Fail, stage
<1>3. CASE AgentExits \/ CancelLease \/ Teardown \/ TeardownScan \/ Crash
  BY <1>3, <1>n, FitFrame DEF AgentExits, CancelLease, Teardown, TeardownScan, Crash, stage, batch
<1>4. CASE \E r \in Revokers : RevokeOne(r)
  BY <1>4, <1>n, FitFrame DEF RevokeOne, stage, batch
<1>5. CASE StopBegin \/ StopScan \/ StopSignal \/ StopWaited
  BY <1>5, <1>n, FitFrame DEF StopBegin, StopScan, StopSignal, StopWaited, stage, batch
<1>6. CASE Tick
  BY <1>6, <1>n, FitFrame DEF Tick, stage, batch
<1>7. CASE TeardownWipe
  BY <1>7, <1>n, FitFrame, FitWiped DEF TeardownWipe, stage, batch
<1>8. CASE Reconcile \/ StopWipe \/ StopRewipe
  BY <1>8, FitWiped DEF Reconcile, StopWipe, StopRewipe, batch
<1> QED BY <1>1, <1>2, <1>3, <1>4, <1>5, <1>6, <1>7, <1>8, FitMint, FitWriteTemps, FitRetain,
   FitCommit DEF Next, Batch

\* github-meta.json, from which the lease plans, never names a later expiry
\* than the token in place has, although a batch may be committed half way, a
\* stop may wipe under a renewal, and a retry may follow (commitGithubBatch
\* renames the metadata last).
THEOREM MetaIsHonest == Spec => []MetaNeverOverstates
<1>1. Init => FitInv
  BY StagingAssumption, SlotFacts DEF Init, FitInv, MetaNeverOverstates, Empty, NoTok
<1>2. FitInv => MetaNeverOverstates
  BY DEF FitInv
<1> QED BY <1>1, <1>2, FitStep, Invariance, PTL DEF Spec
=============================================================================
