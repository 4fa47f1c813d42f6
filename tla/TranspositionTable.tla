------------------------- MODULE TranspositionTable -------------------------
(***************************************************************************)
(* One cluster of the transposition table (search/tt.cpp), shared by the   *)
(* search threads without a lock.  An entry is two atomic words: a store   *)
(* writes the payload (relaxed), then the signature, key xor payload       *)
(* (release); a probe reads signature, payload, signature (acquire,        *)
(* relaxed, acquire) and believes the pair if it yields its own key.       *)
(*                                                                         *)
(* Each access is a step.  Memory is weakly ordered: a word is the history *)
(* of its writes, a load returns any write that is not older than what its *)
(* thread has seen of that word, and an acquire of a signature makes seen  *)
(* what its writer had seen of the payload.                                *)
(*                                                                         *)
(* A word is the set of its one bits, so xor is symmetric difference.  The *)
(* score is part of the payload like the move, and is left out.            *)
(***************************************************************************)
EXTENDS Integers, Sequences

CONSTANTS
  Worker,           \* threads that may search
  Keys,             \* Zobrist keys of positions that share the cluster, as words
  Moves,            \* non-null moves
  Depths,           \* depths of records
  Salt,             \* tt_signature_salt, a word
  Pack,             \* pack_payload, from records to words
  ClusterSize,      \* TTCluster::size
  GenerationCount,  \* values of the generation byte, 256 in the code
  MaxStores,        \* bound: calls of store between two clears
  MaxGenerations    \* bound: searches begun between two clears

NullMove == 0       \* NULL_MOVE
Bounds == {"exact", "lower", "upper"}
Record == [move : Moves \cup {NullMove}, depth : Depths,
           generation : 0 .. GenerationCount - 1, bound : Bounds]
NoRecord == [bound |-> "none"]
Slot == 1 .. ClusterSize
Zero == {}

\* Exclusive or of two words
Xor(a, b) == (a \ b) \cup (b \ a)

\* make_signature
MakeSignature(key, payload) == Xor(Xor(key, payload), Salt)

\* Seeded fault: only the bits that keys use are compared.
RecoverKeyBits(sig, payload) == Xor(Xor(sig, payload), Salt) \cap UNION Keys

\* recover_key
RecoverKey(sig, payload) == Xor(Xor(sig, payload), Salt)

Payloads == {Pack[r] : r \in Record}

\* unpack_payload of a payload that is valid
Unpack(payload) == CHOOSE r \in Record : Pack[r] = payload

ASSUME TableAssumption ==
  /\ Moves \subseteq Nat \ {0} /\ Depths \subseteq Nat
  /\ ClusterSize \in Nat \ {0} /\ GenerationCount \in Nat \ {0}
  /\ MaxStores \in Nat /\ MaxGenerations \in Nat

\* Packing loses nothing, and a payload of zero has no valid bound.
ASSUME PackAssumption ==
  /\ Pack \in [Record -> Payloads]
  /\ \A r, s \in Record : Pack[r] = Pack[s] => r = s
  /\ Zero \notin Payloads

\* Zobrist keys do not collide: no key is confused with another by exchanging
\* the payloads of two records, nor made by a payload alone.
ASSUME KeyAssumption ==
  /\ \A k, l \in Keys, p, q \in Payloads : Xor(k, p) = Xor(l, q) => k = l /\ p = q
  /\ \A k \in Keys, p \in Payloads : Xor(p, Salt) # k

VARIABLES
  payload,     \* history of each slot's payload, the last one is memory's
  signature,   \* history of each slot's signature, with the last payload its writer saw
  generation,  \* TranspositionTable::generation
  pc,          \* what each worker does
  call,        \* its call: probe or store, with the arguments
  slot,        \* the entry its loop is at
  sig, word,   \* signature_before and payload of load_snapshot
  target,      \* store: the entry chosen so far
  score,       \* its replacement score, -Infinity when it has no record
  kept,        \* the record of the same key, NoRecord when there is none
  answer,      \* what its last probe returned
  seenPayload, seenSignature, \* how much of each history it has seen
  published,   \* every key and record a store has written
  stores, searches,           \* for the bounds
  crew         \* the workers that search, as many as the Threads option says

table == <<payload, signature, generation>>
choice == <<target, score, kept>>
locals == <<slot, sig, word, choice>>
seen == <<seenPayload, seenSignature>>
bounds == <<stores, searches>>
vars == <<table, pc, call, locals, answer, seen, published, bounds, crew>>

Pcs == {"idle", "before", "payload", "after", "writepayload", "writesignature"}
ProbeCall == [op : {"probe"}, key : Keys]
StoreCall == [op : {"store"}, key : Keys, move : Moves \cup {NullMove}, depth : Depths,
              bound : Bounds]
NoCall == [op |-> "none"]
Infinity == 1000000  \* beyond any replacement score

\* TTRecord::replacement_score
ReplacementScore(r) ==
  r.depth - 4 * ((generation - r.generation) % GenerationCount)

\* Seeded fault: the old move is dropped.
NewRecordOnly(w) ==
  [move |-> call[w].move, depth |-> call[w].depth, generation |-> generation,
   bound |-> call[w].bound]

\* The record store writes: without a move it keeps the one stored for its key.
NewRecord(w) ==
  [NewRecordOnly(w) EXCEPT !.move =
    IF @ = NullMove /\ kept[w] # NoRecord THEN kept[w].move ELSE @]

\* load_snapshot, once both signatures are read: the key and the record, or none
HasSnapshot(w, sig2) == sig[w] = sig2 /\ word[w] \in Payloads

\* The snapshot is one of the key asked for.
IsHit(w, sig2) == HasSnapshot(w, sig2) /\ RecoverKey(sig2, word[w]) = call[w].key

\* A store gives way to a record that is deeper by more than two.
MustKeep(w, r) == call[w].bound # "exact" /\ call[w].depth + 2 < r.depth

\* Seeded fault: an off-by-one.
ScanPastEnd(w) == slot[w] <= ClusterSize

\* The loops over a cluster go through all of its entries.
ScanOn(w) == slot[w] < ClusterSize

\* clear_entry of each entry, or entries just allocated
EmptyPayload == [s \in Slot |-> <<Zero>>]
EmptySignature == [s \in Slot |-> <<[word |-> Zero, seen |-> 1]>>]
SeenAll(history) == [w \in Worker |-> [s \in Slot |-> Len(history[s])]]

Init ==
  /\ payload = EmptyPayload /\ signature = EmptySignature /\ generation = 0
  /\ seenPayload = SeenAll(EmptyPayload) /\ seenSignature = SeenAll(EmptySignature)
  /\ published = {} /\ stores = 0 /\ searches = 0
  /\ pc = [w \in Worker |-> "idle"]
  /\ call = [w \in Worker |-> NoCall]
  /\ slot = [w \in Worker |-> 1]
  /\ sig = [w \in Worker |-> Zero] /\ word = [w \in Worker |-> Zero]
  /\ target = [w \in Worker |-> 1] /\ score = [w \in Worker |-> Infinity]
  /\ kept = [w \in Worker |-> NoRecord] /\ answer = [w \in Worker |-> NoRecord]
  /\ crew \in SUBSET Worker \ {{}}

Goto(w, label) == pc' = [pc EXCEPT ![w] = label]

Begin(w, c) ==
  /\ pc[w] = "idle"
  /\ call' = [call EXCEPT ![w] = c]
  /\ answer' = [answer EXCEPT ![w] = NoRecord]
  /\ Goto(w, "before")
  /\ UNCHANGED <<table, locals, seen, published, searches>>

\* The call returns, what is local to it is gone.
Finish(w) ==
  /\ Goto(w, "idle")
  /\ slot' = [slot EXCEPT ![w] = 1]
  /\ sig' = [sig EXCEPT ![w] = Zero]
  /\ word' = [word EXCEPT ![w] = Zero]
  /\ target' = [target EXCEPT ![w] = 1]
  /\ score' = [score EXCEPT ![w] = Infinity]
  /\ kept' = [kept EXCEPT ![w] = NoRecord]

BeginProbe(w, k) ==
  /\ Begin(w, [op |-> "probe", key |-> k])
  /\ UNCHANGED stores

BeginStore(w, k, m, d, b) ==
  /\ stores < MaxStores
  /\ Begin(w, [op |-> "store", key |-> k, move |-> m, depth |-> d, bound |-> b])
  /\ stores' = stores + 1

Larger(a, b) == IF a < b THEN b ELSE a

\* signature_before: an acquire
LoadSignature(w) ==
  /\ pc[w] = "before"
  /\ LET s == slot[w]
     IN \E i \in seenSignature[w][s] .. Len(signature[s]) :
          /\ sig' = [sig EXCEPT ![w] = signature[s][i].word]
          /\ seenSignature' = [seenSignature EXCEPT ![w][s] = i]
          /\ seenPayload' = [seenPayload EXCEPT ![w][s] = Larger(@, signature[s][i].seen)]
  /\ Goto(w, "payload")
  /\ UNCHANGED <<table, call, slot, word, choice, answer, published, bounds>>

LoadPayload(w) ==
  /\ pc[w] = "payload"
  /\ LET s == slot[w]
     IN \E i \in seenPayload[w][s] .. Len(payload[s]) :
          /\ word' = [word EXCEPT ![w] = payload[s][i]]
          /\ seenPayload' = [seenPayload EXCEPT ![w][s] = i]
  /\ Goto(w, "after")
  /\ UNCHANGED <<table, call, slot, sig, choice, answer, seenSignature, published, bounds>>

NextEntry(w) ==
  /\ slot' = [slot EXCEPT ![w] = @ + 1]
  /\ Goto(w, "before")
  /\ UNCHANGED <<sig, word>>

\* The body of probe's loop.
ProbeEntry(w, sig2) ==
  IF IsHit(w, sig2)
  THEN answer' = [answer EXCEPT ![w] = Unpack(word[w])] /\ Finish(w)
  ELSE /\ UNCHANGED answer
       /\ IF ScanOn(w) THEN NextEntry(w) /\ UNCHANGED choice ELSE Finish(w)

\* The body of store's loop: the entry of the same key, if it need not be kept,
\* or the one with the lowest replacement score.
StoreEntry(w, sig2) ==
  /\ UNCHANGED answer
  /\ IF IsHit(w, sig2)
     THEN IF MustKeep(w, Unpack(word[w]))
          THEN Finish(w)
          ELSE /\ target' = [target EXCEPT ![w] = slot[w]]
               /\ kept' = [kept EXCEPT ![w] = Unpack(word[w])]
               /\ Goto(w, "writepayload")
               /\ UNCHANGED <<slot, sig, word, score>>
     ELSE LET new == IF HasSnapshot(w, sig2) THEN ReplacementScore(Unpack(word[w])) ELSE -Infinity
          IN /\ IF new < score[w]
                THEN /\ target' = [target EXCEPT ![w] = slot[w]]
                     /\ score' = [score EXCEPT ![w] = new]
                ELSE UNCHANGED <<target, score>>
             /\ UNCHANGED kept
             /\ IF ScanOn(w)
                THEN NextEntry(w)
                ELSE Goto(w, "writepayload") /\ UNCHANGED <<slot, sig, word>>

\* signature_after, and what probe and store make of the snapshot: the body of
\* their loops.
LoadSignatureAgain(w) ==
  /\ pc[w] = "after"
  /\ LET s == slot[w]
     IN \E i \in seenSignature[w][s] .. Len(signature[s]) :
          /\ seenSignature' = [seenSignature EXCEPT ![w][s] = i]
          /\ seenPayload' = [seenPayload EXCEPT ![w][s] = Larger(@, signature[s][i].seen)]
          /\ IF call[w].op = "probe"
             THEN ProbeEntry(w, signature[s][i].word)
             ELSE StoreEntry(w, signature[s][i].word)
  /\ UNCHANGED <<table, call, published, bounds>>

\* The payload becomes visible before its signature.
StorePayload(w) ==
  /\ pc[w] = "writepayload"
  /\ LET s == target[w]
     IN /\ payload' = [payload EXCEPT ![s] = Append(@, Pack[NewRecord(w)])]
        /\ seenPayload' = [seenPayload EXCEPT ![w][s] = Len(payload[s]) + 1]
  /\ word' = [word EXCEPT ![w] = Pack[NewRecord(w)]]
  /\ published' = published \cup {<<call[w].key, NewRecord(w)>>}
  /\ Goto(w, "writesignature")
  /\ UNCHANGED <<signature, generation, call, slot, sig, choice, answer, seenSignature, bounds>>

\* The release store of the signature.
StoreSignature(w) ==
  /\ pc[w] = "writesignature"
  /\ LET s == target[w]
     IN /\ signature' = [signature EXCEPT ![s] =
             Append(@, [word |-> MakeSignature(call[w].key, word[w]), seen |-> seenPayload[w][s]])]
        /\ seenSignature' = [seenSignature EXCEPT ![w][s] = Len(signature[s]) + 1]
  /\ Finish(w)
  /\ UNCHANGED <<payload, generation, call, answer, seenPayload, published, bounds>>

Quiet == \A w \in Worker : pc[w] = "idle"

\* advance_generation by the main worker, whose helpers are at the gate: going
\* through the pool's mutexes every worker has seen what the last search wrote.
AdvanceGeneration ==
  /\ Quiet /\ searches < MaxGenerations
  /\ generation' = (generation + 1) % GenerationCount
  /\ searches' = searches + 1
  /\ seenPayload' = SeenAll(payload)
  /\ seenSignature' = SeenAll(signature)
  /\ UNCHANGED <<payload, signature, pc, call, locals, answer, published, stores>>

\* clear, and resize, by the UCI thread while every worker is idle.
Clear ==
  /\ Quiet
  /\ payload' = EmptyPayload /\ signature' = EmptySignature /\ generation' = 0
  /\ seenPayload' = SeenAll(EmptyPayload) /\ seenSignature' = SeenAll(EmptySignature)
  /\ published' = {} /\ stores' = 0 /\ searches' = 0
  /\ call' = [w \in Worker |-> NoCall]
  /\ answer' = [w \in Worker |-> NoRecord]
  /\ UNCHANGED <<pc, locals>>

Step(w) ==
  \/ LoadSignature(w) \/ LoadPayload(w) \/ LoadSignatureAgain(w)
  \/ StorePayload(w) \/ StoreSignature(w)

Next ==
  /\ \/ \E w \in crew, k \in Keys : BeginProbe(w, k)
     \/ \E w \in crew, k \in Keys, m \in Moves \cup {NullMove}, d \in Depths, b \in Bounds :
          BeginStore(w, k, m, d, b)
     \/ \E w \in crew : Step(w)
     \/ AdvanceGeneration
     \/ Clear
  /\ UNCHANGED crew

Spec == Init /\ [][Next]_vars

-----------------------------------------------------------------------------
(* What must hold.                                                         *)

\* The variables have their types.
Signatures == {MakeSignature(k, p) : k \in Keys, p \in Payloads} \cup {Zero}
Written == [word : Signatures, seen : Nat \ {0}]

TypeOK ==
  /\ payload \in [Slot -> Seq(Payloads \cup {Zero})]
  /\ signature \in [Slot -> Seq(Written)]
  /\ generation \in 0 .. GenerationCount - 1
  /\ pc \in [Worker -> Pcs]
  /\ call \in [Worker -> ProbeCall \cup StoreCall \cup {NoCall}]
  /\ slot \in [Worker -> Slot] /\ target \in [Worker -> Slot]
  /\ sig \in [Worker -> Signatures] /\ word \in [Worker -> Payloads \cup {Zero}]
  /\ kept \in [Worker -> Record \cup {NoRecord}]
  /\ answer \in [Worker -> Record \cup {NoRecord}]
  /\ seenPayload \in [Worker -> [Slot -> Nat \ {0}]]
  /\ seenSignature \in [Worker -> [Slot -> Nat \ {0}]]
  /\ published \subseteq Keys \X Record
  /\ crew \subseteq Worker

\* A probe returns nothing but a whole record that some store wrote for that very
\* key since the last clear, however the accesses of the threads interleave and
\* whatever old words they read: "races produce a miss or a complete old or new
\* record" (tt.hpp:80).
ProbeIsGenuine ==
  \A w \in Worker : answer[w] # NoRecord => <<call[w].key, answer[w]>> \in published

\* The key and the record that slot s holds in memory, to a thread that has seen
\* everything.
Last(q) == q[Len(q)]
Holds(s) == Last(payload[s]) \in Payloads
KeyOf(s) == RecoverKey(Last(signature[s]).word, Last(payload[s]))

\* A cluster has no two records of one key, as long as one thread at a time
\* stores into it: replacement and the scan of both calls rely on it.
OneEntryPerKey ==
  Quiet => \A s, t \in Slot : s # t /\ Holds(s) /\ Holds(t) => KeyOf(s) # KeyOf(t)

\* What a thread has just stored is found by the next probe, or a deeper record
\* of that key is.
StoreIsFound ==
  Quiet => \A w \in Worker : call[w].op = "store" =>
             \E s \in Slot : Holds(s) /\ KeyOf(s) = call[w].key

\* The key and record of slot s after its i-th store.
Stored(s, i) ==
  LET p == payload[s][signature[s][i].seen]
  IN [key |-> RecoverKey(signature[s][i].word, p), record |-> Unpack(p)]

\* Two stores that follow each other in a slot and have the same key.
Refreshed(s, i) == i > 1 /\ i < Len(signature[s]) /\ Stored(s, i).key = Stored(s, i + 1).key

\* A record is replaced by one of its key that is shallower by more than two only
\* if that is exact, and a move that was stored stays until the key is evicted.
KeepsDepthAndMove ==
  \A s \in Slot : \A i \in 1 .. Len(signature[s]) : Refreshed(s, i) =>
    LET old == Stored(s, i).record
        new == Stored(s, i + 1).record
    IN /\ new.bound = "exact" \/ old.depth <= new.depth + 2
       /\ old.move # NullMove => new.move # NullMove

\* One thread works on the table.
Alone == \E w \in Worker : crew = {w}

\* As long as one thread works on the table, replacement keeps one
\* entry per key, what was just stored is found, and neither the deeper record
\* of a key nor its move is lost, over searches that age the records
\* (TranspositionTable::store).
ReplacementIsSound == Alone => OneEntryPerKey /\ StoreIsFound /\ KeepsDepthAndMove
=============================================================================
