---------------------------- MODULE TableProofs ----------------------------
(* TranspositionTable: a probe never returns a mixed or foreign record, for *)
(* any number of threads, keys, entries and stores, in any order in which  *)
(* their accesses become visible; and replacement by one thread is sound.  *)
EXTENDS TranspositionTable, SequenceTheorems, TLAPS

\* A call has arguments while it runs, and a writer is a store.
Running ==
  \A w \in Worker :
    /\ pc[w] # "idle" => call[w] \in ProbeCall \cup StoreCall
    /\ pc[w] \in {"writepayload", "writesignature"} => call[w] \in StoreCall

TypeInv == TypeOK /\ Running

\* A signature that is nobody's, or that of a key and record in published.
Genuine(x) == x = Zero \/ \E e \in published : x = MakeSignature(e[1], Pack[e[2]])

\* The signatures in memory and in the threads' hands are genuine.
SignaturesGenuine ==
  /\ \A s \in Slot : \A i \in 1 .. Len(signature[s]) : Genuine(signature[s][i].word)
  /\ \A w \in Worker : pc[w] \in {"payload", "after"} => Genuine(sig[w])

\* Between its two writes a store has published the record it signs.
SignsPublished ==
  \A w \in Worker : pc[w] = "writesignature" =>
    \E r \in Record : word[w] = Pack[r] /\ <<call[w].key, r>> \in published

GenuineInv == SignaturesGenuine /\ SignsPublished /\ ProbeIsGenuine

-----------------------------------------------------------------------------
(* Words.                                                                  *)

\* Exclusive or taken back: what the signature of one pair yields with the payload
\* of another is the other's key only if the two agree.
LEMMA XorCancel ==
  ASSUME NEW k, NEW p, NEW l, NEW q, Xor(Xor(Xor(Xor(k, p), Salt), q), Salt) = l
  PROVE Xor(k, p) = Xor(l, q)
<1> USE DEF Xor
<1>1. ASSUME NEW b PROVE b \in Xor(k, p) <=> b \in Xor(l, q)
  OBVIOUS
<1> QED  BY <1>1

\* A zero signature yields no key.
LEMMA ZeroIsNoKey ==
  ASSUME NEW l \in Keys, NEW q \in Payloads PROVE RecoverKey(Zero, q) # l
<1>1. Xor(Zero, q) = q
  BY DEF Xor, Zero
<1> QED  BY <1>1, KeyAssumption DEF RecoverKey

\* Unpacking a packed record gives it back.
LEMMA UnpackPack ==
  ASSUME NEW r \in Record PROVE Unpack(Pack[r]) = r
BY PackAssumption DEF Unpack

LEMMA UnpackType ==
  ASSUME NEW p \in Payloads PROVE Unpack(p) \in Record /\ Pack[Unpack(p)] = p
BY UnpackPack DEF Payloads

\* NoRecord is none: it has no move.
LEMMA NoRecordIsNone == NoRecord \notin Record
<1>1. \A r \in Record : r.bound # "none"
  BY DEF Record, Bounds
<1> QED  BY <1>1 DEF NoRecord

\* The heart of the matter: a genuine signature and any payload yield a key only
\* for a record that was stored under it.
LEMMA HitIsGenuine ==
  ASSUME NEW x, Genuine(x), published \subseteq Keys \X Record,
         NEW p \in Payloads, NEW l \in Keys, RecoverKey(x, p) = l
  PROVE <<l, Unpack(p)>> \in published
<1>1. PICK e \in published : x = MakeSignature(e[1], Pack[e[2]])
  BY ZeroIsNoKey DEF Genuine
<1>2. e \in Keys \X Record /\ e = <<e[1], e[2]>> /\ e[1] \in Keys /\ e[2] \in Record
  BY <1>1
<1>3. Pack[e[2]] \in Payloads
  BY <1>2 DEF Payloads
<1>4. Xor(e[1], Pack[e[2]]) = Xor(l, p)
  BY <1>1, XorCancel DEF MakeSignature, RecoverKey
<1>5. e[1] = l /\ Pack[e[2]] = p
  BY <1>2, <1>3, <1>4, KeyAssumption
<1> QED  BY <1>1, <1>2, <1>5, UnpackPack

-----------------------------------------------------------------------------
(* Types.                                                                  *)

LEMMA SlotTypes == 1 \in Slot /\ Slot \subseteq Nat
BY TableAssumption DEF Slot

LEMMA RecordTypes ==
  ASSUME TypeOK, NEW w \in Worker, call[w] \in StoreCall
  PROVE NewRecord(w) \in Record
<1>1. NewRecordOnly(w) \in Record
  BY DEF NewRecordOnly, Record, StoreCall, TypeOK
<1>2. kept[w] # NoRecord => kept[w].move \in Moves \cup {NullMove}
  BY DEF TypeOK, Record
<1> QED  BY <1>1, <1>2 DEF NewRecord, Record

LEMMA FinishTypes ==
  ASSUME TypeOK, NEW w \in Worker, Finish(w)
  PROVE /\ pc' \in [Worker -> Pcs]
        /\ slot' \in [Worker -> Slot] /\ target' \in [Worker -> Slot]
        /\ sig' \in [Worker -> Signatures] /\ word' \in [Worker -> Payloads \cup {Zero}]
        /\ kept' \in [Worker -> Record \cup {NoRecord}]
BY SlotTypes DEF TypeOK, Finish, Goto, Pcs, Signatures

LEMMA InitTypes == Init => TypeInv
<1> SUFFICES ASSUME Init PROVE TypeInv
  OBVIOUS
<1> USE SlotTypes, TableAssumption
<1>1. payload \in [Slot -> Seq(Payloads \cup {Zero})] /\ signature \in [Slot -> Seq(Written)]
  BY DEF Init, EmptyPayload, EmptySignature, Written, Signatures
<1>2. seenPayload \in [Worker -> [Slot -> Nat \ {0}]] /\ seenSignature \in [Worker -> [Slot -> Nat \ {0}]]
  BY DEF Init, EmptyPayload, EmptySignature, SeenAll
<1>3. TypeOK
  BY <1>1, <1>2 DEF Init, TypeOK, Pcs, Signatures
<1>4. Running
  BY DEF Init, Running
<1> QED  BY <1>3, <1>4 DEF TypeInv

\* Reading a word leaves a thread with a position in its history.
LEMMA SeenTypes ==
  ASSUME TypeOK, NEW w \in Worker, NEW s \in Slot, NEW i \in seenSignature[w][s] .. Len(signature[s])
  PROVE /\ i \in 1 .. Len(signature[s])
        /\ signature[s][i] \in Written
        /\ [seenSignature EXCEPT ![w][s] = i] \in [Worker -> [Slot -> Nat \ {0}]]
        /\ [seenPayload EXCEPT ![w][s] = Larger(@, signature[s][i].seen)]
             \in [Worker -> [Slot -> Nat \ {0}]]
<1>1. i \in 1 .. Len(signature[s]) /\ i \in Nat \ {0}
  BY DEF TypeOK
<1>2. signature[s][i] \in Written
  BY <1>1 DEF TypeOK
<1>3. Larger(seenPayload[w][s], signature[s][i].seen) \in Nat \ {0}
  BY <1>2 DEF TypeOK, Written, Larger
<1> QED  BY <1>1, <1>2, <1>3 DEF TypeOK

LEMMA BeginTypes ==
  ASSUME TypeInv, NEW w \in Worker, NEW c \in ProbeCall \cup StoreCall, Begin(w, c), UNCHANGED crew
  PROVE TypeInv'
<1> USE DEF TypeInv, table, locals, choice, seen
<1>1. TypeOK'
  BY DEF TypeOK, Begin, Goto, Pcs
<1>2. Running'
  BY DEF TypeOK, Running, Begin, Goto
<1> QED  BY <1>1, <1>2

LEMMA LoadSignatureTypes ==
  ASSUME TypeInv, NEW w \in Worker, LoadSignature(w), UNCHANGED crew PROVE TypeInv'
<1> USE DEF TypeInv, table, locals, choice, seen
<1>1. PICK i \in seenSignature[w][slot[w]] .. Len(signature[slot[w]]) :
        /\ sig' = [sig EXCEPT ![w] = signature[slot[w]][i].word]
        /\ seenSignature' = [seenSignature EXCEPT ![w][slot[w]] = i]
        /\ seenPayload' = [seenPayload EXCEPT ![w][slot[w]] = Larger(@, signature[slot[w]][i].seen)]
  BY DEF LoadSignature
<1>2. slot[w] \in Slot
  BY DEF TypeOK
<1>3. /\ seenSignature' \in [Worker -> [Slot -> Nat \ {0}]]
      /\ seenPayload' \in [Worker -> [Slot -> Nat \ {0}]]
      /\ signature[slot[w]][i].word \in Signatures
  BY <1>1, <1>2, SeenTypes DEF Written
<1>4. TypeOK'
  BY <1>1, <1>3 DEF TypeOK, LoadSignature, Goto, Pcs
<1>5. Running'
  BY DEF TypeOK, Running, LoadSignature, Goto
<1> QED  BY <1>4, <1>5

LEMMA LoadPayloadTypes ==
  ASSUME TypeInv, NEW w \in Worker, LoadPayload(w), UNCHANGED crew PROVE TypeInv'
<1> USE DEF TypeInv, table, locals, choice, seen
<1>1. PICK i \in seenPayload[w][slot[w]] .. Len(payload[slot[w]]) :
        /\ word' = [word EXCEPT ![w] = payload[slot[w]][i]]
        /\ seenPayload' = [seenPayload EXCEPT ![w][slot[w]] = i]
  BY DEF LoadPayload
<1>2. slot[w] \in Slot /\ i \in Nat \ {0} /\ i \in 1 .. Len(payload[slot[w]])
  BY DEF TypeOK
<1>3. payload[slot[w]][i] \in Payloads \cup {Zero}
  BY <1>2 DEF TypeOK
<1>4. TypeOK'
  BY <1>1, <1>2, <1>3 DEF TypeOK, LoadPayload, Goto, Pcs
<1>5. Running'
  BY DEF TypeOK, Running, LoadPayload, Goto
<1> QED  BY <1>4, <1>5

\* What the body of either loop leaves: the next entry, the decision to write, or
\* the end of the call.
LEMMA EntryTypes ==
  ASSUME TypeInv, NEW w \in Worker, pc[w] = "after", NEW x,
         \/ call[w].op = "probe" /\ ProbeEntry(w, x)
         \/ call[w].op # "probe" /\ StoreEntry(w, x)
  PROVE /\ pc' \in [Worker -> Pcs]
        /\ slot' \in [Worker -> Slot] /\ target' \in [Worker -> Slot]
        /\ sig' \in [Worker -> Signatures] /\ word' \in [Worker -> Payloads \cup {Zero}]
        /\ kept' \in [Worker -> Record \cup {NoRecord}]
        /\ answer' \in [Worker -> Record \cup {NoRecord}]
        /\ \A v \in Worker : pc'[v] = pc[v] \/ (v = w /\ pc'[v] # "writesignature")
        /\ pc'[w] = "writepayload" => call[w].op # "probe"
<1> USE DEF TypeInv, choice
<1>1. CASE Finish(w) /\ (answer' = answer \/ (IsHit(w, x) /\ answer' = [answer EXCEPT ![w] = Unpack(word[w])]))
  <2>1. IsHit(w, x) => Unpack(word[w]) \in Record
    BY UnpackType DEF IsHit, HasSnapshot
  <2>2. answer' \in [Worker -> Record \cup {NoRecord}]
    BY <1>1, <2>1 DEF TypeOK
  <2>3. pc' = [pc EXCEPT ![w] = "idle"]
    BY <1>1 DEF Finish, Goto
  <2> QED  BY <1>1, <2>2, <2>3, FinishTypes DEF TypeOK
<1>2. CASE NextEntry(w) /\ ScanOn(w) /\ UNCHANGED <<kept, answer>> /\ target' \in [Worker -> Slot]
  <2>1. slot' \in [Worker -> Slot]
    <3>1. slot[w] \in Slot /\ slot[w] < ClusterSize
      BY <1>2 DEF ScanOn, TypeOK
    <3>2. slot[w] + 1 \in Slot
      BY <3>1, TableAssumption DEF Slot
    <3> QED  BY <1>2, <3>2 DEF NextEntry, TypeOK
  <2> QED  BY <1>2, <2>1 DEF NextEntry, Goto, TypeOK, Pcs
<1>3. CASE /\ Goto(w, "writepayload") /\ UNCHANGED <<slot, sig, word, answer>>
           /\ target' \in [Worker -> Slot] /\ kept' \in [Worker -> Record \cup {NoRecord}]
           /\ call[w].op # "probe"
  BY <1>3 DEF Goto, TypeOK, Pcs
<1>4. CASE call[w].op = "probe" /\ ProbeEntry(w, x)
  BY <1>1, <1>2, <1>4 DEF ProbeEntry, TypeOK
<1>5. CASE call[w].op # "probe" /\ StoreEntry(w, x)
  <2>1. CASE IsHit(w, x)
    <3>1. Unpack(word[w]) \in Record
      BY <2>1, UnpackType DEF IsHit, HasSnapshot
    <3>2. CASE MustKeep(w, Unpack(word[w]))
      <4>1. Finish(w) /\ answer' = answer
        BY <1>5, <2>1, <3>2 DEF StoreEntry
      <4> QED  BY <1>1, <4>1
    <3>3. CASE ~MustKeep(w, Unpack(word[w]))
      <4>1. /\ Goto(w, "writepayload") /\ UNCHANGED <<slot, sig, word, answer>>
            /\ target' = [target EXCEPT ![w] = slot[w]]
            /\ kept' = [kept EXCEPT ![w] = Unpack(word[w])]
        BY <1>5, <2>1, <3>3 DEF StoreEntry
      <4>2. target' \in [Worker -> Slot] /\ kept' \in [Worker -> Record \cup {NoRecord}]
        BY <3>1, <4>1 DEF TypeOK
      <4> QED  BY <1>3, <1>5, <4>1, <4>2
    <3> QED  BY <3>2, <3>3
  <2>2. CASE ~IsHit(w, x)
    <3>1. target' = target \/ target' = [target EXCEPT ![w] = slot[w]]
      BY <1>5, <2>2 DEF StoreEntry
    <3>2. target' \in [Worker -> Slot]
      BY <3>1 DEF TypeOK
    <3>3. kept' = kept /\ answer' = answer
      BY <1>5, <2>2 DEF StoreEntry
    <3>4. \/ ScanOn(w) /\ NextEntry(w)
          \/ Goto(w, "writepayload") /\ UNCHANGED <<slot, sig, word>>
      BY <1>5, <2>2 DEF StoreEntry
    <3> QED  BY <1>2, <1>3, <1>5, <3>2, <3>3, <3>4 DEF TypeOK
  <2> QED  BY <2>1, <2>2
<1> QED  BY <1>4, <1>5

LEMMA LoadSignatureAgainTypes ==
  ASSUME TypeInv, NEW w \in Worker, LoadSignatureAgain(w), UNCHANGED crew PROVE TypeInv'
<1> USE DEF TypeInv, table
<1>1. PICK i \in seenSignature[w][slot[w]] .. Len(signature[slot[w]]) :
        /\ seenSignature' = [seenSignature EXCEPT ![w][slot[w]] = i]
        /\ seenPayload' = [seenPayload EXCEPT ![w][slot[w]] = Larger(@, signature[slot[w]][i].seen)]
        /\ IF call[w].op = "probe"
           THEN ProbeEntry(w, signature[slot[w]][i].word)
           ELSE StoreEntry(w, signature[slot[w]][i].word)
  BY DEF LoadSignatureAgain
<1>2. slot[w] \in Slot
  BY DEF TypeOK
<1>3. seenSignature' \in [Worker -> [Slot -> Nat \ {0}]] /\ seenPayload' \in [Worker -> [Slot -> Nat \ {0}]]
  BY <1>1, <1>2, SeenTypes
<1>4. pc[w] = "after" /\ UNCHANGED <<payload, signature, generation, call, published>>
  BY DEF LoadSignatureAgain
<1>5. /\ pc' \in [Worker -> Pcs]
      /\ slot' \in [Worker -> Slot] /\ target' \in [Worker -> Slot]
      /\ sig' \in [Worker -> Signatures] /\ word' \in [Worker -> Payloads \cup {Zero}]
      /\ kept' \in [Worker -> Record \cup {NoRecord}]
      /\ answer' \in [Worker -> Record \cup {NoRecord}]
      /\ \A v \in Worker : pc'[v] = pc[v] \/ (v = w /\ pc'[v] # "writesignature")
      /\ pc'[w] = "writepayload" => call[w].op # "probe"
  BY <1>1, <1>4, EntryTypes
<1>6. TypeOK'
  BY <1>3, <1>4, <1>5 DEF TypeOK
<1>7. Running'
  BY <1>4, <1>5 DEF Running, ProbeCall, StoreCall
<1> QED  BY <1>6, <1>7

LEMMA StorePayloadTypes ==
  ASSUME TypeInv, NEW w \in Worker, StorePayload(w), UNCHANGED crew PROVE TypeInv'
<1> USE DEF TypeInv, choice
<1>1. pc[w] = "writepayload" /\ call[w] \in StoreCall /\ target[w] \in Slot
  BY DEF StorePayload, Running, TypeOK
<1>2. NewRecord(w) \in Record /\ Pack[NewRecord(w)] \in Payloads
  BY <1>1, RecordTypes DEF Payloads
<1>3. payload' \in [Slot -> Seq(Payloads \cup {Zero})]
  BY <1>1, <1>2 DEF StorePayload, TypeOK
<1>4. seenPayload' \in [Worker -> [Slot -> Nat \ {0}]]
  <2>1. Len(payload[target[w]]) + 1 \in Nat \ {0}
    BY <1>1 DEF TypeOK
  <2> QED  BY <1>1, <2>1 DEF StorePayload, TypeOK
<1>5. word' \in [Worker -> Payloads \cup {Zero}]
  BY <1>2 DEF StorePayload, TypeOK
<1>6. published' \subseteq Keys \X Record
  BY <1>1, <1>2 DEF StorePayload, TypeOK, StoreCall
<1>7. TypeOK'
  BY <1>3, <1>4, <1>5, <1>6 DEF StorePayload, TypeOK, Goto, Pcs
<1>8. Running'
  BY <1>1 DEF StorePayload, Running, Goto, TypeOK
<1> QED  BY <1>7, <1>8

LEMMA StoreSignatureTypes ==
  ASSUME TypeInv, NEW w \in Worker, StoreSignature(w), word[w] \in Payloads, UNCHANGED crew
  PROVE TypeInv'
<1> USE DEF TypeInv
<1>1. pc[w] = "writesignature" /\ call[w].key \in Keys /\ target[w] \in Slot
  BY DEF StoreSignature, Running, StoreCall, TypeOK
<1>2. [word |-> MakeSignature(call[w].key, word[w]), seen |-> seenPayload[w][target[w]]] \in Written
  BY <1>1 DEF Written, Signatures, TypeOK
<1>3. signature' \in [Slot -> Seq(Written)]
  BY <1>1, <1>2 DEF StoreSignature, TypeOK
<1>4. seenSignature' \in [Worker -> [Slot -> Nat \ {0}]]
  <2>1. Len(signature[target[w]]) + 1 \in Nat \ {0}
    BY <1>1 DEF TypeOK
  <2> QED  BY <1>1, <2>1 DEF StoreSignature, TypeOK
<1>5. Finish(w)
  BY DEF StoreSignature
<1>6. TypeOK'
  BY <1>3, <1>4, <1>5, FinishTypes DEF StoreSignature, TypeOK
<1>7. Running'
  BY <1>5 DEF StoreSignature, Running, Finish, Goto, TypeOK
<1> QED  BY <1>6, <1>7

LEMMA SeenAllTypes ==
  ASSUME NEW S, NEW history \in [Slot -> Seq(S)], \A s \in Slot : Len(history[s]) > 0
  PROVE SeenAll(history) \in [Worker -> [Slot -> Nat \ {0}]]
<1>1. \A s \in Slot : Len(history[s]) \in Nat \ {0}
  OBVIOUS
<1> QED  BY <1>1 DEF SeenAll

\* A history never loses its first word.
Histories == \A s \in Slot : Len(payload[s]) > 0 /\ Len(signature[s]) > 0

LEMMA HistoriesStep ==
  /\ Init => Histories
  /\ TypeInv /\ Histories /\ [Next]_vars => Histories'
<1>1. Init => Histories
  BY DEF Init, Histories, EmptyPayload, EmptySignature
<1>2. ASSUME TypeInv, Histories, UNCHANGED <<payload, signature>> PROVE Histories'
  BY <1>2 DEF Histories
<1>3. ASSUME TypeInv, Histories, NEW w \in Worker, StorePayload(w) PROVE Histories'
  <2>1. target[w] \in Slot /\ payload \in [Slot -> Seq(Payloads \cup {Zero})]
    BY <1>3 DEF TypeInv, TypeOK
  <2>2. payload' = [payload EXCEPT ![target[w]] = Append(@, Pack[NewRecord(w)])]
    BY <1>3 DEF StorePayload
  <2>3. Len(Append(payload[target[w]], Pack[NewRecord(w)])) > 0
    BY <2>1
  <2>4. signature' = signature
    BY <1>3 DEF StorePayload
  <2> QED  BY <1>3, <2>1, <2>2, <2>3, <2>4 DEF Histories
<1>4. ASSUME TypeInv, Histories, NEW w \in Worker, StoreSignature(w) PROVE Histories'
  <2> DEFINE new == [word |-> MakeSignature(call[w].key, word[w]), seen |-> seenPayload[w][target[w]]]
  <2>1. target[w] \in Slot /\ signature \in [Slot -> Seq(Written)]
    BY <1>4 DEF TypeInv, TypeOK
  <2>2. signature' = [signature EXCEPT ![target[w]] = Append(@, new)]
    BY <1>4 DEF StoreSignature
  <2>3. Len(Append(signature[target[w]], new)) > 0
    BY <2>1
  <2>4. payload' = payload
    BY <1>4 DEF StoreSignature
  <2> QED  BY <1>4, <2>1, <2>2, <2>3, <2>4 DEF Histories
<1>5. ASSUME Clear PROVE Histories'
  BY <1>5 DEF Clear, Histories, EmptyPayload, EmptySignature
<1>6. ASSUME TypeInv, Next
      PROVE             \/ UNCHANGED <<payload, signature>> \/ Clear
                        \/ \E w \in Worker : StorePayload(w) \/ StoreSignature(w)
  <2>1. crew \subseteq Worker
    BY <1>6 DEF TypeInv, TypeOK
  <2> QED
    BY <1>6, <2>1 DEF Next, Step, BeginProbe, BeginStore, Begin, LoadSignature, LoadPayload,
       LoadSignatureAgain, AdvanceGeneration, table
<1> QED  BY <1>1, <1>2, <1>3, <1>4, <1>5, <1>6 DEF vars, table

LEMMA AdvanceGenerationTypes ==
  ASSUME TypeInv, Histories, AdvanceGeneration, UNCHANGED crew PROVE TypeInv'
<1> USE DEF TypeInv, locals, choice
<1>1. generation' \in 0 .. GenerationCount - 1
  BY TableAssumption DEF AdvanceGeneration, TypeOK
<1>2. seenPayload' \in [Worker -> [Slot -> Nat \ {0}]] /\ seenSignature' \in [Worker -> [Slot -> Nat \ {0}]]
  BY SeenAllTypes DEF AdvanceGeneration, TypeOK, Histories
<1>3. TypeOK'
  BY <1>1, <1>2 DEF AdvanceGeneration, TypeOK
<1>4. Running'
  BY DEF AdvanceGeneration, Running
<1> QED  BY <1>3, <1>4

LEMMA ClearTypes ==
  ASSUME TypeInv, Clear, UNCHANGED crew PROVE TypeInv'
<1> USE DEF TypeInv, locals, choice
<1>1. payload' \in [Slot -> Seq(Payloads \cup {Zero})] /\ signature' \in [Slot -> Seq(Written)]
  BY DEF Clear, EmptyPayload, EmptySignature, Written, Signatures
<1>2. seenPayload' \in [Worker -> [Slot -> Nat \ {0}]] /\ seenSignature' \in [Worker -> [Slot -> Nat \ {0}]]
  BY DEF Clear, EmptyPayload, EmptySignature, SeenAll
<1>3. TypeOK'
  BY <1>1, <1>2, TableAssumption DEF Clear, TypeOK
<1>4. Running'
  BY DEF Clear, Quiet, Running
<1> QED  BY <1>3, <1>4

\* A step that publishes nothing less keeps what is genuine.
LEMMA GenuineGrows ==
  ASSUME published \subseteq published', NEW x, Genuine(x) PROVE Genuine(x)'
BY DEF Genuine

\* What a store signs is a payload.
LEMMA SignedPayload ==
  ASSUME SignsPublished, NEW w \in Worker, pc[w] = "writesignature" PROVE word[w] \in Payloads
BY DEF SignsPublished, Payloads

LEMMA TypesStep == TypeInv /\ Histories /\ SignsPublished /\ [Next]_vars => TypeInv'
<1> SUFFICES ASSUME TypeInv, Histories, SignsPublished, [Next]_vars PROVE TypeInv'
  OBVIOUS
<1>0. CASE UNCHANGED vars
  BY <1>0 DEF vars, table, locals, choice, seen, TypeInv, TypeOK, Running
<1> SUFFICES ASSUME Next PROVE TypeInv'
  BY <1>0
<1> crew \subseteq Worker /\ UNCHANGED crew
  BY DEF TypeInv, TypeOK, Next
<1>1. ASSUME NEW w \in Worker, NEW k \in Keys, BeginProbe(w, k) PROVE TypeInv'
  <2>1. [op |-> "probe", key |-> k] \in ProbeCall
    BY DEF ProbeCall
  <2> QED  BY <1>1, <2>1, BeginTypes DEF BeginProbe
<1>2. ASSUME NEW w \in Worker, NEW k \in Keys, NEW m \in Moves \cup {NullMove}, NEW d \in Depths,
             NEW b \in Bounds, BeginStore(w, k, m, d, b)
      PROVE TypeInv'
  <2>1. [op |-> "store", key |-> k, move |-> m, depth |-> d, bound |-> b] \in StoreCall
    BY DEF StoreCall
  <2> QED  BY <1>2, <2>1, BeginTypes DEF BeginStore
<1>3. ASSUME NEW w \in Worker, Step(w) PROVE TypeInv'
  <2>1. StoreSignature(w) => word[w] \in Payloads
    BY SignedPayload DEF StoreSignature
  <2> QED  BY <1>3, <2>1, LoadSignatureTypes, LoadPayloadTypes, LoadSignatureAgainTypes,
             StorePayloadTypes, StoreSignatureTypes DEF Step
<1>4. CASE AdvanceGeneration
  BY <1>4, AdvanceGenerationTypes
<1>5. CASE Clear
  BY <1>5, ClearTypes
<1> QED  BY <1>1, <1>2, <1>3, <1>4, <1>5 DEF Next

-----------------------------------------------------------------------------
(* Genuine records.                                                        *)

\* What the body of either loop does to the threads' words and answers.
LEMMA EntryFrame ==
  ASSUME TypeInv, NEW w \in Worker, pc[w] = "after", NEW x,
         IF call[w].op = "probe" THEN ProbeEntry(w, x) ELSE StoreEntry(w, x)
  PROVE /\ pc'[w] \notin {"payload", "after", "writesignature"}
        /\ \A v \in Worker \ {w} : /\ pc'[v] = pc[v] /\ sig'[v] = sig[v]
                                   /\ word'[v] = word[v] /\ answer'[v] = answer[v]
        /\ \/ answer' = answer
           \/ IsHit(w, x) /\ answer' = [answer EXCEPT ![w] = Unpack(word[w])]
<1> USE DEF TypeInv, TypeOK
<1>1. \/ Finish(w)
      \/ NextEntry(w)
      \/ Goto(w, "writepayload") /\ UNCHANGED <<slot, sig, word>>
  BY DEF ProbeEntry, StoreEntry
<1>2. \/ answer' = answer
      \/ IsHit(w, x) /\ answer' = [answer EXCEPT ![w] = Unpack(word[w])]
  BY DEF ProbeEntry, StoreEntry
<1>3. \A v \in Worker \ {w} : answer'[v] = answer[v]
  BY <1>2
<1>4. /\ pc'[w] \notin {"payload", "after", "writesignature"}
      /\ \A v \in Worker \ {w} : pc'[v] = pc[v] /\ word'[v] = word[v] /\ sig'[v] = sig[v]
  BY <1>1 DEF Finish, NextEntry, Goto
<1> QED  BY <1>2, <1>3, <1>4

LEMMA BeginGenuine ==
  ASSUME TypeInv, GenuineInv, NEW w \in Worker, NEW c, Begin(w, c) PROVE GenuineInv'
<1> USE DEF TypeInv, TypeOK, Begin, Goto, table, locals
<1>1. SignaturesGenuine'
  BY DEF GenuineInv, SignaturesGenuine, Genuine
<1>2. SignsPublished'
  BY DEF GenuineInv, SignsPublished
<1>3. ProbeIsGenuine'
  BY DEF GenuineInv, ProbeIsGenuine
<1> QED  BY <1>1, <1>2, <1>3 DEF GenuineInv

LEMMA LoadSignatureGenuine ==
  ASSUME TypeInv, GenuineInv, NEW w \in Worker, LoadSignature(w) PROVE GenuineInv'
<1> USE DEF TypeInv, table, locals
<1>1. PICK i \in seenSignature[w][slot[w]] .. Len(signature[slot[w]]) :
        sig' = [sig EXCEPT ![w] = signature[slot[w]][i].word]
  BY DEF LoadSignature
<1>2. slot[w] \in Slot
  BY DEF TypeOK
<1>3. i \in 1 .. Len(signature[slot[w]])
  BY <1>2, SeenTypes
<1>4. Genuine(signature[slot[w]][i].word)
  BY <1>2, <1>3 DEF GenuineInv, SignaturesGenuine
<1>5. \A v \in Worker : pc'[v] \in {"payload", "after"} => Genuine(sig'[v])
  <2> SUFFICES ASSUME NEW v \in Worker, pc'[v] \in {"payload", "after"} PROVE Genuine(sig'[v])
    OBVIOUS
  <2>1. CASE v = w
    BY <1>1, <1>4, <2>1 DEF TypeOK, LoadSignature, Genuine
  <2>2. CASE v # w
    BY <1>1, <2>2 DEF TypeOK, LoadSignature, Goto, GenuineInv, SignaturesGenuine
  <2> QED  BY <2>1, <2>2
<1>6. UNCHANGED <<signature, published, word, call, answer>>
  BY DEF LoadSignature
<1>7. SignaturesGenuine'
  BY <1>5, <1>6 DEF GenuineInv, SignaturesGenuine, Genuine
<1>8. SignsPublished'
  BY <1>6 DEF TypeOK, LoadSignature, Goto, GenuineInv, SignsPublished
<1>9. ProbeIsGenuine'
  BY <1>6 DEF GenuineInv, ProbeIsGenuine
<1> QED  BY <1>7, <1>8, <1>9 DEF GenuineInv

LEMMA LoadPayloadGenuine ==
  ASSUME TypeInv, GenuineInv, NEW w \in Worker, LoadPayload(w) PROVE GenuineInv'
<1> USE DEF TypeInv, table, locals
<1>1. /\ UNCHANGED <<signature, published, sig, call, answer>>
      /\ pc[w] = "payload" /\ pc' = [pc EXCEPT ![w] = "after"]
  BY DEF LoadPayload, Goto
<1>2. \A v \in Worker \ {w} : word'[v] = word[v]
  BY DEF LoadPayload, TypeOK
<1>3. SignaturesGenuine'
  BY <1>1 DEF TypeOK, GenuineInv, SignaturesGenuine, Genuine
<1>4. SignsPublished'
  BY <1>1, <1>2 DEF TypeOK, GenuineInv, SignsPublished
<1>5. ProbeIsGenuine'
  BY <1>1 DEF GenuineInv, ProbeIsGenuine
<1> QED  BY <1>3, <1>4, <1>5 DEF GenuineInv

LEMMA LoadSignatureAgainGenuine ==
  ASSUME TypeInv, GenuineInv, NEW w \in Worker, LoadSignatureAgain(w) PROVE GenuineInv'
<1>1. PICK i \in seenSignature[w][slot[w]] .. Len(signature[slot[w]]) :
        IF call[w].op = "probe"
        THEN ProbeEntry(w, signature[slot[w]][i].word)
        ELSE StoreEntry(w, signature[slot[w]][i].word)
  BY DEF LoadSignatureAgain
<1>2. pc[w] = "after" /\ UNCHANGED <<signature, call, published>>
  BY DEF LoadSignatureAgain, table
<1> DEFINE x == signature[slot[w]][i].word
<1> HIDE DEF x
<1>3. IF call[w].op = "probe" THEN ProbeEntry(w, x) ELSE StoreEntry(w, x)
  BY <1>1 DEF x
<1>4. /\ pc'[w] \notin {"payload", "after", "writesignature"}
      /\ \A v \in Worker \ {w} : /\ pc'[v] = pc[v] /\ sig'[v] = sig[v]
                                 /\ word'[v] = word[v] /\ answer'[v] = answer[v]
      /\ \/ answer' = answer
         \/ IsHit(w, x) /\ answer' = [answer EXCEPT ![w] = Unpack(word[w])]
  BY <1>2, <1>3, EntryFrame
<1>5. SignaturesGenuine'
  BY <1>2, <1>4 DEF GenuineInv, SignaturesGenuine, Genuine
<1>6. SignsPublished'
  BY <1>2, <1>4 DEF GenuineInv, SignsPublished
<1>7. CASE answer' = answer
  BY <1>2, <1>5, <1>6, <1>7 DEF GenuineInv, ProbeIsGenuine
<1>8. CASE IsHit(w, x) /\ answer' = [answer EXCEPT ![w] = Unpack(word[w])]
  <2>1. /\ sig[w] = x /\ word[w] \in Payloads
        /\ RecoverKey(x, word[w]) = call[w].key
    BY <1>8 DEF IsHit, HasSnapshot
  <2>2. Genuine(x)
    BY <1>2, <2>1 DEF GenuineInv, SignaturesGenuine
  <2>3. call[w].key \in Keys /\ published \subseteq Keys \X Record
    BY <1>2 DEF TypeInv, TypeOK, Running, ProbeCall, StoreCall
  <2>4. <<call[w].key, Unpack(word[w])>> \in published
    BY <2>1, <2>2, <2>3, HitIsGenuine
  <2>5. answer'[w] = Unpack(word[w])
    BY <1>8 DEF TypeInv, TypeOK
  <2>6. ProbeIsGenuine'
    BY <1>2, <1>4, <2>4, <2>5 DEF GenuineInv, ProbeIsGenuine
  <2> QED  BY <1>5, <1>6, <2>6 DEF GenuineInv
<1> QED  BY <1>4, <1>7, <1>8

LEMMA StorePayloadGenuine ==
  ASSUME TypeInv, GenuineInv, NEW w \in Worker, StorePayload(w) PROVE GenuineInv'
<1> USE DEF TypeInv, choice
<1>1. /\ UNCHANGED <<signature, sig, call, answer>>
      /\ pc' = [pc EXCEPT ![w] = "writesignature"]
      /\ published' = published \cup {<<call[w].key, NewRecord(w)>>}
      /\ word' = [word EXCEPT ![w] = Pack[NewRecord(w)]]
  BY DEF StorePayload, Goto
<1>2. NewRecord(w) \in Record
  BY RecordTypes DEF Running, StorePayload
<1>3. \A z : Genuine(z) => Genuine(z)'
  BY <1>1, GenuineGrows
<1>4. SignaturesGenuine'
  <2>1. \A s \in Slot : \A i \in 1 .. Len(signature[s]) : Genuine(signature[s][i].word)'
    BY <1>1, <1>3 DEF GenuineInv, SignaturesGenuine, Genuine
  <2>2. \A v \in Worker : pc'[v] \in {"payload", "after"} => Genuine(sig[v])'
    BY <1>1, <1>3 DEF TypeOK, GenuineInv, SignaturesGenuine, Genuine
  <2> QED  BY <1>1, <2>1, <2>2 DEF SignaturesGenuine
<1>5. SignsPublished'
  BY <1>1, <1>2 DEF TypeOK, GenuineInv, SignsPublished
<1>6. ProbeIsGenuine'
  BY <1>1 DEF GenuineInv, ProbeIsGenuine
<1> QED  BY <1>4, <1>5, <1>6 DEF GenuineInv

LEMMA StoreSignatureGenuine ==
  ASSUME TypeInv, GenuineInv, NEW w \in Worker, StoreSignature(w) PROVE GenuineInv'
<1> USE DEF TypeInv
<1> DEFINE new == [word |-> MakeSignature(call[w].key, word[w]), seen |-> seenPayload[w][target[w]]]
<1>1. /\ UNCHANGED <<published, call, answer>> /\ Finish(w) /\ pc[w] = "writesignature"
      /\ signature' = [signature EXCEPT ![target[w]] = Append(@, new)]
  BY DEF StoreSignature
<1>2. PICK r \in Record : word[w] = Pack[r] /\ <<call[w].key, r>> \in published
  BY <1>1 DEF GenuineInv, SignsPublished
<1>3. Genuine(new.word)
  BY <1>2 DEF Genuine
<1> HIDE DEF new
<1>4. \A s \in Slot : \A i \in 1 .. Len(signature'[s]) : Genuine(signature'[s][i].word)
  <2> SUFFICES ASSUME NEW s \in Slot, NEW i \in 1 .. Len(signature'[s]) PROVE Genuine(signature'[s][i].word)
    OBVIOUS
  <2>1. signature[s] \in Seq(Written)
    BY DEF TypeOK
  <2>2. CASE s = target[w]
    <3>1. signature'[s] = Append(signature[s], new)
      BY <1>1, <2>2 DEF TypeOK
    <3>2. i \in 1 .. Len(signature[s]) + 1
      BY <2>1, <3>1
    <3>3. CASE i = Len(signature[s]) + 1
      BY <1>3, <2>1, <3>1, <3>3
    <3>4. CASE i \in 1 .. Len(signature[s])
      <4>1. signature'[s][i] = signature[s][i]
        BY <2>1, <3>1, <3>4
      <4> QED  BY <3>4, <4>1 DEF GenuineInv, SignaturesGenuine
    <3> QED  BY <2>1, <3>2, <3>3, <3>4
  <2>3. CASE s # target[w]
    <3>1. signature'[s] = signature[s]
      BY <1>1, <2>3 DEF TypeOK
    <3> QED  BY <3>1 DEF GenuineInv, SignaturesGenuine
  <2> QED  BY <2>2, <2>3
<1>5. /\ pc'[w] = "idle"
      /\ \A v \in Worker \ {w} : pc'[v] = pc[v] /\ sig'[v] = sig[v] /\ word'[v] = word[v]
  BY <1>1 DEF Finish, Goto, TypeOK
<1>6. SignaturesGenuine'
  BY <1>1, <1>4, <1>5 DEF GenuineInv, SignaturesGenuine, Genuine
<1>7. SignsPublished'
  BY <1>1, <1>5 DEF GenuineInv, SignsPublished
<1>8. ProbeIsGenuine'
  BY <1>1 DEF GenuineInv, ProbeIsGenuine
<1> QED  BY <1>6, <1>7, <1>8 DEF GenuineInv

LEMMA ClearGenuine ==
  ASSUME TypeInv, GenuineInv, Clear PROVE GenuineInv'
<1> USE DEF locals, choice
<1>1. signature' = EmptySignature /\ UNCHANGED pc /\ answer' = [w \in Worker |-> NoRecord]
  BY DEF Clear
<1>2. \A w \in Worker : pc'[w] = "idle"
  BY <1>1 DEF Clear, Quiet
<1>3. \A s \in Slot : \A i \in 1 .. Len(signature'[s]) : signature'[s][i].word = Zero
  BY <1>1 DEF EmptySignature
<1>4. SignaturesGenuine'
  BY <1>2, <1>3 DEF SignaturesGenuine, Genuine
<1>5. SignsPublished' /\ ProbeIsGenuine'
  BY <1>1, <1>2 DEF SignsPublished, ProbeIsGenuine
<1> QED  BY <1>4, <1>5 DEF GenuineInv

LEMMA GenuineStep == TypeInv /\ GenuineInv /\ [Next]_vars => GenuineInv'
<1> SUFFICES ASSUME TypeInv, GenuineInv, [Next]_vars PROVE GenuineInv'
  OBVIOUS
<1>0. crew \subseteq Worker
  BY DEF TypeInv, TypeOK
<1>1. ASSUME NEW w \in Worker, NEW k \in Keys, BeginProbe(w, k) PROVE GenuineInv'
  BY <1>1, BeginGenuine DEF BeginProbe
<1>2. ASSUME NEW w \in Worker, NEW k \in Keys, NEW m \in Moves \cup {NullMove}, NEW d \in Depths,
             NEW b \in Bounds, BeginStore(w, k, m, d, b)
      PROVE GenuineInv'
  BY <1>2, BeginGenuine DEF BeginStore
<1>3. ASSUME NEW w \in Worker, Step(w) PROVE GenuineInv'
  BY <1>3, LoadSignatureGenuine, LoadPayloadGenuine, LoadSignatureAgainGenuine,
     StorePayloadGenuine, StoreSignatureGenuine DEF Step
<1>4. CASE AdvanceGeneration \/ UNCHANGED vars
  <2>1. UNCHANGED <<signature, pc, call, sig, word, answer, published>>
    BY <1>4 DEF AdvanceGeneration, vars, table, locals
  <2> QED  BY <2>1 DEF GenuineInv, SignaturesGenuine, SignsPublished, ProbeIsGenuine, Genuine
<1>5. CASE Clear
  BY <1>5, ClearGenuine
<1> QED  BY <1>0, <1>1, <1>2, <1>3, <1>4, <1>5 DEF Next

-----------------------------------------------------------------------------
(* One thread alone.                                                       *)

\* The key and the record of slot s after its i-th store, the last but for the half
\* of a store that is under way.
KeyAt(s, i) == RecoverKey(signature[s][i].word, payload[s][i])
RecordAt(s, i) == Unpack(payload[s][i])
Count(s) == Len(signature[s])
HasKey(s, k) == Count(s) > 1 /\ KeyAt(s, Count(s)) = k

\* A thread alone has seen every word.
Abreast(w) ==
  /\ \A v \in Worker \ {w} : pc[v] = "idle" /\ call[v] = NoCall
  /\ \A s \in Slot : seenPayload[w][s] = Len(payload[s]) /\ seenSignature[w][s] = Count(s)

\* Each signature belongs to the payload in its place, and the two make a record.
Paired(w) ==
  \A s \in Slot :
    /\ Len(payload[s]) = IF pc[w] = "writesignature" /\ target[w] = s THEN Count(s) + 1 ELSE Count(s)
    /\ payload[s][1] = Zero
    /\ \A i \in 1 .. Count(s) : signature[s][i].seen = i
    /\ \A i \in 2 .. Count(s) : payload[s][i] \in Payloads /\ KeyAt(s, i) \in Keys

\* The snapshot is what is in memory, and no entry that was passed has the key.
Scanned(w) ==
  /\ pc[w] = "idle" => slot[w] = 1 /\ kept[w] = NoRecord
  /\ pc[w] \in {"payload", "after"} => sig[w] = signature[slot[w]][Count(slot[w])].word
  /\ pc[w] = "after" => word[w] = payload[slot[w]][Count(slot[w])]
  /\ pc[w] \in {"before", "payload", "after"} =>
       /\ kept[w] = NoRecord
       /\ \A s \in Slot : s < slot[w] => ~HasKey(s, call[w].key)

\* The entry that is about to be overwritten is the only one that may have the key,
\* and its record need not be kept.
Chosen(w) ==
  /\ pc[w] \in {"writepayload", "writesignature"} =>
       /\ \A s \in Slot : s # target[w] => ~HasKey(s, call[w].key)
       /\ HasKey(target[w], call[w].key) =>
            /\ kept[w] = RecordAt(target[w], Count(target[w]))
            /\ ~MustKeep(w, kept[w])
  /\ pc[w] = "writesignature" =>
       word[w] = Pack[NewRecord(w)] /\ word[w] = payload[target[w]][Count(target[w]) + 1]

\* The cluster between calls.
OneKeyEach == \A s, t \in Slot : s # t /\ Count(s) > 1 => ~HasKey(t, KeyAt(s, Count(s)))
StoreFound(w) ==
  pc[w] = "idle" /\ call[w].op = "store" => \E s \in Slot : HasKey(s, call[w].key)

\* A record may follow another of its key.
MayFollow(old, new) ==
  /\ new.bound = "exact" \/ old.depth <= new.depth + 2
  /\ old.move # NullMove => new.move # NullMove
Follows ==
  \A s \in Slot : \A i \in 2 .. Count(s) - 1 :
    KeyAt(s, i) = KeyAt(s, i + 1) => MayFollow(RecordAt(s, i), RecordAt(s, i + 1))

SoleInv(w) ==
  Abreast(w) /\ Paired(w) /\ Scanned(w) /\ Chosen(w) /\ OneKeyEach /\ StoreFound(w) /\ Follows

\* Memory that stays keeps its records.
LEMMA SameMemory ==
  ASSUME UNCHANGED <<payload, signature>>
  PROVE  /\ \A s : Count(s)' = Count(s)
         /\ \A s, i : KeyAt(s, i)' = KeyAt(s, i) /\ RecordAt(s, i)' = RecordAt(s, i)
         /\ \A s, k : HasKey(s, k)' <=> HasKey(s, k)
BY DEF Count, KeyAt, RecordAt, HasKey

LEMMA SoleTypes ==
  ASSUME TypeInv, Histories
  PROVE  \A s \in Slot : /\ Count(s) \in Nat \ {0} /\ Len(payload[s]) \in Nat \ {0}
                         /\ signature[s] \in Seq(Written) /\ payload[s] \in Seq(Payloads \cup {Zero})
BY DEF TypeInv, TypeOK, Histories, Count

\* What a probe or a store can tell of the entry it is at.
LEMMA Hit ==
  ASSUME TypeInv, Histories, NEW w \in Worker, SoleInv(w), pc[w] = "after",
         NEW x, x = signature[slot[w]][Count(slot[w])].word
  PROVE  /\ HasSnapshot(w, x) <=> Count(slot[w]) > 1
         /\ IsHit(w, x) <=> HasKey(slot[w], call[w].key)
         /\ IsHit(w, x) => Unpack(word[w]) = RecordAt(slot[w], Count(slot[w]))
<1>1. slot[w] \in Slot
  BY DEF TypeInv, TypeOK
<1>2. /\ sig[w] = x /\ word[w] = payload[slot[w]][Count(slot[w])]
      /\ payload[slot[w]][1] = Zero
      /\ \A i \in 2 .. Count(slot[w]) : payload[slot[w]][i] \in Payloads
  BY <1>1 DEF SoleInv, Scanned, Paired
<1>3. Count(slot[w]) \in Nat \ {0}
  BY <1>1, SoleTypes
<1>4. Zero \notin Payloads
  BY PackAssumption
<1>5. word[w] \in Payloads <=> Count(slot[w]) > 1
  <2>1. CASE Count(slot[w]) = 1
    BY <1>2, <1>4, <2>1
  <2>2. CASE Count(slot[w]) > 1
    BY <1>2, <1>3, <2>2
  <2> QED  BY <1>3, <2>1, <2>2
<1>6. HasSnapshot(w, x) <=> Count(slot[w]) > 1
  BY <1>2, <1>5 DEF HasSnapshot
<1> QED  BY <1>2, <1>6 DEF IsHit, HasKey, KeyAt, RecordAt

\* The memory stays and with it all that is said of it alone.
LEMMA MemoryKept ==
  ASSUME TypeInv, Histories, NEW w \in Worker, SoleInv(w), UNCHANGED <<payload, signature>>,
         \A v \in Worker \ {w} : pc'[v] = pc[v] /\ call'[v] = call[v],
         pc'[w] # "writesignature", pc[w] # "writesignature",
         \A s \in Slot : seenPayload'[w][s] = Len(payload[s]) /\ seenSignature'[w][s] = Count(s)
  PROVE  Abreast(w)' /\ Paired(w)' /\ OneKeyEach' /\ Follows'
<1>1. Abreast(w)'
  BY SameMemory DEF SoleInv, Abreast
<1>2. Paired(w)'
  BY SameMemory DEF SoleInv, Paired
<1>3. OneKeyEach' /\ Follows'
  BY SameMemory DEF SoleInv, OneKeyEach, Follows
<1> QED  BY <1>1, <1>2, <1>3

LEMMA BeginSole ==
  ASSUME TypeInv, Histories, NEW w \in Worker, SoleInv(w), NEW c \in ProbeCall \cup StoreCall, Begin(w, c)
  PROVE  SoleInv(w)'
<1>1. /\ UNCHANGED <<payload, signature, slot, kept, seenPayload, seenSignature>>
      /\ pc[w] = "idle" /\ pc' = [pc EXCEPT ![w] = "before"] /\ call' = [call EXCEPT ![w] = c]
      /\ slot[w] = 1 /\ kept[w] = NoRecord
  BY DEF Begin, Goto, table, locals, choice, seen, SoleInv, Scanned
<1>2. /\ pc'[w] = "before" /\ \A v \in Worker \ {w} : pc'[v] = pc[v] /\ call'[v] = call[v]
  BY <1>1 DEF TypeInv, TypeOK
<1>3. Abreast(w)' /\ Paired(w)' /\ OneKeyEach' /\ Follows'
  <2>1. \A s \in Slot : seenPayload'[w][s] = Len(payload[s]) /\ seenSignature'[w][s] = Count(s)
    BY <1>1 DEF SoleInv, Abreast
  <2> QED  BY <1>1, <1>2, <2>1, MemoryKept
<1>4. Scanned(w)'
  <2>1. \A s \in Slot : ~(s < 1)
    BY DEF Slot
  <2> QED  BY <1>1, <1>2, <2>1 DEF Scanned
<1>5. Chosen(w)' /\ StoreFound(w)'
  BY <1>2 DEF Chosen, StoreFound
<1> QED  BY <1>3, <1>4, <1>5 DEF SoleInv

\* An alone thread reads the last word.
LEMMA LoadSignatureSole ==
  ASSUME TypeInv, Histories, NEW w \in Worker, SoleInv(w), LoadSignature(w)
  PROVE  SoleInv(w)'
<1> DEFINE s == slot[w]
<1>1. /\ s \in Slot /\ Count(s) \in Nat \ {0}
      /\ seenSignature[w][s] = Count(s) /\ seenPayload[w][s] = Len(payload[s])
      /\ Len(payload[s]) = Count(s) /\ signature[s][Count(s)].seen = Count(s)
      /\ pc[w] = "before"
  <2>1. s \in Slot /\ pc[w] = "before"
    BY DEF LoadSignature, TypeInv, TypeOK
  <2>2. Count(s) \in Nat \ {0}
    BY <2>1, SoleTypes
  <2>3. seenSignature[w][s] = Count(s) /\ seenPayload[w][s] = Len(payload[s])
    BY <2>1 DEF SoleInv, Abreast
  <2>4. Len(payload[s]) = Count(s) /\ \A i \in 1 .. Count(s) : signature[s][i].seen = i
    BY <2>1 DEF SoleInv, Paired
  <2> QED  BY <2>1, <2>2, <2>3, <2>4
<1>2. PICK i \in seenSignature[w][s] .. Count(s) :
        /\ sig' = [sig EXCEPT ![w] = signature[s][i].word]
        /\ seenSignature' = [seenSignature EXCEPT ![w][s] = i]
        /\ seenPayload' = [seenPayload EXCEPT ![w][s] = Larger(@, signature[s][i].seen)]
  BY DEF LoadSignature, Count
<1>3. i = Count(s)
  BY <1>1, <1>2
<1>4. /\ UNCHANGED <<payload, signature, call, slot, kept>>
      /\ pc' = [pc EXCEPT ![w] = "payload"]
  BY DEF LoadSignature, Goto, table, choice
<1> HIDE DEF s
<1>5. seenSignature' = [seenSignature EXCEPT ![w][s] = Count(s)]
  BY <1>2, <1>3
<1>6. seenPayload' = [seenPayload EXCEPT ![w][s] = Len(payload[s])]
  BY <1>1, <1>2, <1>3 DEF Larger
<1>7. \A t \in Slot : seenPayload'[w][t] = Len(payload[t]) /\ seenSignature'[w][t] = Count(t)
  BY <1>5, <1>6 DEF SoleInv, Abreast, TypeInv, TypeOK
<1>8. /\ pc'[w] = "payload" /\ \A v \in Worker \ {w} : pc'[v] = pc[v] /\ call'[v] = call[v]
      /\ sig'[w] = signature[s][Count(s)].word
  BY <1>2, <1>3, <1>4 DEF TypeInv, TypeOK
<1>9. Abreast(w)' /\ Paired(w)' /\ OneKeyEach' /\ Follows'
  BY <1>1, <1>4, <1>7, <1>8, MemoryKept
<1>10. Scanned(w)'
  BY <1>1, <1>4, <1>8, SameMemory DEF SoleInv, Scanned, s
<1>11. Chosen(w)' /\ StoreFound(w)'
  BY <1>8 DEF Chosen, StoreFound
<1> QED  BY <1>9, <1>10, <1>11 DEF SoleInv

LEMMA LoadPayloadSole ==
  ASSUME TypeInv, Histories, NEW w \in Worker, SoleInv(w), LoadPayload(w)
  PROVE  SoleInv(w)'
<1> DEFINE s == slot[w]
<1>1. /\ s \in Slot /\ Count(s) \in Nat \ {0}
      /\ seenPayload[w][s] = Len(payload[s]) /\ Len(payload[s]) = Count(s)
      /\ pc[w] = "payload" /\ sig[w] = signature[s][Count(s)].word
  <2>1. s \in Slot /\ pc[w] = "payload"
    BY DEF LoadPayload, TypeInv, TypeOK
  <2>2. Count(s) \in Nat \ {0}
    BY <2>1, SoleTypes
  <2> QED  BY <2>1, <2>2 DEF SoleInv, Abreast, Paired, Scanned
<1>2. PICK i \in seenPayload[w][s] .. Len(payload[s]) :
        /\ word' = [word EXCEPT ![w] = payload[s][i]]
        /\ seenPayload' = [seenPayload EXCEPT ![w][s] = i]
  BY DEF LoadPayload
<1>3. i = Count(s)
  BY <1>1, <1>2
<1>4. /\ UNCHANGED <<payload, signature, call, slot, sig, kept, seenSignature>>
      /\ pc' = [pc EXCEPT ![w] = "after"]
  BY DEF LoadPayload, Goto, table, choice
<1> HIDE DEF s
<1>5. \A t \in Slot : seenPayload'[w][t] = Len(payload[t]) /\ seenSignature'[w][t] = Count(t)
  BY <1>1, <1>2, <1>3, <1>4 DEF SoleInv, Abreast, TypeInv, TypeOK
<1>6. /\ pc'[w] = "after" /\ \A v \in Worker \ {w} : pc'[v] = pc[v] /\ call'[v] = call[v]
      /\ word'[w] = payload[s][Count(s)]
  BY <1>2, <1>3, <1>4 DEF TypeInv, TypeOK
<1>7. Abreast(w)' /\ Paired(w)' /\ OneKeyEach' /\ Follows'
  BY <1>1, <1>4, <1>5, <1>6, MemoryKept
<1>8. Scanned(w)'
  BY <1>1, <1>4, <1>6, SameMemory DEF SoleInv, Scanned, s
<1>9. Chosen(w)' /\ StoreFound(w)'
  BY <1>6 DEF Chosen, StoreFound
<1> QED  BY <1>7, <1>8, <1>9 DEF SoleInv

\* The end of the body of either loop: on to the next entry, to write, or out.
LEMMA LoadSignatureAgainSole ==
  ASSUME TypeInv, Histories, NEW w \in Worker, SoleInv(w), LoadSignatureAgain(w)
  PROVE  SoleInv(w)'
<1> DEFINE s == slot[w]
           x == signature[s][Count(s)].word
           k == call[w].key
<1>1. /\ s \in Slot /\ Count(s) \in Nat \ {0}
      /\ seenSignature[w][s] = Count(s) /\ seenPayload[w][s] = Len(payload[s])
      /\ Len(payload[s]) = Count(s) /\ signature[s][Count(s)].seen = Count(s)
      /\ pc[w] = "after" /\ kept[w] = NoRecord
      /\ \A t \in Slot : t < s => ~HasKey(t, k)
  <2>1. s \in Slot /\ pc[w] = "after"
    BY DEF LoadSignatureAgain, TypeInv, TypeOK
  <2>2. Count(s) \in Nat \ {0}
    BY <2>1, SoleTypes
  <2>3. seenSignature[w][s] = Count(s) /\ seenPayload[w][s] = Len(payload[s])
    BY <2>1 DEF SoleInv, Abreast
  <2>4. Len(payload[s]) = Count(s) /\ \A i \in 1 .. Count(s) : signature[s][i].seen = i
    BY <2>1 DEF SoleInv, Paired
  <2>5. kept[w] = NoRecord /\ \A t \in Slot : t < s => ~HasKey(t, k)
    BY <2>1 DEF SoleInv, Scanned
  <2> QED  BY <2>1, <2>2, <2>3, <2>4, <2>5
<1>2. PICK i \in seenSignature[w][s] .. Count(s) :
        /\ seenSignature' = [seenSignature EXCEPT ![w][s] = i]
        /\ seenPayload' = [seenPayload EXCEPT ![w][s] = Larger(@, signature[s][i].seen)]
        /\ IF call[w].op = "probe"
           THEN ProbeEntry(w, signature[s][i].word)
           ELSE StoreEntry(w, signature[s][i].word)
  BY DEF LoadSignatureAgain, Count
<1>3. i = Count(s)
  BY <1>1, <1>2
<1>4. UNCHANGED <<payload, signature, call>>
  BY DEF LoadSignatureAgain, table
<1>5. IF call[w].op = "probe" THEN ProbeEntry(w, x) ELSE StoreEntry(w, x)
  BY <1>2, <1>3
<1>6. /\ IsHit(w, x) <=> HasKey(s, k)
      /\ IsHit(w, x) => Unpack(word[w]) = RecordAt(s, Count(s))
  BY <1>1, Hit
<1> HIDE DEF s, x, k
<1>7. \A t \in Slot : seenPayload'[w][t] = Len(payload[t]) /\ seenSignature'[w][t] = Count(t)
  <2>1. seenSignature' = [seenSignature EXCEPT ![w][s] = Count(s)]
    BY <1>2, <1>3
  <2>2. seenPayload' = [seenPayload EXCEPT ![w][s] = Len(payload[s])]
    BY <1>1, <1>2, <1>3 DEF Larger
  <2> QED  BY <2>1, <2>2 DEF SoleInv, Abreast, TypeInv, TypeOK
<1>8. /\ pc'[w] # "writesignature"
      /\ \A v \in Worker \ {w} : pc'[v] = pc[v]
  BY <1>1, <1>5, EntryFrame
<1>9. Abreast(w)' /\ Paired(w)' /\ OneKeyEach' /\ Follows'
  BY <1>1, <1>4, <1>7, <1>8, MemoryKept
\* The three ways out of the body.
<1>10. ASSUME Finish(w), HasKey(s, k) \/ call[w].op = "probe" PROVE SoleInv(w)'
  <2>1. pc'[w] = "idle" /\ slot'[w] = 1 /\ kept'[w] = NoRecord
    BY <1>10 DEF Finish, Goto, TypeInv, TypeOK
  <2>2. Scanned(w)' /\ Chosen(w)'
    BY <2>1 DEF Scanned, Chosen
  <2>3. StoreFound(w)'
    BY <1>1, <1>4, <1>10, SameMemory DEF StoreFound, k
  <2> QED  BY <1>9, <2>2, <2>3 DEF SoleInv
<1>11. ASSUME ScanOn(w), NextEntry(w), kept' = kept, ~HasKey(s, k) PROVE SoleInv(w)'
  <2>1. pc'[w] = "before" /\ slot'[w] = s + 1 /\ kept'[w] = NoRecord
    BY <1>1, <1>11 DEF NextEntry, Goto, TypeInv, TypeOK, s
  <2>2. \A t \in Slot : t < s + 1 => ~HasKey(t, k)
    BY <1>1, <1>11 DEF Slot
  <2>3. Scanned(w)'
    BY <1>4, <2>1, <2>2, SameMemory DEF Scanned, k
  <2>4. Chosen(w)' /\ StoreFound(w)'
    BY <2>1 DEF Chosen, StoreFound
  <2> QED  BY <1>9, <2>3, <2>4 DEF SoleInv
<1>12. ASSUME pc'[w] = "writepayload",
              \A t \in Slot : t # target'[w] => ~HasKey(t, k),
              HasKey(target'[w], k) => /\ kept'[w] = RecordAt(target'[w], Count(target'[w]))
                                       /\ ~MustKeep(w, kept'[w])
       PROVE SoleInv(w)'
  <2>1. Scanned(w)' /\ StoreFound(w)'
    BY <1>12 DEF Scanned, StoreFound
  <2>2. \A r : MustKeep(w, r)' <=> MustKeep(w, r)
    BY <1>4 DEF MustKeep
  <2>3. Chosen(w)'
    BY <1>4, <1>12, <2>2, SameMemory DEF Chosen, k
  <2> QED  BY <1>9, <2>1, <2>3 DEF SoleInv
<1>13. CASE call[w].op = "probe"
  BY <1>5, <1>6, <1>10, <1>11, <1>13 DEF ProbeEntry, choice
<1>14. CASE call[w].op # "probe"
  <2>1. CASE IsHit(w, x) /\ MustKeep(w, Unpack(word[w]))
    BY <1>5, <1>6, <1>10, <1>14, <2>1 DEF StoreEntry
  <2>2. CASE IsHit(w, x) /\ ~MustKeep(w, Unpack(word[w]))
    <3>1. /\ target' = [target EXCEPT ![w] = s] /\ kept' = [kept EXCEPT ![w] = Unpack(word[w])]
          /\ pc' = [pc EXCEPT ![w] = "writepayload"]
      BY <1>5, <1>14, <2>2 DEF StoreEntry, Goto, s
    <3>2. /\ target'[w] = s /\ pc'[w] = "writepayload"
          /\ kept'[w] = RecordAt(s, Count(s)) /\ ~MustKeep(w, kept'[w])
      BY <1>6, <2>2, <3>1 DEF TypeInv, TypeOK
    <3>3. \A t \in Slot : t # s => ~HasKey(t, k)
      <4>1. HasKey(s, k)
        BY <1>6, <2>2
      <4> QED  BY <1>1, <4>1 DEF SoleInv, OneKeyEach, HasKey
    <3> QED  BY <1>12, <3>2, <3>3
  <2>3. CASE ~IsHit(w, x)
    <3>1. /\ kept' = kept
          /\ IF ScanOn(w) THEN NextEntry(w) ELSE Goto(w, "writepayload")
      BY <1>5, <1>14, <2>3 DEF StoreEntry
    <3>2. CASE ScanOn(w)
      BY <1>6, <1>11, <2>3, <3>1, <3>2
    <3>3. CASE ~ScanOn(w)
      <4>1. \A t \in Slot : t = s \/ t < s
        BY <1>1, <3>3, TableAssumption DEF ScanOn, Slot, s
      <4>2. \A t \in Slot : ~HasKey(t, k)
        BY <1>1, <1>6, <2>3, <4>1
      <4>3. pc'[w] = "writepayload"
        BY <3>1, <3>3 DEF Goto, TypeInv, TypeOK
      <4>4. target'[w] \in Slot
        <5>1. target' = target \/ target' = [target EXCEPT ![w] = s]
          BY <1>5, <1>14, <2>3 DEF StoreEntry, s
        <5> QED  BY <1>1, <5>1 DEF TypeInv, TypeOK
      <4> QED  BY <1>12, <4>2, <4>3, <4>4
    <3> QED  BY <3>2, <3>3
  <2> QED  BY <2>1, <2>2, <2>3
<1> QED  BY <1>13, <1>14

LEMMA StorePayloadSole ==
  ASSUME TypeInv, Histories, NEW w \in Worker, SoleInv(w), StorePayload(w)
  PROVE  SoleInv(w)'
<1> DEFINE s == target[w]
           new == Pack[NewRecord(w)]
<1>1. /\ s \in Slot /\ pc[w] = "writepayload" /\ call[w] \in StoreCall
      /\ payload[s] \in Seq(Payloads \cup {Zero}) /\ Len(payload[s]) = Count(s)
      /\ Count(s) \in Nat \ {0}
  <2>1. s \in Slot /\ pc[w] = "writepayload" /\ call[w] \in StoreCall
    BY DEF StorePayload, TypeInv, TypeOK, Running
  <2>2. Len(payload[s]) = Count(s)
    BY <2>1 DEF SoleInv, Paired
  <2> QED  BY <2>1, <2>2, SoleTypes
<1>2. /\ payload' = [payload EXCEPT ![s] = Append(@, new)]
      /\ seenPayload' = [seenPayload EXCEPT ![w][s] = Len(payload[s]) + 1]
      /\ word' = [word EXCEPT ![w] = new]
      /\ pc' = [pc EXCEPT ![w] = "writesignature"]
      /\ UNCHANGED <<signature, generation, call, slot, target, kept, seenSignature>>
  BY DEF StorePayload, Goto, choice
<1> HIDE DEF s, new
<1>3. /\ pc'[w] = "writesignature" /\ word'[w] = new
      /\ \A v \in Worker \ {w} : pc'[v] = pc[v]
  BY <1>2 DEF TypeInv, TypeOK
<1>4. \A t \in Slot :
        /\ Len(payload'[t]) = IF t = s THEN Count(t) + 1 ELSE Count(t)
        /\ \A i \in 1 .. Count(t) : payload'[t][i] = payload[t][i]
        /\ t = s => payload'[t][Count(t) + 1] = new
  <2> SUFFICES ASSUME NEW t \in Slot
               PROVE  /\ Len(payload'[t]) = IF t = s THEN Count(t) + 1 ELSE Count(t)
                      /\ \A i \in 1 .. Count(t) : payload'[t][i] = payload[t][i]
                      /\ t = s => payload'[t][Count(t) + 1] = new
    OBVIOUS
  <2>1. CASE t = s
    <3>1. payload'[t] = Append(payload[s], new)
      BY <1>1, <1>2, <2>1 DEF TypeInv, TypeOK
    <3> QED  BY <1>1, <2>1, <3>1
  <2>2. CASE t # s
    <3>1. payload'[t] = payload[t]
      BY <1>2, <2>2 DEF TypeInv, TypeOK
    <3>2. Len(payload[t]) = Count(t)
      BY <1>1, <2>2 DEF SoleInv, Paired
    <3> QED  BY <2>2, <3>1, <3>2
  <2> QED  BY <2>1, <2>2
<1>5. /\ \A t : Count(t)' = Count(t)
      /\ \A t \in Slot : \A i \in 1 .. Count(t) : KeyAt(t, i)' = KeyAt(t, i) /\ RecordAt(t, i)' = RecordAt(t, i)
      /\ \A t \in Slot : \A k : HasKey(t, k)' <=> HasKey(t, k)
  <2>1. \A t : Count(t)' = Count(t)
    BY <1>2 DEF Count
  <2>2. \A t \in Slot : \A i \in 1 .. Count(t) : KeyAt(t, i)' = KeyAt(t, i) /\ RecordAt(t, i)' = RecordAt(t, i)
    BY <1>2, <1>4 DEF KeyAt, RecordAt
  <2>3. \A t \in Slot : Count(t) \in 1 .. Count(t)
    BY SoleTypes
  <2> QED  BY <2>1, <2>2, <2>3 DEF HasKey
<1>6. Abreast(w)'
  <2>1. \A t \in Slot : seenPayload'[w][t] = Len(payload'[t])
    BY <1>1, <1>2, <1>4 DEF SoleInv, Abreast, Paired, TypeInv, TypeOK
  <2> QED  BY <1>2, <1>3, <1>5, <2>1 DEF SoleInv, Abreast
<1>7. Paired(w)'
  <2>1. \A t \in Slot : 1 \in 1 .. Count(t) /\ \A i \in 2 .. Count(t) : i \in 1 .. Count(t)
    BY SoleTypes
  <2> QED  BY <1>2, <1>3, <1>4, <1>5, <2>1 DEF SoleInv, Paired, s
<1>8. Scanned(w)' /\ StoreFound(w)'
  BY <1>3 DEF Scanned, StoreFound
<1>9. Chosen(w)'
  <2>1. NewRecord(w)' = NewRecord(w) /\ \A r : MustKeep(w, r)' <=> MustKeep(w, r)
    BY <1>2 DEF NewRecord, NewRecordOnly, MustKeep
  <2>2. Count(s) \in 1 .. Count(s)
    BY <1>1
  <2>3. /\ \A t \in Slot : t # s => ~HasKey(t, call[w].key)
        /\ HasKey(s, call[w].key) => kept[w] = RecordAt(s, Count(s)) /\ ~MustKeep(w, kept[w])
    BY <1>1 DEF SoleInv, Chosen, s
  <2>4. UNCHANGED <<call, target, kept>> /\ target'[w] = s
    BY <1>2 DEF s
  <2>5. word'[w] = Pack[NewRecord(w)'] /\ word'[w] = payload'[s][Count(s) + 1]
    BY <1>1, <1>3, <1>4, <2>1 DEF new
  <2> QED  BY <1>1, <1>5, <2>1, <2>2, <2>3, <2>4, <2>5 DEF Chosen
<1>10. OneKeyEach' /\ Follows'
  <2>1. \A t \in Slot : /\ Count(t) \in 1 .. Count(t)
                        /\ \A i \in 2 .. Count(t) - 1 : i \in 1 .. Count(t) /\ i + 1 \in 1 .. Count(t)
    BY SoleTypes
  <2> QED  BY <1>5, <2>1 DEF SoleInv, OneKeyEach, Follows
<1> QED  BY <1>6, <1>7, <1>8, <1>9, <1>10 DEF SoleInv

\* A signature yields the key it was made of.
LEMMA Recovered == ASSUME NEW k, NEW p PROVE RecoverKey(MakeSignature(k, p), p) = k
<1>1. ASSUME NEW b PROVE b \in RecoverKey(MakeSignature(k, p), p) <=> b \in k
  BY DEF RecoverKey, MakeSignature, Xor
<1> QED  BY <1>1

\* The record a store writes may follow the one it replaces.
LEMMA NewRecordFollows ==
  ASSUME TypeInv, NEW w \in Worker, call[w] \in StoreCall, NEW old \in Record, kept[w] = old, ~MustKeep(w, old)
  PROVE  MayFollow(old, NewRecord(w))
<1>1. /\ NewRecord(w).bound = call[w].bound /\ NewRecord(w).depth = call[w].depth
      /\ NewRecord(w).move = IF call[w].move = NullMove /\ old # NoRecord THEN old.move ELSE call[w].move
  BY DEF NewRecord, NewRecordOnly
<1>2. old # NoRecord
  BY NoRecordIsNone
<1>3. old.depth \in Nat /\ call[w].depth \in Nat
  BY TableAssumption DEF Record, StoreCall
<1> QED  BY <1>1, <1>2, <1>3 DEF MayFollow, MustKeep

LEMMA StoreSignatureSole ==
  ASSUME TypeInv, Histories, NEW w \in Worker, SoleInv(w), StoreSignature(w)
  PROVE  SoleInv(w)'
<1>0. PICK s, k, n, new : /\ s = target[w] /\ k = call[w].key /\ n = Count(s)
                          /\ new = [word |-> MakeSignature(k, word[w]), seen |-> seenPayload[w][s]]
  OBVIOUS
<1>1. /\ s \in Slot /\ pc[w] = "writesignature" /\ call[w] \in StoreCall
      /\ signature[s] \in Seq(Written) /\ n \in Nat \ {0} /\ n = Len(signature[s])
      /\ Len(payload[s]) = n + 1 /\ seenPayload[w][s] = n + 1
      /\ word[w] = payload[s][n + 1] /\ word[w] = Pack[NewRecord(w)]
  <2>1. s \in Slot /\ pc[w] = "writesignature" /\ call[w] \in StoreCall
    BY <1>0 DEF StoreSignature, TypeInv, TypeOK, Running
  <2>2. Len(payload[s]) = n + 1
    BY <1>0, <2>1 DEF SoleInv, Paired
  <2>3. seenPayload[w][s] = n + 1
    BY <2>1, <2>2 DEF SoleInv, Abreast
  <2>4. word[w] = payload[s][n + 1] /\ word[w] = Pack[NewRecord(w)]
    BY <1>0, <2>1 DEF SoleInv, Chosen
  <2> QED  BY <1>0, <2>1, <2>2, <2>3, <2>4, SoleTypes DEF Count
<1>2. NewRecord(w) \in Record /\ word[w] \in Payloads /\ Unpack(word[w]) = NewRecord(w) /\ k \in Keys
  <2>1. NewRecord(w) \in Record
    BY <1>1, RecordTypes DEF TypeInv
  <2> QED  BY <1>0, <1>1, <2>1, UnpackPack DEF Payloads, StoreCall
<1>3. /\ signature' = [signature EXCEPT ![s] = Append(@, new)]
      /\ seenSignature' = [seenSignature EXCEPT ![w][s] = Len(signature[s]) + 1]
      /\ Finish(w)
      /\ UNCHANGED <<payload, generation, call, seenPayload>>
  BY <1>0 DEF StoreSignature
<1>4. /\ new.word = MakeSignature(k, word[w]) /\ new.seen = n + 1
  BY <1>0, <1>1
<1>5. /\ pc'[w] = "idle" /\ slot'[w] = 1 /\ kept'[w] = NoRecord
      /\ \A v \in Worker \ {w} : pc'[v] = pc[v]
  BY <1>3 DEF Finish, Goto, TypeInv, TypeOK
<1>6. /\ signature'[s] = Append(signature[s], new)
      /\ \A t \in Slot : t # s => signature'[t] = signature[t]
  BY <1>1, <1>3 DEF TypeInv, TypeOK
<1>7. /\ Count(s)' = n + 1 /\ signature'[s][n + 1] = new
      /\ \A i \in 1 .. n : signature'[s][i] = signature[s][i]
  BY <1>0, <1>1, <1>6 DEF Count
<1>8. /\ \A t \in Slot : t # s => Count(t)' = Count(t)
      /\ \A t \in Slot : \A i \in 1 .. Count(t) : signature'[t][i] = signature[t][i]
  BY <1>0, <1>6, <1>7 DEF Count
<1>9. /\ \A t \in Slot : \A i \in 1 .. Count(t) : KeyAt(t, i)' = KeyAt(t, i)
      /\ \A t, i : RecordAt(t, i)' = RecordAt(t, i)
      /\ KeyAt(s, n + 1)' = k
      /\ RecordAt(s, n + 1)' = NewRecord(w)
  <2>1. KeyAt(s, n + 1)' = RecoverKey(MakeSignature(k, word[w]), word[w])
    BY <1>1, <1>3, <1>4, <1>7 DEF KeyAt
  <2> QED  BY <1>1, <1>2, <1>3, <1>8, <2>1, Recovered DEF KeyAt, RecordAt
<1>10. /\ \A l : HasKey(s, l)' <=> l = k
       /\ \A t \in Slot : \A l : t # s => (HasKey(t, l)' <=> HasKey(t, l))
  <2>1. \A l : HasKey(s, l)' <=> l = k
    BY <1>1, <1>7, <1>9 DEF HasKey
  <2>2. \A t \in Slot : Count(t) \in 1 .. Count(t)
    BY SoleTypes
  <2>3. \A t \in Slot : \A l : t # s => (HasKey(t, l)' <=> HasKey(t, l))
    BY <1>8, <1>9, <2>2 DEF HasKey
  <2> QED  BY <2>1, <2>3
<1>11. /\ \A t \in Slot : t # s => ~HasKey(t, k)
       /\ HasKey(s, k) => kept[w] = RecordAt(s, n) /\ ~MustKeep(w, kept[w])
  BY <1>0, <1>1 DEF SoleInv, Chosen
<1>12. Abreast(w)'
  <2>1. \A t \in Slot : seenSignature'[w][t] = Count(t)'
    BY <1>1, <1>3, <1>7, <1>8 DEF SoleInv, Abreast, TypeInv, TypeOK
  <2> QED  BY <1>3, <1>5, <2>1 DEF SoleInv, Abreast
<1>13. Paired(w)'
  <2> SUFFICES ASSUME NEW t \in Slot
               PROVE  /\ Len(payload[t]) = Count(t)' /\ payload[t][1] = Zero
                      /\ \A i \in 1 .. Count(t)' : signature'[t][i].seen = i
                      /\ \A i \in 2 .. Count(t)' : payload[t][i] \in Payloads /\ KeyAt(t, i)' \in Keys
    BY <1>3, <1>5 DEF Paired
  <2>1. /\ payload[t][1] = Zero
        /\ \A i \in 1 .. Count(t) : signature[t][i].seen = i
        /\ \A i \in 2 .. Count(t) : i \in 1 .. Count(t) /\ payload[t][i] \in Payloads /\ KeyAt(t, i) \in Keys
    BY SoleTypes DEF SoleInv, Paired
  <2>2. CASE t # s
    <3>1. Len(payload[t]) = Count(t)
      BY <1>0, <1>1, <2>2 DEF SoleInv, Paired
    <3> QED  BY <1>8, <1>9, <2>1, <2>2, <3>1
  <2>3. CASE t = s
    <3>1. \A i \in 1 .. n + 1 : i = n + 1 \/ i \in 1 .. n
      BY <1>1
    <3>2. \A i \in 2 .. n + 1 : i = n + 1 \/ i \in 2 .. n
      BY <1>1
    <3>3. n = Count(t)
      BY <1>0, <2>3
    <3>4. \A i \in 1 .. n + 1 : signature'[s][i].seen = i
      BY <1>4, <1>7, <2>1, <2>3, <3>1, <3>3
    <3>5. \A i \in 2 .. n + 1 : payload[s][i] \in Payloads /\ KeyAt(s, i)' \in Keys
      BY <1>1, <1>2, <1>9, <2>1, <2>3, <3>2, <3>3
    <3> QED  BY <1>1, <1>7, <2>1, <2>3, <3>4, <3>5
  <2> QED  BY <2>2, <2>3
<1>14. Scanned(w)' /\ Chosen(w)'
  BY <1>5 DEF Scanned, Chosen
<1>15. OneKeyEach'
  <2> SUFFICES ASSUME NEW t \in Slot, NEW u \in Slot, t # u, Count(t)' > 1,
                      NEW l, l = KeyAt(t, Count(t))'
               PROVE  ~HasKey(u, l)'
    BY DEF OneKeyEach, HasKey
  <2>1. CASE t = s
    <3>1. l = k
      BY <1>7, <1>9, <2>1 DEF KeyAt
    <3> QED  BY <1>10, <1>11, <2>1, <3>1
  <2>2. CASE t # s
    <3>1. Count(t)' = Count(t) /\ Count(t) \in 1 .. Count(t)
      BY <1>8, <2>2, SoleTypes
    <3>2. KeyAt(t, Count(t))' = KeyAt(t, Count(t))
      BY <1>9, <3>1 DEF KeyAt
    <3>3. HasKey(t, l) /\ ~HasKey(u, l)
      BY <3>1, <3>2 DEF HasKey, SoleInv, OneKeyEach
    <3>4. CASE u = s
      BY <1>10, <1>11, <2>2, <3>3, <3>4
    <3>5. CASE u # s
      BY <1>10, <3>3, <3>5
    <3> QED  BY <3>4, <3>5
  <2> QED  BY <2>1, <2>2
<1>16. StoreFound(w)'
  <2>1. HasKey(s, k)'
    BY <1>10
  <2> QED  BY <1>0, <1>1, <1>3, <2>1 DEF StoreFound
<1>17. Follows'
  <2> SUFFICES ASSUME NEW t \in Slot, NEW i \in 2 .. Count(t)' - 1, KeyAt(t, i)' = KeyAt(t, i + 1)'
               PROVE  MayFollow(RecordAt(t, i), RecordAt(t, i + 1))'
    BY DEF Follows
  <2>1. CASE i \in 2 .. Count(t) - 1
    <3>1. i \in 1 .. Count(t) /\ i + 1 \in 1 .. Count(t)
      BY <2>1, SoleTypes
    <3>2. KeyAt(t, i) = KeyAt(t, i + 1)
      BY <1>9, <3>1
    <3>3. MayFollow(RecordAt(t, i), RecordAt(t, i + 1))
      BY <2>1, <3>2 DEF SoleInv, Follows
    <3> QED  BY <1>9, <3>3 DEF MayFollow
  <2>2. CASE i \notin 2 .. Count(t) - 1
    <3>1. t = s /\ i = n
      <4>1. t = s
        BY <1>8, <2>2
      <4>2. Count(t)' = n + 1 /\ Count(t) = n /\ n \in Nat
        BY <1>0, <1>1, <1>7, <4>1
      <4>3. i \in 2 .. n + 1 - 1 /\ i \notin 2 .. n - 1
        BY <2>2, <4>2
      <4> QED  BY <4>1, <4>2, <4>3
    <3>2. n > 1 /\ n \in 2 .. Count(s) /\ n \in 1 .. Count(s)
      BY <1>0, <1>1, <1>7, <3>1
    <3>3. KeyAt(s, n) = k
      BY <1>9, <3>1, <3>2
    <3>4. HasKey(s, k)
      BY <1>0, <3>2, <3>3 DEF HasKey
    <3>5. RecordAt(s, n) \in Record
      <4>1. payload[s][n] \in Payloads
        BY <1>1, <3>2 DEF SoleInv, Paired
      <4> QED  BY <4>1, UnpackType DEF RecordAt
    <3>6. MayFollow(RecordAt(s, n), NewRecord(w))
      BY <1>1, <1>11, <3>4, <3>5, NewRecordFollows
    <3> QED  BY <1>9, <3>1, <3>6 DEF MayFollow
  <2> QED  BY <2>1, <2>2
<1> QED  BY <1>12, <1>13, <1>14, <1>15, <1>16, <1>17 DEF SoleInv

LEMMA AdvanceGenerationSole ==
  ASSUME TypeInv, Histories, NEW w \in Worker, SoleInv(w), AdvanceGeneration
  PROVE  SoleInv(w)'
<1>1. /\ UNCHANGED <<payload, signature, pc, call, slot, kept>> /\ pc[w] = "idle"
      /\ seenPayload' = SeenAll(payload) /\ seenSignature' = SeenAll(signature)
  BY DEF AdvanceGeneration, Quiet, locals, choice
<1>2. \A s \in Slot : seenPayload'[w][s] = Len(payload[s]) /\ seenSignature'[w][s] = Count(s)
  BY <1>1 DEF SeenAll, Count
<1>3. Abreast(w)' /\ Paired(w)' /\ OneKeyEach' /\ Follows'
  BY <1>1, <1>2, MemoryKept
<1>4. Scanned(w)' /\ Chosen(w)'
  BY <1>1 DEF SoleInv, Scanned, Chosen
<1>5. StoreFound(w)'
  BY <1>1, SameMemory DEF SoleInv, StoreFound
<1> QED  BY <1>3, <1>4, <1>5 DEF SoleInv

\* An empty table, before any call.
LEMMA EmptySole ==
  ASSUME NEW w \in Worker, payload = EmptyPayload, signature = EmptySignature,
         seenPayload = SeenAll(EmptyPayload), seenSignature = SeenAll(EmptySignature),
         call = [v \in Worker |-> NoCall], \A v \in Worker : pc[v] = "idle",
         slot[w] = 1, kept[w] = NoRecord
  PROVE  SoleInv(w)
<1>1. \A s \in Slot : /\ payload[s] = <<Zero>> /\ signature[s] = <<[word |-> Zero, seen |-> 1]>>
                      /\ Len(payload[s]) = 1 /\ Count(s) = 1
  BY DEF EmptyPayload, EmptySignature, Count
<1>2. \A s \in Slot : seenPayload[w][s] = 1 /\ seenSignature[w][s] = 1
  BY DEF SeenAll, EmptyPayload, EmptySignature
<1>3. Abreast(w)
  BY <1>1, <1>2 DEF Abreast
<1>4. Paired(w)
  <2>1. \A i \in 1 .. 1 : i = 1
    OBVIOUS
  <2>2. \A i \in 2 .. 1 : FALSE
    OBVIOUS
  <2>3. \A s \in Slot : payload[s][1] = Zero /\ signature[s][1].seen = 1
    BY <1>1
  <2>4. pc[w] # "writesignature"
    OBVIOUS
  <2> QED  BY <1>1, <2>1, <2>2, <2>3, <2>4 DEF Paired
<1>5. Scanned(w) /\ Chosen(w)
  BY DEF Scanned, Chosen
<1>6. OneKeyEach /\ Follows
  <2>1. \A i \in 2 .. 1 - 1 : FALSE
    OBVIOUS
  <2> QED  BY <1>1, <2>1 DEF OneKeyEach, Follows
<1>7. StoreFound(w)
  BY DEF StoreFound, NoCall
<1> QED  BY <1>3, <1>4, <1>5, <1>6, <1>7 DEF SoleInv

LEMMA SoleInit ==
  ASSUME Init, NEW w \in Worker PROVE SoleInv(w)
<1>1. /\ payload = EmptyPayload /\ signature = EmptySignature
      /\ seenPayload = SeenAll(EmptyPayload) /\ seenSignature = SeenAll(EmptySignature)
      /\ call = [v \in Worker |-> NoCall]
  BY DEF Init
<1>2. (\A v \in Worker : pc[v] = "idle") /\ slot[w] = 1 /\ kept[w] = NoRecord
  BY DEF Init
<1> QED  BY <1>1, <1>2, EmptySole

LEMMA SoleStep ==
  ASSUME TypeInv, Histories, [Next]_vars, NEW w \in Worker, crew = {w}, SoleInv(w)
  PROVE  SoleInv(w)'
<1>1. CASE UNCHANGED vars
  BY <1>1 DEF vars, table, locals, choice, seen, SoleInv, Abreast, Paired, Scanned, Chosen, OneKeyEach,
     StoreFound, Follows, Count, KeyAt, RecordAt, HasKey, NewRecord, NewRecordOnly, MustKeep
<1>2. ASSUME NEW k \in Keys, BeginProbe(w, k) PROVE SoleInv(w)'
  <2>1. [op |-> "probe", key |-> k] \in ProbeCall
    BY DEF ProbeCall
  <2> QED  BY <1>2, <2>1, BeginSole DEF BeginProbe
<1>3. ASSUME NEW k \in Keys, NEW m \in Moves \cup {NullMove}, NEW d \in Depths, NEW b \in Bounds,
             BeginStore(w, k, m, d, b)
      PROVE SoleInv(w)'
  <2>1. [op |-> "store", key |-> k, move |-> m, depth |-> d, bound |-> b] \in StoreCall
    BY DEF StoreCall
  <2> QED  BY <1>3, <2>1, BeginSole DEF BeginStore
<1>4. ASSUME Step(w) PROVE SoleInv(w)'
  BY <1>4, LoadSignatureSole, LoadPayloadSole, LoadSignatureAgainSole, StorePayloadSole,
     StoreSignatureSole DEF Step
<1>5. CASE AdvanceGeneration
  BY <1>5, AdvanceGenerationSole
<1>6. ASSUME Clear PROVE SoleInv(w)'
  <2>1. /\ payload' = EmptyPayload /\ signature' = EmptySignature
        /\ seenPayload' = SeenAll(EmptyPayload) /\ seenSignature' = SeenAll(EmptySignature)
        /\ call' = [v \in Worker |-> NoCall] /\ UNCHANGED <<pc, slot, kept>>
        /\ \A v \in Worker : pc[v] = "idle"
    BY <1>6 DEF Clear, Quiet, locals, choice
  <2>2. slot[w] = 1 /\ kept[w] = NoRecord
    BY <2>1 DEF SoleInv, Scanned
  <2>3. /\ EmptyPayload' = EmptyPayload /\ EmptySignature' = EmptySignature
        /\ SeenAll(EmptyPayload)' = SeenAll(EmptyPayload)
        /\ SeenAll(EmptySignature)' = SeenAll(EmptySignature)
    BY DEF EmptyPayload, EmptySignature, SeenAll
  <2>4. \A s \in Slot : /\ payload'[s] = <<Zero>> /\ signature'[s] = <<[word |-> Zero, seen |-> 1]>>
                        /\ Len(payload'[s]) = 1 /\ Count(s)' = 1
                        /\ seenPayload'[w][s] = 1 /\ seenSignature'[w][s] = 1
    BY <2>1 DEF EmptyPayload, EmptySignature, Count, SeenAll
  <2>5. Abreast(w)'
    BY <2>1, <2>4 DEF Abreast
  <2>6. Paired(w)'
    <3>1. \A i \in 1 .. 1 : i = 1
      OBVIOUS
    <3>2. \A i \in 2 .. 1 : FALSE
      OBVIOUS
    <3>3. \A s \in Slot : payload'[s][1] = Zero /\ signature'[s][1].seen = 1
      BY <2>4
    <3>4. pc'[w] # "writesignature"
      BY <2>1
    <3> QED  BY <2>4, <3>1, <3>2, <3>3, <3>4 DEF Paired
  <2>7. Scanned(w)' /\ Chosen(w)'
    BY <2>1, <2>2 DEF Scanned, Chosen
  <2>8. OneKeyEach' /\ Follows'
    <3>1. \A i \in 2 .. 1 - 1 : FALSE
      OBVIOUS
    <3> QED  BY <2>4, <3>1 DEF OneKeyEach, Follows
  <2>9. StoreFound(w)'
    BY <2>1 DEF StoreFound, NoCall
  <2> QED  BY <2>5, <2>6, <2>7, <2>8, <2>9 DEF SoleInv
<1> QED  BY <1>1, <1>2, <1>3, <1>4, <1>5, <1>6 DEF Next

-----------------------------------------------------------------------------
(* The theorems.                                                           *)

\* The inductive invariant.
IInv == TypeInv /\ Histories /\ GenuineInv /\ \A w \in Worker : crew = {w} => SoleInv(w)

\* It is one.
THEOREM TableInvariant == Spec => []IInv
<1>1. Init => IInv
  <2>1. ASSUME Init PROVE GenuineInv
    <3>1. \A s \in Slot : \A i \in 1 .. Len(signature[s]) : signature[s][i].word = Zero
      BY <2>1 DEF Init, EmptySignature
    <3>2. \A w \in Worker : pc[w] = "idle" /\ answer[w] = NoRecord
      BY <2>1 DEF Init
    <3> QED  BY <3>1, <3>2 DEF GenuineInv, SignaturesGenuine, SignsPublished, ProbeIsGenuine, Genuine
  <2> QED  BY <2>1, InitTypes, HistoriesStep, SoleInit DEF IInv
<1>2. IInv /\ [Next]_vars => IInv'
  <2> SUFFICES ASSUME IInv, [Next]_vars PROVE IInv'
    OBVIOUS
  <2>1. crew' = crew
    BY DEF Next, vars
  <2>2. ASSUME NEW w \in Worker, crew' = {w} PROVE SoleInv(w)'
    BY <2>1, <2>2, SoleStep DEF IInv
  <2>3. TypeInv' /\ Histories' /\ GenuineInv'
    BY TypesStep, HistoriesStep, GenuineStep DEF IInv, GenuineInv
  <2> QED  BY <2>2, <2>3 DEF IInv
<1> QED  BY <1>1, <1>2, PTL DEF Spec

\* The variables of the table and of its callers keep their types.
THEOREM TableTypes == Spec => []TypeOK
<1>1. IInv => TypeOK
  BY DEF IInv, TypeInv
<1> QED  BY <1>1, TableInvariant, PTL

\* Whatever the number of threads, keys and entries, and however old the words are
\* that a thread reads, a probe of tt.cpp returns a miss or a record stored whole
\* for its key: no two stores' words are ever believed together.
THEOREM ProbesAreGenuine == Spec => []ProbeIsGenuine
<1>1. IInv => ProbeIsGenuine
  BY DEF IInv, GenuineInv
<1> QED  BY <1>1, TableInvariant, PTL

\* What a thread alone knows of its entries is what a reader finds in memory.
LEMMA SoleReads ==
  ASSUME TypeInv, Histories, NEW w \in Worker, SoleInv(w)
  PROVE  /\ pc[w] = "idle" => \A s \in Slot : /\ Holds(s) <=> Count(s) > 1
                                             /\ KeyOf(s) = KeyAt(s, Count(s))
         /\ \A s \in Slot : \A i \in 1 .. Count(s) :
              Stored(s, i).key = KeyAt(s, i) /\ Stored(s, i).record = RecordAt(s, i)
<1>1. ASSUME NEW s \in Slot, pc[w] = "idle" PROVE (Holds(s) <=> Count(s) > 1) /\ KeyOf(s) = KeyAt(s, Count(s))
  <2>1. /\ Len(payload[s]) = Count(s) /\ payload[s][1] = Zero
        /\ \A i \in 2 .. Count(s) : payload[s][i] \in Payloads
    BY <1>1 DEF SoleInv, Paired
  <2>2. Count(s) \in Nat \ {0} /\ Zero \notin Payloads
    BY SoleTypes, PackAssumption
  <2>3. payload[s][Count(s)] \in Payloads <=> Count(s) > 1
    <3>1. CASE Count(s) = 1
      BY <2>1, <2>2, <3>1
    <3>2. CASE Count(s) > 1
      BY <2>1, <2>2, <3>2
    <3> QED  BY <2>2, <3>1, <3>2
  <2>4. Holds(s) <=> Count(s) > 1
    BY <2>1, <2>3 DEF Holds, Last
  <2>5. KeyOf(s) = KeyAt(s, Count(s))
    BY <2>1 DEF KeyOf, Last, KeyAt, Count
  <2> QED  BY <2>4, <2>5
<1>2. ASSUME NEW s \in Slot, NEW i \in 1 .. Count(s)
      PROVE  Stored(s, i).key = KeyAt(s, i) /\ Stored(s, i).record = RecordAt(s, i)
  <2>1. signature[s][i].seen = i
    BY DEF SoleInv, Paired
  <2> QED  BY <2>1 DEF Stored, KeyAt, RecordAt
<1> QED  BY <1>1, <1>2

\* For any number of keys, entries, stores and searches, as long as one thread works
\* on the cluster: TranspositionTable::store keeps one entry per key, what it stored is
\* found, and a key loses neither its deeper record nor its move.
THEOREM ReplacementStaysSound == Spec => []ReplacementIsSound
<1>1. IInv => ReplacementIsSound
  <2> SUFFICES ASSUME IInv, NEW w \in Worker, crew = {w}
               PROVE  OneEntryPerKey /\ StoreIsFound /\ KeepsDepthAndMove
    BY DEF ReplacementIsSound, Alone
  <2>1. TypeInv /\ Histories /\ SoleInv(w)
    BY DEF IInv
  <2>2. OneEntryPerKey
    BY <2>1, SoleReads DEF OneEntryPerKey, Quiet, SoleInv, OneKeyEach, HasKey
  <2>3. StoreIsFound
    <3> SUFFICES ASSUME Quiet, NEW v \in Worker, call[v].op = "store"
                 PROVE  \E s \in Slot : Holds(s) /\ KeyOf(s) = call[v].key
      BY DEF StoreIsFound
    <3>1. v = w
      BY <2>1 DEF SoleInv, Abreast, NoCall
    <3>2. pc[w] = "idle"
      BY DEF Quiet
    <3>3. PICK s \in Slot : HasKey(s, call[w].key)
      BY <2>1, <3>1, <3>2 DEF SoleInv, StoreFound
    <3> QED  BY <2>1, <3>1, <3>2, <3>3, SoleReads DEF HasKey
  <2>4. KeepsDepthAndMove
    <3> SUFFICES ASSUME NEW s \in Slot, NEW i \in 1 .. Len(signature[s]), Refreshed(s, i)
                 PROVE  MayFollow(Stored(s, i).record, Stored(s, i + 1).record)
      BY DEF KeepsDepthAndMove, MayFollow
    <3>1. Count(s) = Len(signature[s]) /\ Count(s) \in Nat
      BY <2>1, SoleTypes DEF Count
    <3>2. i > 1 /\ i < Len(signature[s]) /\ Stored(s, i).key = Stored(s, i + 1).key
      BY DEF Refreshed
    <3>3. i \in 2 .. Count(s) - 1 /\ i \in 1 .. Count(s) /\ i + 1 \in 1 .. Count(s)
      BY <3>1, <3>2
    <3>4. KeyAt(s, i) = KeyAt(s, i + 1)
      BY <2>1, <3>2, <3>3, SoleReads
    <3>5. MayFollow(RecordAt(s, i), RecordAt(s, i + 1))
      BY <2>1, <3>3, <3>4 DEF SoleInv, Follows
    <3> QED  BY <2>1, <3>3, <3>5, SoleReads
  <2> QED  BY <2>2, <2>3, <2>4
<1> QED  BY <1>1, TableInvariant, PTL
=============================================================================
