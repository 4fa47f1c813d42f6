----------------------------- MODULE BenchProofs -----------------------------
(* BenchClient: a row is of the search it labels, an answer is not lost, and *)
(* no engine is left behind; for any number of reports and every way in      *)
(* which the engine is late, refuses or dies.                                *)
EXTENDS BenchClient, SequenceTheorems, TLAPS

\* A line of the terminal
Plain == {"echo", "uciok", "readyok", "info string"}
Kinds == Plain \cup {"info", "bestmove"}
Printed == [kind : Kinds, depth : 0 .. MaxInfos]

\* Lines that the client writes
Commands == {Script[i] : i \in 1 .. Len(Script)}

\* How much of the script the engine has read: with seven lines, the go
Read == sent - Len(input)

Typed ==
  /\ TypeOK
  /\ input \in Seq(Commands) /\ output \in Seq(Printed)
  /\ raised \in {"none", "timeout", "closed", "expired"}

\* What the engine has not read is the rest of what was sent.
InputIsScript ==
  /\ Len(input) <= sent
  /\ \A i \in 1 .. Len(input) : input[i] = Script[Read + i]

IsInfo(line) == line.kind = "info"
IsMove(line) == line.kind = "bestmove"

\* There is one search: its reports come after the go, and its move after them all.
OneSearch ==
  /\ pc = "hello" => sent <= Len(Hello)
  /\ engine = "searching" => Read >= 7
  /\ Read < 7 => infos = 0
  /\ \A i \in 1 .. Len(output) : IsInfo(output[i]) => Read >= 7
  /\ \A i \in 1 .. Len(output) : IsMove(output[i]) =>
       /\ Read >= 7 /\ engine # "searching"
       /\ \A j \in 1 .. Len(output) : IsInfo(output[j]) => j < i

\* The last report is in the row already or is still to be read.
LastReport ==
  /\ \A i \in 1 .. Len(output) :
       (IsInfo(output[i]) /\ \A j \in 1 .. Len(output) : IsInfo(output[j]) => j <= i) => output[i].depth = infos
  /\ pc \in {"hello", "search"} /\ (\A i \in 1 .. Len(output) : ~IsInfo(output[i])) =>
       result.depth = infos

\* A row with a move has all of the search, and only the wait for the engine's end
\* can still fail.
RowIsWhole ==
  /\ result.bestmove => /\ Read >= 7 /\ engine # "searching" /\ result.depth = infos
                        /\ raised \in {"none", "expired"}
  /\ pc \in {"hello", "search"} => ~result.bestmove
  /\ pc \in {"hello", "search", "drain", "reap"} => raised = "none"

\* The outcome comes last, once the engine is gone.
Closing ==
  /\ (outcome # "none") <=> pc = "closed"
  /\ pc = "closed" =>
       /\ engine = "exited"
       /\ outcome = IF raised # "none" THEN raised ELSE IF result.bestmove THEN "result" ELSE "no bestmove"

BenchInv == Typed /\ InputIsScript /\ OneSearch /\ LastReport /\ RowIsWhole /\ Closing

-----------------------------------------------------------------------------
(* The script and the queues of lines.                                     *)

LEMMA Appended ==
  ASSUME NEW S, NEW q \in Seq(S), NEW e \in S
  PROVE  /\ Append(q, e) \in Seq(S) /\ Len(Append(q, e)) = Len(q) + 1
         /\ \A i \in 1 .. Len(q) : Append(q, e)[i] = q[i]
         /\ Append(q, e)[Len(q) + 1] = e
OBVIOUS

LEMMA Taken ==
  ASSUME NEW S, NEW q \in Seq(S), q # << >>
  PROVE  /\ Tail(q) \in Seq(S) /\ Len(Tail(q)) = Len(q) - 1 /\ Len(q) \in Nat \ {0}
         /\ \A i \in 1 .. Len(q) - 1 : Tail(q)[i] = q[i + 1]
         /\ Head(q) = q[1] /\ q[1] \in S
OBVIOUS

\* The go is the seventh line, and the handshake has four.
LEMMA ScriptIs ==
  /\ Len(Hello) = 4 /\ Len(Hello \o Search) = 7 /\ Len(Script) = 8
  /\ \A i \in 1 .. 8 : Script[i] \in Commands /\ (Script[i] = "go" => i = 7)
<1>1. Len(Hello) = 4 /\ Len(Search) = 3 /\ DOMAIN Hello = 1 .. 4 /\ DOMAIN Search = 1 .. 3
  BY DEF Hello, Search
<1>2. /\ Hello[1] = "uci" /\ Hello[2] = "threads" /\ Hello[3] = "hash" /\ Hello[4] = "isready"
      /\ Search[1] = "ucinewgame" /\ Search[2] = "position" /\ Search[3] = "go"
  BY DEF Hello, Search
<1> DEFINE T == {"uci", "threads", "hash", "isready", "ucinewgame", "position", "go", "quit"}
           HS == Hello \o Search
           q == <<"quit">>
<1>3. Hello \in Seq(T) /\ Search \in Seq(T)
  BY DEF Hello, Search
<1>4. q \in Seq(T) /\ Len(q) = 1 /\ q[1] = "quit"
  OBVIOUS
<1> HIDE DEF T, q
<1>5. /\ HS \in Seq(T) /\ Len(HS) = Len(Hello) + Len(Search)
      /\ \A i \in 1 .. Len(Hello) + Len(Search) :
           HS[i] = IF i <= Len(Hello) THEN Hello[i] ELSE Search[i - Len(Hello)]
  BY <1>3, ConcatProperties, Zenon
<1> HIDE DEF HS
<1>6. Len(HS) = 7 /\ \A i \in 1 .. 7 : HS[i] = IF i <= 4 THEN Hello[i] ELSE Search[i - 4]
  BY <1>1, <1>5
<1>7. /\ HS[1] = Hello[1] /\ HS[2] = Hello[2] /\ HS[3] = Hello[3] /\ HS[4] = Hello[4]
      /\ HS[5] = Search[1] /\ HS[6] = Search[2]
  <2>1. HS[5] = Search[5 - 4] /\ HS[6] = Search[6 - 4]
    BY <1>6
  <2>2. HS[1] = Hello[1] /\ HS[2] = Hello[2] /\ HS[3] = Hello[3] /\ HS[4] = Hello[4]
    BY <1>6
  <2> QED  BY <2>1, <2>2
<1> DEFINE HSq == HS \o q
<1>8. /\ Len(HSq) = Len(HS) + Len(q)
      /\ \A i \in 1 .. Len(HS) + Len(q) :
           HSq[i] = IF i <= Len(HS) THEN HS[i] ELSE q[i - Len(HS)]
  <2>1. HS \in Seq(T) /\ q \in Seq(T)
    BY <1>4, <1>5
  <2> QED  BY <2>1, ConcatProperties, Zenon
<1>9. Script = HSq
  BY Zenon DEF Script, HS, q
<1> HIDE DEF HSq
<1>10. Len(Script) = 8 /\ Script[8] = q[1] /\ \A i \in 1 .. 7 : Script[i] = HS[i]
  <2>1. Len(HSq) = 8 /\ \A i \in 1 .. 8 : HSq[i] = IF i <= 7 THEN HS[i] ELSE q[i - 7]
    BY <1>4, <1>6, <1>8
  <2>2. HSq[8] = q[8 - 7]
    BY <2>1
  <2> QED  BY <1>9, <2>1, <2>2
<1>11. ASSUME NEW i \in 1 .. 8, Script[i] = "go" PROVE i = 7
  <2>1. i \in {1, 2, 3, 4, 5, 6, 7, 8}
    OBVIOUS
  <2>2. /\ Script[1] = Hello[1] /\ Script[2] = Hello[2] /\ Script[3] = Hello[3] /\ Script[4] = Hello[4]
        /\ Script[5] = Search[1] /\ Script[6] = Search[2] /\ Script[8] = q[1]
    BY <1>7, <1>10
  <2> QED  BY <1>2, <1>4, <1>11, <2>1, <2>2, Zenon
<1>12. \A i \in 1 .. 8 : Script[i] \in Commands
  BY <1>10 DEF Commands
<1> QED  BY <1>1, <1>6, <1>10, <1>11, <1>12 DEF HS

\* What there is to know of the numbers.
LEMMA Counts ==
  ASSUME BenchInv
  PROVE  /\ sent \in 0 .. 8 /\ infos \in 0 .. MaxInfos /\ result.depth \in 0 .. MaxInfos
         /\ Len(input) \in Nat /\ Len(output) \in Nat /\ Read \in Nat /\ MaxInfos \in Nat
         /\ \A i \in 1 .. Len(output) : output[i] \in Printed /\ output[i].depth \in Nat
<1>1. MaxInfos \in Nat /\ sent \in 0 .. 8 /\ infos \in 0 .. MaxInfos /\ result.depth \in 0 .. MaxInfos
  BY InfosAssumption, ScriptIs DEF BenchInv, Typed, TypeOK
<1>2. Len(input) \in Nat /\ Len(output) \in Nat /\ Len(input) <= sent
  BY DEF BenchInv, Typed, InputIsScript
<1>3. \A i \in 1 .. Len(output) : output[i] \in Printed /\ output[i].depth \in Nat
  <2>1. output \in Seq(Printed)
    BY DEF BenchInv, Typed
  <2>2. \A i \in 1 .. Len(output) : output[i] \in Printed
    BY <2>1
  <2>3. \A line \in Printed : line.depth \in Nat
    BY <1>1 DEF Printed
  <2> QED  BY <2>2, <2>3
<1> QED  BY <1>1, <1>2, <1>3 DEF Read

-----------------------------------------------------------------------------
(* The steps.                                                              *)

LEMMA InitBench == Init => BenchInv
<1> SUFFICES ASSUME Init PROVE BenchInv
  OBVIOUS
<1>1. MaxInfos \in Nat /\ 0 \in 0 .. MaxInfos /\ 0 \in 0 .. 8
  BY InfosAssumption
<1>2. sent = 0 /\ infos = 0 /\ input = << >> /\ output = << >> /\ result.depth = 0
  BY DEF Init
<1>3. input \in Seq(Commands) /\ output \in Seq(Printed) /\ Len(input) = 0 /\ Len(output) = 0
  BY <1>2
<1>4. result \in [depth : 0 .. MaxInfos, bestmove : BOOLEAN]
  BY <1>1 DEF Init
<1>5. Typed
  BY <1>1, <1>2, <1>3, <1>4, ScriptIs DEF Init, Typed, TypeOK
<1>6. Read = 0 /\ InputIsScript
  <2>1. Read = 0
    <3>1. sent = 0 /\ Len(input) = 0
      BY <1>2, <1>3
    <3> QED  BY <3>1 DEF Read
  <2> QED  BY <1>2, <1>3, <2>1 DEF InputIsScript
<1>7. 1 .. Len(output) = {}
  BY <1>3
<1>8. OneSearch /\ LastReport
  <2>1. engine # "searching"
    BY DEF Init
  <2> QED  BY <1>2, <1>6, <1>7, <2>1, ScriptIs DEF OneSearch, LastReport
<1>9. RowIsWhole /\ Closing
  BY DEF Init, RowIsWhole, Closing
<1> QED  BY <1>5, <1>6, <1>8, <1>9 DEF BenchInv

\* Input that neither grows nor is read.
LEMMA SameInput ==
  ASSUME BenchInv, UNCHANGED <<sent, input>>
  PROVE  InputIsScript' /\ Read' = Read
<1>1. Read' = Read
  BY DEF Read
<1> QED  BY <1>1 DEF BenchInv, InputIsScript

\* A line printed that is neither a report nor a move.
LEMMA Printing ==
  ASSUME BenchInv, NEW kind \in Plain,
         Emit(kind),
         UNCHANGED <<infos, result, pc, engine>>, Read' \in Nat, Read' >= Read,
         pc = "hello" => sent' <= Len(Hello)
  PROVE  output' \in Seq(Printed) /\ OneSearch' /\ LastReport'
<1> PICK n \in Nat : n = Len(output)
  BY Counts
<1>1. [kind |-> kind, depth |-> infos'] \in Printed
  <2>1. kind \in Kinds
    BY DEF Kinds
  <2> QED  BY <2>1, Counts DEF Printed
<1>2. output \in Seq(Printed) /\ n \in Nat /\ Read \in Nat
  BY Counts DEF BenchInv, Typed
<1>3. /\ output' \in Seq(Printed) /\ Len(output') = n + 1
      /\ \A i \in 1 .. n : output'[i] = output[i]
      /\ output'[n + 1] = [kind |-> kind, depth |-> infos']
  <2>1. output' = Append(output, [kind |-> kind, depth |-> infos'])
    BY DEF Emit
  <2> QED  BY <1>1, <1>2, <2>1, Appended
<1>4. ~IsInfo(output'[n + 1]) /\ ~IsMove(output'[n + 1])
  <2>1. kind # "info" /\ kind # "bestmove"
    BY DEF Plain
  <2> QED  BY <1>3, <2>1 DEF IsInfo, IsMove
<1>5. \A i \in 1 .. n : (IsInfo(output'[i]) <=> IsInfo(output[i])) /\ (IsMove(output'[i]) <=> IsMove(output[i]))
  BY <1>3 DEF IsInfo, IsMove
<1>6. \A i \in 1 .. n + 1 : i = n + 1 \/ i \in 1 .. n
  BY <1>2
<1>7. OneSearch'
  <2>1. ASSUME NEW i \in 1 .. n + 1, IsMove(output'[i])
        PROVE  /\ Read' >= 7 /\ engine' # "searching"
               /\ \A j \in 1 .. n + 1 : IsInfo(output'[j]) => j < i
    <3>1. i \in 1 .. n /\ IsMove(output[i])
      BY <1>4, <1>5, <1>6, <2>1
    <3>2. Read >= 7 /\ engine # "searching" /\ \A j \in 1 .. n : IsInfo(output[j]) => j < i
      BY <3>1 DEF BenchInv, OneSearch
    <3> QED  BY <1>2, <1>4, <1>5, <1>6, <3>2
  <2>2. /\ pc' = "hello" => sent' <= Len(Hello)
        /\ engine' = "searching" => Read' >= 7
        /\ Read' < 7 => infos' = 0
    BY <1>2 DEF BenchInv, OneSearch
  <2>3. ASSUME NEW i \in 1 .. n + 1, IsInfo(output'[i]) PROVE Read' >= 7
    <3>1. i \in 1 .. n /\ IsInfo(output[i])
      BY <1>4, <1>5, <1>6, <2>3
    <3>2. Read >= 7
      BY <1>2, <3>1 DEF BenchInv, OneSearch
    <3> QED  BY <1>2, <3>2
  <2> QED  BY <1>3, <2>1, <2>2, <2>3 DEF OneSearch
<1>8. LastReport'
  <2>1. ASSUME NEW i \in 1 .. n + 1, IsInfo(output'[i]), \A j \in 1 .. n + 1 : IsInfo(output'[j]) => j <= i
        PROVE  output'[i].depth = infos'
    <3>1. i \in 1 .. n /\ IsInfo(output[i]) /\ \A j \in 1 .. n : IsInfo(output[j]) => j <= i
      BY <1>2, <1>4, <1>5, <1>6, <2>1
    <3> QED  BY <1>3, <3>1 DEF BenchInv, LastReport
  <2>2. ASSUME pc' \in {"hello", "search"}, \A i \in 1 .. n + 1 : ~IsInfo(output'[i])
        PROVE  result'.depth = infos'
    <3>1. \A i \in 1 .. n : ~IsInfo(output[i])
      BY <1>2, <1>5, <2>2
    <3> QED  BY <2>2, <3>1 DEF BenchInv, LastReport
  <2> QED  BY <1>3, <2>1, <2>2 DEF LastReport
<1> QED  BY <1>3, <1>7, <1>8

\* The client writes the next line of the script.
LEMMA SendStep == BenchInv /\ Send => BenchInv'
<1> SUFFICES ASSUME BenchInv, Send PROVE BenchInv'
  OBVIOUS
<1>1. /\ sent < Due /\ sent' = sent + 1 /\ input' = Append(input, Script[sent + 1])
      /\ Emit("echo")
      /\ UNCHANGED <<infos, pc, saw, result, raised, outcome, engine, refused, threads>>
  BY DEF Send
<1>2. sent \in Nat /\ sent + 1 \in 1 .. 8 /\ Len(input) \in Nat /\ Len(input) <= sent /\ input \in Seq(Commands)
  <2>1. Due = Len(Hello) \/ Due = Len(Hello \o Search) \/ Due = Len(Script) \/ Due = 0
    <3>1. CASE pc = "hello"
      BY <3>1, Zenon DEF Due
    <3>2. CASE pc = "search"
      BY <3>2, Zenon DEF Due
    <3>3. CASE pc = "drain"
      BY <3>3, Zenon DEF Due
    <3>4. CASE pc # "hello" /\ pc # "search" /\ pc # "drain"
      BY <3>4, Zenon DEF Due
    <3> QED  BY <3>1, <3>2, <3>3, <3>4
  <2>2. Due \in 0 .. 8
    BY <2>1, ScriptIs
  <2>3. sent < Due
    BY <1>1
  <2>4. sent \in 0 .. 8 /\ sent + 1 \in 1 .. 8
    BY SMTT(30), <2>2, <2>3, Counts
  <2>5. Len(input) \in Nat /\ Len(input) <= sent /\ input \in Seq(Commands)
    BY DEF BenchInv, InputIsScript, Typed
  <2> QED  BY <2>4, <2>5
<1>3. Script[sent + 1] \in Commands
  BY <1>2, ScriptIs
<1>4. /\ input' \in Seq(Commands) /\ Len(input') = Len(input) + 1
      /\ \A i \in 1 .. Len(input) : input'[i] = input[i]
      /\ input'[Len(input) + 1] = Script[sent + 1]
  BY <1>1, <1>2, <1>3, Appended
<1>5. Read' = Read /\ Read \in Nat /\ Read = sent - Len(input)
  BY <1>1, <1>2, <1>4 DEF Read
<1>6. InputIsScript'
  <2>1. ASSUME NEW i \in 1 .. Len(input) + 1 PROVE input'[i] = Script[Read + i]
    <3>1. CASE i \in 1 .. Len(input)
      BY <1>4, <3>1 DEF BenchInv, InputIsScript
    <3>2. CASE i = Len(input) + 1
      <4>1. Read + i = sent + 1
        BY <1>2, <1>5, <3>2
      <4> QED  BY <1>4, <3>2, <4>1
    <3> QED  BY <1>2, <3>1, <3>2
  <2>2. Len(input') <= sent'
    BY <1>1, <1>2, <1>4
  <2> QED  BY <1>4, <1>5, <2>1, <2>2 DEF InputIsScript
<1>7. pc = "hello" => sent' <= Len(Hello)
  <2>1. pc = "hello" => Due = Len(Hello)
    BY Zenon DEF Due
  <2> QED  BY <1>1, <1>2, <2>1, ScriptIs
<1>8. output' \in Seq(Printed) /\ OneSearch' /\ LastReport'
  <2>1. "echo" \in Plain
    BY DEF Plain
  <2>2. Read' \in Nat /\ Read' >= Read
    BY <1>5
  <2> QED  BY <1>1, <1>7, <2>1, <2>2, Printing
<1>9. Typed'
  <2>1. sent' \in 0 .. Len(Script)
    BY <1>1, <1>2, ScriptIs
  <2> QED  BY <1>1, <1>4, <1>8, <2>1 DEF BenchInv, Typed, TypeOK
<1>10. RowIsWhole' /\ Closing'
  BY <1>1, <1>5 DEF BenchInv, RowIsWhole, Closing
<1> QED  BY <1>6, <1>8, <1>9, <1>10 DEF BenchInv

\* The engine reads a command: the go is the only one that starts a search.
LEMMA ReadCommandStep == BenchInv /\ ReadCommand => BenchInv'
<1> SUFFICES ASSUME BenchInv, ReadCommand PROVE BenchInv'
  OBVIOUS
<1>1. /\ Alive /\ input # << >> /\ input' = Tail(input)
      /\ engine' = CASE Command = "go" -> "searching" [] Command = "quit" -> "ended" [] OTHER -> engine
      /\ UNCHANGED <<pc, sent, saw, result, raised, outcome, infos, refused>>
      /\ Handle
  BY DEF ReadCommand, clientVars
<1>2. /\ input' \in Seq(Commands) /\ Len(input') = Len(input) - 1 /\ Len(input) \in Nat \ {0}
      /\ \A i \in 1 .. Len(input) - 1 : input'[i] = input[i + 1]
      /\ Command = input[1]
  BY <1>1, Taken DEF BenchInv, Typed, Command
<1>3. sent \in 0 .. 8 /\ Len(input) <= sent /\ Read = sent - Len(input)
  BY Counts DEF BenchInv, InputIsScript, Read
<1>4. Read \in 0 .. 7 /\ Read' = Read + 1
  BY SMTT(30), <1>1, <1>2, <1>3 DEF Read
<1>5. InputIsScript'
  <2>1. ASSUME NEW i \in 1 .. Len(input) - 1 PROVE input'[i] = Script[Read + 1 + i]
    <3>1. i + 1 \in 1 .. Len(input) /\ Read + (i + 1) = Read + 1 + i
      BY <1>2, <1>4
    <3>2. input[i + 1] = Script[Read + (i + 1)]
      BY <3>1 DEF BenchInv, InputIsScript
    <3> QED  BY <1>2, <3>1, <3>2
  <2> QED  BY <1>1, <1>2, <1>3, <1>4, <2>1 DEF InputIsScript
<1>6. Command = "go" => Read' = 7
  <2>1. Command = Script[Read + 1]
    BY <1>2 DEF BenchInv, InputIsScript
  <2>2. Read + 1 \in 1 .. 8
    BY <1>4
  <2>3. Script[Read + 1] = "go" => Read + 1 = 7
    BY <2>2, ScriptIs
  <2> QED  BY <1>4, <2>1, <2>3
<1>7. engine' \in {"reading", "searching", "ended"} /\ (engine' = "searching" => engine = "searching" \/ Command = "go")
  BY <1>1 DEF Alive
<1>8. /\ threads' \in BOOLEAN
      /\ \/ UNCHANGED output
         \/ /\ engine' = engine
            /\ \E kind \in Plain :
                    Emit(kind)
  <2>1. threads \in BOOLEAN
    BY DEF BenchInv, Typed, TypeOK
  <2>2. "uciok" \in Plain /\ "readyok" \in Plain /\ "info string" \in Plain
    BY DEF Plain
  <2>3. CASE Command \in {"uci", "isready", "threads"}
    <3>1. engine' = engine
      BY <1>1, <2>3, Zenon
    <3>2. \/ UNCHANGED output /\ threads' = TRUE
          \/ UNCHANGED threads /\ (Emit("uciok") \/ Emit("readyok") \/ Emit("info string"))
      <4>1. CASE Command = "uci"
        BY <1>1, <4>1, Zenon DEF Handle, Answer
      <4>2. CASE Command = "isready"
        BY <1>1, <4>2, Zenon DEF Handle, Answer
      <4>3. CASE Command = "threads"
        BY <1>1, <4>3, Zenon DEF Handle, Answer
      <4> QED  BY <2>3, <4>1, <4>2, <4>3
    <3> QED  BY <2>1, <2>2, <3>1, <3>2
  <2>4. CASE Command \notin {"uci", "isready", "threads"}
    <3>1. UNCHANGED <<output, threads>>
      BY <1>1, <2>4, Zenon DEF Handle
    <3> QED  BY <2>1, <3>1
  <2> QED  BY <2>3, <2>4
<1>9. output' \in Seq(Printed) /\ OneSearch' /\ LastReport'
  <2>1. CASE UNCHANGED output
    <3>1. /\ \A i \in 1 .. Len(output) : (IsInfo(output'[i]) <=> IsInfo(output[i])) /\ (IsMove(output'[i]) <=> IsMove(output[i]))
          /\ output \in Seq(Printed)
      BY <2>1 DEF IsInfo, IsMove, BenchInv, Typed
    <3>2. /\ engine' = "searching" => Read' >= 7
          /\ Read' < 7 => infos' = 0
          /\ pc' = "hello" => sent' <= Len(Hello)
      <4>1. engine = "searching" => Read >= 7
        BY DEF BenchInv, OneSearch
      <4>2. Read < 7 => infos = 0
        BY DEF BenchInv, OneSearch
      <4>3. pc = "hello" => sent <= Len(Hello)
        BY DEF BenchInv, OneSearch
      <4> QED  BY <1>1, <1>4, <1>6, <1>7, <4>1, <4>2, <4>3
    <3>3. ASSUME NEW i \in 1 .. Len(output), IsMove(output[i]) PROVE Read' >= 7 /\ engine' # "searching"
      <4>1. Read >= 7 /\ engine # "searching"
        BY <3>3 DEF BenchInv, OneSearch
      <4>2. Command # "go"
        BY <1>4, <1>6, <4>1
      <4> QED  BY <1>4, <1>7, <4>1, <4>2
    <3>4. OneSearch'
      <4>1. \A i \in 1 .. Len(output) : IsMove(output[i]) => \A j \in 1 .. Len(output) : IsInfo(output[j]) => j < i
        BY DEF BenchInv, OneSearch
      <4>2. ASSUME NEW i \in 1 .. Len(output), IsInfo(output[i]) PROVE Read' >= 7
        <5>1. Read >= 7
          BY <4>2 DEF BenchInv, OneSearch
        <5> QED  BY <1>4, <5>1
      <4> QED  BY <2>1, <3>1, <3>2, <3>3, <4>1, <4>2 DEF OneSearch
    <3>5. LastReport'
      BY <1>1, <2>1, <3>1 DEF BenchInv, LastReport
    <3> QED  BY <2>1, <3>1, <3>4, <3>5
  <2>2. CASE ~UNCHANGED output
    <3>1. PICK kind \in Plain :
                 /\ engine' = engine
                 /\ Emit(kind)
      BY <1>8, <2>2
    <3>2. Read' \in Nat /\ Read' >= Read
      BY <1>4
    <3>3. pc = "hello" => sent' <= Len(Hello)
      BY <1>1 DEF BenchInv, OneSearch
    <3> QED  BY <1>1, <3>1, <3>2, <3>3, Printing
  <2> QED  BY <2>1, <2>2
<1>10. Typed'
  BY <1>1, <1>2, <1>7, <1>8, <1>9 DEF BenchInv, Typed, TypeOK
<1>11. RowIsWhole'
  <2>1. result.bestmove => Read >= 7 /\ engine # "searching"
    BY DEF BenchInv, RowIsWhole
  <2>2. result.bestmove => Read' >= 7 /\ engine' # "searching"
    BY <1>4, <1>6, <1>7, <2>1
  <2> QED  BY <1>1, <2>2 DEF BenchInv, RowIsWhole
<1>12. Closing'
  <2>1. pc # "closed"
    BY <1>1 DEF Alive, BenchInv, Closing
  <2> QED  BY <1>1, <2>1 DEF BenchInv, Closing
<1> QED  BY <1>5, <1>9, <1>10, <1>11, <1>12 DEF BenchInv

\* A report or the move of the search is the last line printed.
LEMMA SearchPrints ==
  ASSUME BenchInv, NEW kind \in {"info", "bestmove"}, engine = "searching", Emit(kind),
         UNCHANGED <<pc, sent, input, result>>,
         kind = "info" => infos' \in 0 .. MaxInfos /\ engine' = "searching",
         kind = "bestmove" => infos' = infos /\ engine' = "reading"
  PROVE  output' \in Seq(Printed) /\ OneSearch' /\ LastReport'
<1> PICK n \in Nat : n = Len(output)
  BY Counts
<1>1. /\ Read' = Read /\ Read \in Nat /\ Read >= 7 /\ infos' \in 0 .. MaxInfos
      /\ engine' # "searching" => kind = "bestmove"
  BY Counts DEF BenchInv, OneSearch, Read
<1>2. kind \in Kinds
  BY DEF Kinds
<1>3. /\ output' \in Seq(Printed) /\ Len(output') = n + 1
      /\ \A i \in 1 .. n : output'[i] = output[i]
      /\ output'[n + 1].kind = kind /\ output'[n + 1].depth = infos'
  <2>1. output' = Append(output, [kind |-> kind, depth |-> infos']) /\ output \in Seq(Printed)
    BY DEF Emit, BenchInv, Typed
  <2>2. [kind |-> kind, depth |-> infos'] \in Printed
    BY <1>1, <1>2 DEF Printed
  <2> QED  BY <2>1, <2>2, Appended
<1>4. \A i \in 1 .. n : (IsInfo(output'[i]) <=> IsInfo(output[i])) /\ ~IsMove(output'[i])
  BY <1>3 DEF BenchInv, OneSearch
<1>5. \A i \in 1 .. n + 1 : i = n + 1 \/ i \in 1 .. n
  OBVIOUS
<1>6. (IsInfo(output'[n + 1]) <=> kind = "info") /\ (IsMove(output'[n + 1]) <=> kind = "bestmove")
  BY <1>3 DEF IsInfo, IsMove
<1>7. pc # "hello"
  <2>1. pc = "hello" => sent <= 4
    BY ScriptIs DEF BenchInv, OneSearch
  <2>2. Read <= sent
    BY SMTT(30), Counts DEF Read
  <2> QED  BY <1>1, <2>1, <2>2, Counts
<1>8. OneSearch'
  <2>1. ASSUME NEW i \in 1 .. n + 1, IsMove(output'[i])
        PROVE  /\ Read' >= 7 /\ engine' # "searching"
               /\ \A j \in 1 .. n + 1 : IsInfo(output'[j]) => j < i
    <3>1. i = n + 1 /\ kind = "bestmove"
      BY <1>4, <1>5, <1>6, <2>1
    <3>2. engine' # "searching"
      BY <3>1
    <3>3. ASSUME NEW j \in 1 .. n + 1, IsInfo(output'[j]) PROVE j < i
      <4>1. j # n + 1
        BY <1>6, <3>1, <3>3
      <4> QED  BY <3>1, <4>1
    <3> QED  BY <1>1, <3>2, <3>3
  <2>2. \A i \in 1 .. n + 1 : IsInfo(output'[i]) => Read' >= 7
    BY <1>1
  <2> QED  BY <1>1, <1>3, <1>7, <2>1, <2>2 DEF OneSearch
<1>9. LastReport'
  <2>1. ASSUME NEW i \in 1 .. n + 1, IsInfo(output'[i]), \A j \in 1 .. n + 1 : IsInfo(output'[j]) => j <= i
        PROVE  output'[i].depth = infos'
    <3>1. CASE i = n + 1
      BY <1>3, <3>1
    <3>2. CASE i \in 1 .. n
      <4>1. kind # "info"
        <5>1. n + 1 \in 1 .. n + 1 /\ ~(n + 1 <= i)
          BY <3>2
        <5> QED  BY <1>6, <2>1, <5>1
      <4>2. infos' = infos
        BY <4>1
      <4>3. IsInfo(output[i]) /\ \A j \in 1 .. n : IsInfo(output[j]) => j <= i
        BY <1>4, <2>1, <3>2
      <4> QED  BY <1>3, <3>2, <4>2, <4>3 DEF BenchInv, LastReport
    <3> QED  BY <1>5, <3>1, <3>2
  <2>2. ASSUME pc' \in {"hello", "search"}, \A i \in 1 .. n + 1 : ~IsInfo(output'[i])
        PROVE  result'.depth = infos'
    <3>1. \A i \in 1 .. n : ~IsInfo(output[i])
      BY <1>4, <2>2
    <3>2. n + 1 \in 1 .. n + 1
      OBVIOUS
    <3>3. kind # "info"
      BY <1>6, <2>2, <3>2
    <3>4. infos' = infos
      BY <3>3
    <3> QED  BY <2>2, <3>1, <3>4 DEF BenchInv, LastReport
  <2> QED  BY <1>3, <2>1, <2>2 DEF LastReport
<1> QED  BY <1>3, <1>8, <1>9

LEMMA ReportStep == BenchInv /\ Report => BenchInv'
<1> SUFFICES ASSUME BenchInv, Report PROVE BenchInv'
  OBVIOUS
<1>1. /\ engine = "searching" /\ infos < MaxInfos /\ infos' = infos + 1 /\ Emit("info")
      /\ UNCHANGED <<pc, sent, saw, result, raised, outcome, input, engine, refused, threads>>
  BY DEF Report, clientVars
<1>2. infos' \in 0 .. MaxInfos
  BY <1>1, Counts
<1>3. output' \in Seq(Printed) /\ OneSearch' /\ LastReport'
  BY <1>1, <1>2, SearchPrints
<1>4. InputIsScript' /\ Read' = Read
  BY <1>1, SameInput
<1>5. Typed'
  BY <1>1, <1>2, <1>3 DEF BenchInv, Typed, TypeOK
<1>6. ~result.bestmove
  BY <1>1 DEF BenchInv, RowIsWhole
<1>7. RowIsWhole' /\ Closing'
  BY <1>1, <1>6 DEF BenchInv, RowIsWhole, Closing
<1> QED  BY <1>3, <1>4, <1>5, <1>7 DEF BenchInv

LEMMA BestMoveStep == BenchInv /\ BestMove => BenchInv'
<1> SUFFICES ASSUME BenchInv, BestMove PROVE BenchInv'
  OBVIOUS
<1>1. /\ engine = "searching" /\ engine' = "reading" /\ infos' = infos /\ Emit("bestmove")
      /\ UNCHANGED <<pc, sent, saw, result, raised, outcome, input, refused, threads>>
  BY DEF BestMove, clientVars
<1>2. output' \in Seq(Printed) /\ OneSearch' /\ LastReport'
  BY <1>1, SearchPrints
<1>3. InputIsScript' /\ Read' = Read
  BY <1>1, SameInput
<1>4. Typed'
  BY <1>1, <1>2 DEF BenchInv, Typed, TypeOK
<1>5. RowIsWhole' /\ Closing'
  BY <1>1, <1>3 DEF BenchInv, RowIsWhole, Closing
<1> QED  BY <1>2, <1>3, <1>4, <1>5 DEF BenchInv

\* The engine's end, sudden or not, changes nothing else.
LEMMA EngineEnds == BenchInv /\ (Crash \/ Exit) => BenchInv'
<1> SUFFICES ASSUME BenchInv, Crash \/ Exit PROVE BenchInv'
  OBVIOUS
<1>1. /\ UNCHANGED <<pc, sent, saw, result, raised, outcome, input, output, infos, refused, threads>>
      /\ engine # "exited" /\ engine' \in {"ended", "exited"}
  BY DEF Crash, Exit, Alive, clientVars
<1>2. InputIsScript' /\ Read' = Read
  BY <1>1, SameInput
<1>3. Typed'
  BY <1>1 DEF BenchInv, Typed, TypeOK
<1>4. OneSearch' /\ LastReport'
  BY <1>1, <1>2 DEF BenchInv, OneSearch, LastReport
<1>5. RowIsWhole' /\ Closing'
  BY <1>1, <1>2 DEF BenchInv, RowIsWhole, Closing
<1> QED  BY <1>2, <1>3, <1>4, <1>5 DEF BenchInv

\* The client moves on without a line.
LEMMA WithoutLine ==
  ASSUME BenchInv, UNCHANGED <<sent, saw, result, input, output, engineVars>>,
         pc' \notin {"hello", "search"}
  PROVE  InputIsScript' /\ Read' = Read /\ OneSearch' /\ LastReport'
<1>1. InputIsScript' /\ Read' = Read
  BY SameInput
<1> QED  BY <1>1 DEF BenchInv, OneSearch, LastReport, engineVars

LEMMA RaiseStep == BenchInv /\ (ReadTimesOut \/ ReadCloses \/ ReapTimesOut) => BenchInv'
<1> SUFFICES ASSUME BenchInv, ReadTimesOut \/ ReadCloses \/ ReapTimesOut PROVE BenchInv'
  OBVIOUS
<1>1. /\ UNCHANGED <<sent, saw, result, outcome, input, output, engineVars>> /\ pc' = "exit"
      /\ \/ pc \in {"hello", "search"} /\ raised' \in {"timeout", "closed"}
         \/ pc = "reap" /\ raised' = "expired"
  BY DEF ReadTimesOut, ReadCloses, ReapTimesOut, Raise, Reading
<1>2. InputIsScript' /\ Read' = Read /\ OneSearch' /\ LastReport'
  BY <1>1, WithoutLine
<1>3. Typed'
  BY <1>1 DEF BenchInv, Typed, TypeOK, engineVars
<1>4. RowIsWhole'
  BY <1>1, <1>2 DEF BenchInv, RowIsWhole, engineVars
<1>5. Closing'
  BY <1>1 DEF BenchInv, Closing
<1> QED  BY <1>2, <1>3, <1>4, <1>5 DEF BenchInv

LEMMA EndSteps == BenchInv /\ (DrainEnds \/ Reap) => BenchInv'
<1> SUFFICES ASSUME BenchInv, DrainEnds \/ Reap PROVE BenchInv'
  OBVIOUS
<1>1. /\ UNCHANGED <<sent, saw, result, raised, outcome, input, output, engineVars>>
      /\ pc \in {"drain", "reap"} /\ pc' \in {"reap", "exit"}
  BY DEF DrainEnds, Reap, Reading
<1>2. InputIsScript' /\ Read' = Read /\ OneSearch' /\ LastReport'
  BY <1>1, WithoutLine
<1>3. Typed'
  BY <1>1 DEF BenchInv, Typed, TypeOK, engineVars
<1>4. RowIsWhole'
  BY <1>1, <1>2 DEF BenchInv, RowIsWhole, engineVars
<1>5. Closing'
  BY <1>1 DEF BenchInv, Closing
<1> QED  BY <1>2, <1>3, <1>4, <1>5 DEF BenchInv

LEMMA LeaveStep == BenchInv /\ Leave => BenchInv'
<1> SUFFICES ASSUME BenchInv, Leave PROVE BenchInv'
  OBVIOUS
<1>1. /\ UNCHANGED <<sent, saw, result, raised, input, output, engineVars>>
      /\ pc = "exit" /\ engine = "exited" /\ pc' = "closed"
      /\ outcome' = IF raised # "none" THEN raised ELSE IF result.bestmove THEN "result" ELSE "no bestmove"
  BY DEF Leave
<1>2. InputIsScript' /\ Read' = Read /\ OneSearch' /\ LastReport'
  BY <1>1, WithoutLine
<1>3. Typed'
  BY <1>1 DEF BenchInv, Typed, TypeOK, engineVars
<1>4. RowIsWhole'
  BY <1>1, <1>2 DEF BenchInv, RowIsWhole, engineVars
<1>5. outcome' # "none"
  BY <1>1
<1>6. Closing'
  BY <1>1, <1>5 DEF Closing, engineVars
<1> QED  BY <1>2, <1>3, <1>4, <1>6 DEF BenchInv

\* Taking the first line keeps the order of the others; what it told of the search
\* is in the row then.
LEMMA TakeLine ==
  ASSUME BenchInv, output # << >>, output' = Tail(output), UNCHANGED <<sent, input, engineVars>>,
         pc' = "hello" => pc = "hello", pc' \in {"hello", "search"} => pc \in {"hello", "search"},
         pc' \in {"hello", "search"} =>
           IF IsInfo(Line) THEN result'.depth = Line.depth ELSE result'.depth = result.depth
  PROVE  output' \in Seq(Printed) /\ InputIsScript' /\ Read' = Read /\ OneSearch' /\ LastReport'
<1>1. InputIsScript' /\ Read' = Read
  BY SameInput
<1> PICK n \in Nat \ {0} : n = Len(output)
  BY Taken DEF BenchInv, Typed
<1>2. /\ output' \in Seq(Printed) /\ Len(output') = n - 1
      /\ \A i \in 1 .. n - 1 : output'[i] = output[i + 1]
      /\ Line = output[1]
  BY Taken DEF BenchInv, Typed, Line
<1>3. \A i \in 1 .. n : i = 1 \/ i - 1 \in 1 .. n - 1
  OBVIOUS
<1>4. \A i \in 1 .. n - 1 : i + 1 \in 1 .. n /\ i + 1 # 1
  OBVIOUS
<1>5. OneSearch'
  <2>1. ASSUME NEW i \in 1 .. n - 1, IsMove(output'[i])
        PROVE  /\ Read >= 7 /\ engine # "searching"
               /\ \A j \in 1 .. n - 1 : IsInfo(output'[j]) => j < i
    <3>1. i + 1 \in 1 .. n /\ IsMove(output[i + 1])
      BY <1>2, <1>4, <2>1
    <3>2. Read >= 7 /\ engine # "searching" /\ \A j \in 1 .. n : IsInfo(output[j]) => j < i + 1
      BY <3>1 DEF BenchInv, OneSearch
    <3>3. ASSUME NEW j \in 1 .. n - 1, IsInfo(output'[j]) PROVE j < i
      <4>1. IsInfo(output[j + 1]) /\ j + 1 \in 1 .. n
        BY <1>2, <3>3
      <4>2. j + 1 < i + 1
        BY <3>2, <4>1
      <4> QED  BY <4>2
    <3> QED  BY <3>2, <3>3
  <2>2. /\ pc' = "hello" => sent' <= Len(Hello)
        /\ engine' = "searching" => Read' >= 7
        /\ Read' < 7 => infos' = 0
    BY <1>1 DEF BenchInv, OneSearch, engineVars
  <2>3. ASSUME NEW i \in 1 .. n - 1, IsInfo(output'[i]) PROVE Read' >= 7
    <3>1. i + 1 \in 1 .. n /\ IsInfo(output[i + 1])
      BY <1>2, <1>4, <2>3
    <3> QED  BY <1>1, <3>1 DEF BenchInv, OneSearch
  <2> QED  BY <1>1, <1>2, <2>1, <2>2, <2>3 DEF OneSearch, engineVars
<1>6. LastReport'
  <2>1. ASSUME NEW i \in 1 .. n - 1, IsInfo(output'[i]), \A j \in 1 .. n - 1 : IsInfo(output'[j]) => j <= i
        PROVE  output'[i].depth = infos
    <3>1. i + 1 \in 1 .. n /\ output'[i] = output[i + 1]
      BY <1>2
    <3>2. ASSUME NEW j \in 1 .. n, IsInfo(output[j]) PROVE j <= i + 1
      <4>1. CASE j = 1
        BY <4>1
      <4>2. CASE j - 1 \in 1 .. n - 1
        <5>1. output'[j - 1] = output[(j - 1) + 1] /\ (j - 1) + 1 = j
          BY <1>2, <4>2
        <5>2. j - 1 <= i
          BY <2>1, <3>2, <4>2, <5>1
        <5> QED  BY <5>2
      <4> QED  BY <1>3, <4>1, <4>2
    <3> QED  BY <2>1, <3>1, <3>2 DEF BenchInv, LastReport
  <2>2. ASSUME pc' \in {"hello", "search"}, \A i \in 1 .. n - 1 : ~IsInfo(output'[i])
        PROVE  result'.depth = infos
    <3>1. ASSUME NEW j \in 1 .. n, j # 1 PROVE ~IsInfo(output[j])
      <4>1. j - 1 \in 1 .. n - 1 /\ (j - 1) + 1 = j
        BY <3>1
      <4>2. output'[j - 1] = output[j]
        BY <1>2, <4>1
      <4> QED  BY <2>2, <4>1, <4>2
    <3>2. 1 \in 1 .. n
      OBVIOUS
    <3>3. CASE IsInfo(Line)
      <4>1. \A j \in 1 .. n : IsInfo(output[j]) => j <= 1
        BY <3>1
      <4>2. output[1].depth = infos
        BY <1>2, <3>2, <3>3, <4>1 DEF BenchInv, LastReport
      <4> QED  BY <1>2, <2>2, <3>3, <4>2
    <3>4. CASE ~IsInfo(Line)
      <4>1. \A j \in 1 .. n : ~IsInfo(output[j])
        BY <1>2, <3>1, <3>4
      <4>2. result.depth = infos
        BY <2>2, <4>1 DEF BenchInv, LastReport
      <4> QED  BY <2>2, <3>4, <4>2
    <3> QED  BY <3>3, <3>4
  <2> QED  BY <1>2, <2>1, <2>2 DEF LastReport, engineVars
<1> QED  BY <1>1, <1>2, <1>5, <1>6

LEMMA ReadHelloStep == BenchInv /\ ReadHello => BenchInv'
<1> SUFFICES ASSUME BenchInv, ReadHello PROVE BenchInv'
  OBVIOUS
<1>1. /\ pc = "hello" /\ output # << >> /\ output' = Tail(output)
      /\ UNCHANGED <<sent, result, raised, outcome, input, engineVars>>
      /\ pc' \in {"hello", "search"} /\ saw' \subseteq {"uciok", "readyok"}
  BY DEF ReadHello, Take, Reading, BenchInv, Typed, TypeOK
<1>2. ~IsInfo(Line)
  <2>1. Read < 7
    <3>1. sent <= 4
      BY <1>1, ScriptIs DEF BenchInv, OneSearch
    <3>2. sent \in Nat /\ Len(input) \in Nat /\ Read = sent - Len(input)
      BY Counts DEF Read
    <3> QED  BY <3>1, <3>2
  <2>2. Line = output[1] /\ 1 \in 1 .. Len(output)
    BY <1>1, Taken DEF BenchInv, Typed, Line
  <2>3. Read \in Nat
    BY Counts
  <2>4. ~(Read >= 7)
    BY <2>1, <2>3
  <2> QED  BY <2>2, <2>4 DEF BenchInv, OneSearch
<1>3. output' \in Seq(Printed) /\ InputIsScript' /\ Read' = Read /\ OneSearch' /\ LastReport'
  BY <1>1, <1>2, TakeLine
<1>4. Typed'
  BY <1>1, <1>3 DEF BenchInv, Typed, TypeOK, engineVars
<1>5. RowIsWhole' /\ Closing'
  BY <1>1, <1>3 DEF BenchInv, RowIsWhole, Closing, engineVars
<1> QED  BY <1>3, <1>4, <1>5 DEF BenchInv

\* The row takes the reports in order, and the move last.
LEMMA ReadSearchStep == BenchInv /\ ReadSearch => BenchInv'
<1> SUFFICES ASSUME BenchInv, ReadSearch PROVE BenchInv'
  OBVIOUS
<1>1. /\ pc = "search" /\ output # << >> /\ output' = Tail(output)
      /\ UNCHANGED <<sent, saw, raised, outcome, input, engineVars>>
      /\ pc' = IF Line.kind = "bestmove" THEN "drain" ELSE "search"
  BY DEF ReadSearch, Take, Reading
<1>2. Line.kind = "info" => result' = [result EXCEPT !.depth = Line.depth]
  BY Zenon DEF ReadSearch
<1>3. Line.kind = "bestmove" => result' = [result EXCEPT !.bestmove = TRUE]
  BY Zenon DEF ReadSearch
<1>4. Line.kind # "info" /\ Line.kind # "bestmove" => result' = result
  BY Zenon DEF ReadSearch
<1>5. result \in [depth : 0 .. MaxInfos, bestmove : BOOLEAN] /\ Line \in Printed /\ Line = output[1] /\ 1 \in 1 .. Len(output)
  BY <1>1, Taken DEF BenchInv, Typed, TypeOK, Line
<1>6. /\ result'.depth = IF IsInfo(Line) THEN Line.depth ELSE result.depth
      /\ result'.bestmove <=> (result.bestmove \/ IsMove(Line))
      /\ result' \in [depth : 0 .. MaxInfos, bestmove : BOOLEAN]
  <2>1. Line.depth \in 0 .. MaxInfos
    BY <1>5 DEF Printed
  <2>2. CASE Line.kind = "info"
    BY <1>2, <1>5, <2>1, <2>2 DEF IsInfo, IsMove
  <2>3. CASE Line.kind = "bestmove"
    BY <1>3, <1>5, <2>3 DEF IsInfo, IsMove
  <2>4. CASE Line.kind # "info" /\ Line.kind # "bestmove"
    BY <1>4, <1>5, <2>4 DEF IsInfo, IsMove
  <2> QED  BY <2>2, <2>3, <2>4
<1>7. output' \in Seq(Printed) /\ InputIsScript' /\ Read' = Read /\ OneSearch' /\ LastReport'
  BY <1>1, <1>6, TakeLine
<1>8. Typed'
  <2>1. pc' \in {"search", "drain"} /\ (pc' = "drain" => result'.bestmove)
    BY <1>1, <1>6 DEF IsMove
  <2>2. TypeOK'
    BY <1>1, <1>6, <2>1 DEF BenchInv, Typed, TypeOK, engineVars
  <2> QED  BY <1>1, <1>7, <2>2 DEF BenchInv, Typed
<1>9. ~result.bestmove /\ raised \in {"none", "timeout", "closed", "expired"}
  BY <1>1 DEF BenchInv, RowIsWhole, Typed
<1>10. RowIsWhole'
  <2>1. CASE IsMove(Line)
    <3>1. /\ Read >= 7 /\ engine # "searching"
          /\ \A j \in 1 .. Len(output) : IsInfo(output[j]) => j < 1
      BY <1>5, <2>1 DEF BenchInv, OneSearch
    <3>2. \A j \in 1 .. Len(output) : ~IsInfo(output[j])
      BY <3>1
    <3>3. result.depth = infos
      BY <1>1, <3>2 DEF BenchInv, LastReport
    <3>4. result'.depth = infos
      BY <1>5, <1>6, <3>2, <3>3
    <3>5. pc' = "drain" /\ raised = "none"
      BY <1>1, <2>1 DEF IsMove, BenchInv, RowIsWhole
    <3> QED  BY <1>1, <1>7, <3>1, <3>4, <3>5 DEF RowIsWhole, engineVars
  <2>2. CASE ~IsMove(Line)
    <3>1. ~result'.bestmove /\ pc' = "search"
      BY <1>1, <1>6, <1>9, <2>2 DEF IsMove
    <3>2. raised = "none"
      BY <1>1 DEF BenchInv, RowIsWhole
    <3> QED  BY <1>1, <3>1, <3>2 DEF RowIsWhole
  <2> QED  BY <2>1, <2>2
<1>11. Closing'
  BY <1>1 DEF BenchInv, Closing, engineVars
<1> QED  BY <1>7, <1>8, <1>10, <1>11 DEF BenchInv

\* The drain leaves the row alone.
LEMMA DrainLineStep == BenchInv /\ DrainLine => BenchInv'
<1> SUFFICES ASSUME BenchInv, DrainLine PROVE BenchInv'
  OBVIOUS
<1>1. /\ pc = "drain" /\ output # << >> /\ output' = Tail(output)
      /\ UNCHANGED <<pc, sent, saw, result, raised, outcome, input, engineVars>>
  BY DEF DrainLine, Take, Reading, clientVars
<1>2. output' \in Seq(Printed) /\ InputIsScript' /\ Read' = Read /\ OneSearch' /\ LastReport'
  BY <1>1, TakeLine
<1>3. Typed'
  BY <1>1, <1>2 DEF BenchInv, Typed, TypeOK, engineVars
<1>4. RowIsWhole' /\ Closing'
  BY <1>1, <1>2 DEF BenchInv, RowIsWhole, Closing, engineVars
<1> QED  BY <1>2, <1>3, <1>4 DEF BenchInv

LEMMA StillBench == BenchInv /\ UNCHANGED vars => BenchInv'
BY ZenonT(30) DEF BenchInv, Typed, TypeOK, InputIsScript, Read, OneSearch, LastReport, RowIsWhole, Closing,
       vars, clientVars, engineVars

LEMMA BenchStep == BenchInv /\ [Next]_vars => BenchInv'
BY SendStep, ReadCommandStep, ReportStep, BestMoveStep, EngineEnds, RaiseStep, EndSteps, LeaveStep,
   ReadHelloStep, ReadSearchStep, DrainLineStep, StillBench
   DEF Next, Client, EngineStep

-----------------------------------------------------------------------------
(* What holds of every run of the client.                                  *)

\* A row that is returned is whole and of the search it labels, nothing already
\* answered is lost and no engine survives into the next position, whenever the
\* engine is late, refuses or dies (run_position).
THEOREM RowStaysSound == Spec => []RowIsSound
<1>1. Init => BenchInv
  BY InitBench
<1>2. BenchInv /\ [Next]_vars => BenchInv'
  BY BenchStep
<1>3. BenchInv => RowIsSound
  <2> SUFFICES ASSUME BenchInv PROVE RowIsSound
    OBVIOUS
  <2>1. TypeOK
    BY DEF BenchInv, Typed
  <2>2. RowIsOfThisSearch
    <3> SUFFICES ASSUME outcome = "result" PROVE result = [depth |-> infos, bestmove |-> TRUE]
      BY DEF RowIsOfThisSearch
    <3>1. outcome = IF raised # "none" THEN raised ELSE IF result.bestmove THEN "result" ELSE "no bestmove"
      BY DEF BenchInv, Closing
    <3>2. raised # "result"
      BY DEF BenchInv, Typed
    <3>3. result.bestmove
      BY <3>1, <3>2
    <3>4. result.depth = infos
      BY <3>3 DEF BenchInv, RowIsWhole
    <3> QED  BY <2>1, <3>3, <3>4 DEF TypeOK
  <2>3. NoOrphan
    BY DEF BenchInv, Closing, NoOrphan
  <2>4. AnswerIsKept
    BY DEF BenchInv, Closing, RowIsWhole, AnswerIsKept
  <2> QED  BY <2>1, <2>2, <2>3, <2>4 DEF RowIsSound
<1> QED  BY <1>1, <1>2, <1>3, PTL DEF Spec
=============================================================================
